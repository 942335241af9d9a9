----------------------------- MODULE ClientProofs -----------------------------
(***************************************************************************)
(* Proofs about the client's screens against the rows of the server, for   *)
(* any number of editors, requests, attributes, values and versions: the   *)
(* card of a customer (CustomerCard), the header of a conversation         *)
(* (ConversationWrite), the pages of the list (ListPages), the tasks and   *)
(* notes (CardItems), the thread (Thread), and all of them (MCClients).    *)
(***************************************************************************)
EXTENDS MCClients, FiniteSetTheorems, SequenceTheorems, TLAPS

-----------------------------------------------------------------------------
(***************************************************************************)
(* CustomerCard.  Whatever card a client or a request holds is old or      *)
(* true: if it has the version of the row, it has its values and their     *)
(* order, although it was read in two queries.                             *)
(***************************************************************************)
CardShapes == [version : 1 .. MaxVersion, value : [Attributes -> Values \union {Absent}],
               order : [FieldIds -> Nat]]
DraftShapes == [base : CardShapes,
                value : [Attributes \union {New} -> Values \union {Absent}],
                order : [DraftFields -> Nat],
                touched : SUBSET (Attributes \union {New}), carried : SUBSET FieldIds]
Screens == [shown : CardShapes, draft : DraftShapes \union {Nothing},
            conflict : CardShapes \union {Nothing}, saving : BOOLEAN]
SaveStates ==
  [pc : {"none", "row", "fields", "batch", "wonRow", "wonFields", "lostRow", "lostFields",
         "saved", "conflict", "failed", "over"},
   by : Editors \union {Nothing}, draft : DraftShapes \union {Nothing},
   card : CardShapes \union {Nothing}, open : BOOLEAN]

Known(c) ==
  /\ c.version <= card.version
  /\ c.version = card.version => c.value = card.value /\ c.order = card.order

(* A column has a value, whatever is edited.                               *)
Full(x) == \A a \in Columns : x.value[a] # Absent

GoodCard(c) == c \in CardShapes /\ Known(c) /\ Full(c)

(* What a draft says differently from its base was typed, or was carried   *)
(* over by a rebase, which only happens to fields that moved.              *)
IsOwn(d, a) == a \in d.touched \union d.carried

DraftIsOwn(d) ==
  /\ \A a \in Attributes : d.value[a] # d.base.value[a] => IsOwn(d, a)
  /\ d.value[New] # Absent => IsOwn(d, New)

(* A draft is based on a known card and differs from it by what is its own. *)
GoodDraft(d) ==
  /\ d \in DraftShapes
  /\ Known(d.base) /\ Full(d.base) /\ Full(d)
  /\ DraftIsOwn(d)

GoodScreen(x) ==
  /\ x \in Screens
  /\ GoodCard(x.shown)
  /\ x.draft # Nothing => GoodDraft(x.draft)
  /\ x.conflict # Nothing => GoodCard(x.conflict)

GoodSave(x) ==
  /\ x \in SaveStates
  /\ x \notin {NoSave, Over} => x.pc \notin {"none", "over"} /\ x.by \in Editors
  /\ x.draft # Nothing => GoodDraft(x.draft)
  /\ x.card # Nothing => GoodCard(x.card)
  /\ x.pc \in {"row", "fields", "batch"} => GoodDraft(x.draft)
  /\ x.pc \in {"fields", "wonFields", "lostFields", "saved", "conflict"} => GoodCard(x.card)

(* The ids to be given to new fields are not in use.                       *)
FreshIdsAreUnused == fresh \subseteq FieldIds /\ \A k \in fresh : card.value[k] = Absent

CardInv ==
  /\ card \in CardShapes /\ Full(card) /\ FreshIdsAreUnused
  /\ screen \in [Editors -> Screens] /\ save \in [Saves -> SaveStates]
  /\ \A e \in Editors : GoodScreen(screen[e])
  /\ \A s \in Saves : GoodSave(save[s])

-----------------------------------------------------------------------------
LEMMA TheCardIsGood == ASSUME CardInv PROVE GoodCard(card)
BY CardAssumption DEF CardInv, GoodCard, Known, CardShapes

(* Fields are counted with natural numbers.                                *)
LEMMA FieldsAreCounted ==
  ASSUME NEW S \in SUBSET DraftFields PROVE Cardinality(S) \in Nat
<1>1. IsFiniteSet(DraftFields)
  BY CardAssumption, FS_AddElement DEF DraftFields
<1> QED
  BY <1>1, FS_Subset, FS_CardinalityType

LEMMA InitCardInv == CardInit => CardInv
<1> SUFFICES ASSUME CardInit PROVE CardInv
  OBVIOUS
<1>1. card \in CardShapes /\ FreshIdsAreUnused
  <2>1. ASSUME NEW k \in FieldIds PROVE Cardinality({j \in FirstFields : j < k}) \in Nat
    BY CardAssumption, FieldsAreCounted DEF DraftFields
  <2> QED
    BY <2>1, CardAssumption DEF CardInit, CardShapes, Attributes, DraftFields, FreshIdsAreUnused
<1>2. GoodCard(card)
  <2>1. Full(card)
    BY CardAssumption DEF CardInit, Full, Attributes, DraftFields
  <2> QED
    BY <1>1, <2>1, CardAssumption DEF GoodCard, Known, CardShapes
<1> DEFINE first == [shown |-> card, draft |-> Nothing, conflict |-> Nothing, saving |-> FALSE]
<1>3. first \in Screens /\ GoodScreen(first)
  BY <1>1, <1>2 DEF Screens, GoodScreen
<1>4. NoSave \in SaveStates /\ GoodSave(NoSave)
  <2>1. /\ NoSave \in SaveStates /\ NoSave.pc = "none" /\ ~NoSave.open
        /\ NoSave.draft = Nothing /\ NoSave.card = Nothing
    BY DEF NoSave, SaveStates
  <2> HIDE DEF first
  <2>2. PICK x : x = NoSave
    OBVIOUS
  <2>3. GoodSave(x)
    BY <2>1, <2>2 DEF GoodSave
  <2> QED
    BY <2>1, <2>2, <2>3
<1>5. screen = [e \in Editors |-> first] /\ save = [s \in Saves |-> NoSave]
  BY DEF CardInit
<1> HIDE DEF first
<1> QED
  BY <1>1, <1>2, <1>3, <1>4, <1>5 DEF CardInv, GoodCard

(* Clients and requests move while the row stays.                          *)
LEMMA RowStays ==
  ASSUME CardInv, UNCHANGED <<card, fresh>>,
         screen' \in [Editors -> Screens], save' \in [Saves -> SaveStates],
         \A e \in Editors : GoodScreen(screen'[e]),
         \A s \in Saves : GoodSave(save'[s])
  PROVE  CardInv'
<1>1. \A c \in CardShapes : Known(c) <=> c.version <= card'.version
                                         /\ (c.version = card'.version =>
                                               c.value = card'.value /\ c.order = card'.order)
  BY DEF Known
<1>2. ASSUME NEW e \in Editors PROVE GoodScreen(screen[e])'
  <2>1. GoodScreen(screen'[e])
    OBVIOUS
  <2> QED
    BY <2>1 DEF GoodScreen, GoodCard, GoodDraft, DraftIsOwn, IsOwn, Known
<1>3. ASSUME NEW s \in Saves PROVE GoodSave(save[s])'
  <2>1. GoodSave(save'[s])
    OBVIOUS
  <2> QED
    BY <2>1 DEF GoodSave, GoodCard, GoodDraft, DraftIsOwn, IsOwn, Known
<1> QED
  BY <1>2, <1>3 DEF CardInv, FreshIdsAreUnused

LEMMA ScreenMoves ==
  ASSUME CardInv, NEW e \in Editors, NEW x, GoodScreen(x),
         screen' = [screen EXCEPT ![e] = x], UNCHANGED <<card, fresh, save>>
  PROVE  CardInv'
<1>1. screen' \in [Editors -> Screens] /\ \A f \in Editors : GoodScreen(screen'[f])
  BY DEF CardInv, GoodScreen
<1> QED
  BY <1>1, RowStays DEF CardInv

LEMMA SaveMoves ==
  ASSUME CardInv, NEW s \in Saves, NEW x, GoodSave(x),
         save' = [save EXCEPT ![s] = x], UNCHANGED <<card, fresh>>,
         screen' \in [Editors -> Screens], \A e \in Editors : GoodScreen(screen'[e])
  PROVE  CardInv'
<1>1. save' \in [Saves -> SaveStates] /\ \A t \in Saves : GoodSave(save'[t])
  BY DEF CardInv, GoodSave
<1> QED
  BY <1>1, RowStays DEF CardInv

(* The row is written: what was known of it stays known, as old.           *)
LEMMA RowWritten ==
  ASSUME CardInv, card' \in CardShapes, Full(card'), card'.version = card.version + 1,
         FreshIdsAreUnused', UNCHANGED screen,
         save' \in [Saves -> SaveStates],
         \A s \in Saves : \/ save'[s] = save[s]
                          \/ /\ save'[s].pc = "wonRow" /\ save'[s].by \in Editors
                             /\ save'[s].draft = Nothing /\ save'[s].card = Nothing
  PROVE  CardInv'
<1>0. card.version \in Nat /\ \A c \in CardShapes : c.version \in Nat
  BY DEF CardInv, CardShapes
<1>1. \A c \in CardShapes :
        Known(c) => /\ c.version <= card'.version
                    /\ c.version = card'.version => c.value = card'.value /\ c.order = card'.order
  BY <1>0 DEF Known
<1>2. ASSUME NEW e \in Editors PROVE GoodScreen(screen[e])'
  <2>1. GoodScreen(screen[e])
    BY DEF CardInv
  <2>2. screen[e].draft # Nothing => screen[e].draft.base \in CardShapes
    BY <2>1 DEF GoodScreen, GoodDraft, DraftShapes
  <2> QED
    BY <1>1, <2>1, <2>2 DEF GoodScreen, GoodCard, GoodDraft, Known
<1>3. ASSUME NEW s \in Saves PROVE GoodSave(save[s])'
  <2>1. CASE save'[s] = save[s]
    <3>1. GoodSave(save[s])
      BY DEF CardInv
    <3>2. PICK x : x = save[s]
      OBVIOUS
    <3>3. ASSUME NEW c, GoodCard(c) PROVE GoodCard(c)'
      BY <1>1, <3>3 DEF GoodCard, Known
    <3>4. ASSUME NEW d, GoodDraft(d) PROVE GoodDraft(d)'
      <4>1. d.base \in CardShapes
        BY <3>4 DEF GoodDraft, DraftShapes
      <4> QED
        BY <1>1, <3>4, <4>1 DEF GoodDraft, Known
    <3>5. GoodSave(x)'
      BY <3>1, <3>2, <3>3, <3>4 DEF GoodSave
    <3>6. save'[s] = x
      BY <2>1, <3>2
    <3> QED
      BY <3>5, <3>6 DEF GoodSave, GoodCard, GoodDraft, Known
  <2>2. CASE /\ save'[s].pc = "wonRow" /\ save'[s].by \in Editors
             /\ save'[s].draft = Nothing /\ save'[s].card = Nothing
    BY <2>2 DEF GoodSave
  <2> QED
    BY <2>1, <2>2
<1> QED
  BY <1>2, <1>3 DEF CardInv

-----------------------------------------------------------------------------
(* Drafts.                                                                 *)
LEMMA EditedDraftIsGood ==
  ASSUME NEW d, GoodDraft(d), NEW a \in Attributes \union {New}, NEW v \in Values,
         NEW order \in [DraftFields -> Nat]
  PROVE  GoodDraft([d EXCEPT !.value[a] = v, !.order = order, !.touched = d.touched \union {a}])
<1> DEFINE new == [d EXCEPT !.value[a] = v, !.order = order, !.touched = d.touched \union {a}]
<1>1. /\ new \in DraftShapes /\ new.base = d.base /\ new.carried = d.carried
      /\ new.touched = d.touched \union {a} /\ new.value[a] = v
      /\ \A b \in Attributes \union {New} : b # a => new.value[b] = d.value[b]
  BY DEF GoodDraft, DraftShapes
<1> HIDE DEF new
<1>2. GoodDraft(new)
  <2>1. Full(new)
    BY <1>1, CardAssumption DEF GoodDraft, Full, Attributes
  <2>2. DraftIsOwn(new)
    BY <1>1 DEF GoodDraft, DraftIsOwn, IsOwn
  <2> QED
    BY <1>1, <2>1, <2>2 DEF GoodDraft
<1> QED
  BY <1>2 DEF new

(* Numbering the fields of a draft gives each a natural number.            *)
LEMMA RenumberedIsTyped ==
  ASSUME NEW d PROVE Renumbered(d) \in [DraftFields -> Nat]
<1>1. ASSUME NEW k \in DraftFields
      PROVE  Cardinality({j \in FieldsIn(d) : ComesBefore(d, j, k)}) \in Nat
  BY FieldsAreCounted DEF FieldsIn
<1> QED
  BY <1>1 DEF Renumbered

LEMMA ThinnedDraftIsGood ==
  ASSUME NEW d, GoodDraft(d), NEW k \in DraftFields
  PROVE  GoodDraft([WithoutField(d, k) EXCEPT !.order = Renumbered(WithoutField(d, k))])
<1> DEFINE order == Renumbered(WithoutField(d, k))
           new == [WithoutField(d, k) EXCEPT !.order = order]
<1>0. order \in [DraftFields -> Nat]
  BY RenumberedIsTyped
<1>1. /\ new \in DraftShapes /\ new.base = d.base /\ new.carried = d.carried
      /\ new.touched = d.touched \union {k} /\ new.value[k] = Absent
      /\ \A b \in Attributes \union {New} : b # k => new.value[b] = d.value[b]
  <2> HIDE DEF order
  <2> QED
    BY <1>0 DEF GoodDraft, DraftShapes, WithoutField, DraftFields, Attributes
<1> HIDE DEF new
<1>2. GoodDraft(new)
  <2>1. Full(new)
    BY <1>1, CardAssumption DEF GoodDraft, Full, Attributes
  <2>2. DraftIsOwn(new)
    BY <1>1 DEF GoodDraft, DraftIsOwn, IsOwn
  <2> QED
    BY <1>1, <2>1, <2>2 DEF GoodDraft
<1> QED
  BY <1>2 DEF new

(* Carried over to another card a draft differs from it by what was typed  *)
(* and by what had only moved, which is noted as carried.                  *)
LEMMA RebasedDraftIsGood ==
  ASSUME NEW d, GoodDraft(d), NEW c, GoodCard(c)
  PROVE  GoodDraft(RebasedDraft(d, c))
<1> DEFINE new == RebasedDraft(d, c)
           moved == {k \in FieldIds : d.value[k] = d.base.value[k] /\ IsChanged(d, k)}
           theirs(a) == \/ ~IsChanged(d, a)
                        \/ d.base.value[a] = Absent /\ c.value[a] # Absent
           value == [a \in Attributes \union {New} |->
                       IF a = New THEN d.value[a]
                       ELSE IF theirs(a) THEN c.value[a] ELSE d.value[a]]
           over == [d EXCEPT !.base = c, !.value = value, !.order = Renumbered(d),
                             !.carried = d.carried \union moved]
           order == Renumbered(over)
<1>0. /\ c \in CardShapes /\ c.value \in [Attributes -> Values \union {Absent}]
      /\ d \in DraftShapes /\ d.value \in [Attributes \union {New} -> Values \union {Absent}]
  BY DEF GoodDraft, GoodCard, DraftShapes, CardShapes
<1>1. value \in [Attributes \union {New} -> Values \union {Absent}]
  BY <1>0
<1>2. order \in [DraftFields -> Nat] /\ Renumbered(d) \in [DraftFields -> Nat]
  BY RenumberedIsTyped
<1>3. new = [over EXCEPT !.order = order]
  BY DEF RebasedDraft
<1>4. moved \in SUBSET FieldIds
  OBVIOUS
<1>5. /\ new \in DraftShapes /\ new.base = c /\ new.value = value
      /\ new.touched = d.touched /\ new.carried = d.carried \union moved
  <2>1. over = [d EXCEPT !.base = c, !.value = value, !.order = Renumbered(d),
                         !.carried = d.carried \union moved]
    OBVIOUS
  <2> HIDE DEF new, value, over, order, moved
  <2> QED
    BY <1>0, <1>1, <1>2, <1>3, <1>4, <2>1 DEF DraftShapes
<1>6. ASSUME NEW a \in Attributes, value[a] # c.value[a] PROVE IsOwn(new, a)
  <2>1. a # New /\ (a \in FieldIds \/ a \in Columns)
    BY CardAssumption DEF Attributes, DraftFields
  <2>2. IsChanged(d, a) /\ value[a] = d.value[a]
    BY <1>6, <2>1
  <2>3. CASE d.value[a] # d.base.value[a]
    BY <1>5, <2>3 DEF GoodDraft, DraftIsOwn, IsOwn
  <2>4. CASE d.value[a] = d.base.value[a]
    <3>1. a \in moved
      BY <2>2, <2>4 DEF IsChanged
    <3> HIDE DEF moved
    <3> QED
      BY <1>5, <3>1 DEF IsOwn
  <2> QED
    BY <2>3, <2>4
<1>7. value[New] # Absent => IsOwn(new, New)
  <2>1. value[New] = d.value[New]
    OBVIOUS
  <2> QED
    BY <1>5, <2>1 DEF GoodDraft, DraftIsOwn, IsOwn
<1>8. ASSUME NEW a \in Columns PROVE value[a] # Absent
  <2>1. a \in Attributes /\ a # New
    BY CardAssumption DEF Attributes, DraftFields
  <2> QED
    BY <2>1 DEF GoodDraft, GoodCard, Full
<1> HIDE DEF new, value, over, order, moved, theirs
<1>9. Full(new) /\ Full(c)
  BY <1>5, <1>8 DEF Full, GoodCard
<1>10. GoodDraft(new)
  BY <1>5, <1>6, <1>7, <1>9 DEF GoodDraft, GoodCard, DraftIsOwn
<1> QED
  BY <1>10 DEF new

-----------------------------------------------------------------------------
(* The client's actions.                                                   *)
LEMMA ScreenFacts ==
  ASSUME CardInv, NEW e \in Editors
  PROVE  /\ screen[e] \in Screens /\ GoodScreen(screen[e]) /\ GoodCard(screen[e].shown)
         /\ screen[e].draft # Nothing =>
              GoodDraft(screen[e].draft) /\ screen[e].draft \in DraftShapes
         /\ screen[e].conflict # Nothing =>
              GoodCard(screen[e].conflict) /\ screen[e].conflict \in CardShapes
BY DEF CardInv, GoodScreen, GoodDraft, GoodCard

(* A screen with another good card, draft or conflict is good.             *)
LEMMA ScreenWithShown ==
  ASSUME CardInv, NEW x, GoodScreen(x), NEW c, GoodCard(c)
  PROVE  GoodScreen([x EXCEPT !.shown = c])
BY DEF GoodScreen, GoodCard, Screens

LEMMA ScreenWithDraft ==
  ASSUME CardInv, NEW x, GoodScreen(x), NEW d, d = Nothing \/ GoodDraft(d)
  PROVE  GoodScreen([x EXCEPT !.draft = d])
BY DEF GoodScreen, GoodDraft, Screens

LEMMA ScreenWithConflict ==
  ASSUME CardInv, NEW x, GoodScreen(x), NEW c, c = Nothing \/ GoodCard(c),
         NEW saving \in BOOLEAN
  PROVE  GoodScreen([x EXCEPT !.conflict = c, !.saving = saving])
BY DEF GoodScreen, GoodCard, Screens

LEMMA ScreenWithSaving ==
  ASSUME CardInv, NEW x, GoodScreen(x), NEW saving \in BOOLEAN
  PROVE  GoodScreen([x EXCEPT !.saving = saving])
BY DEF GoodScreen, Screens

(* A new draft, or one that is rebased or dropped, leaves no conflict.     *)
LEMMA ScreenWithoutConflict ==
  ASSUME CardInv, NEW x, GoodScreen(x), NEW d, d = Nothing \/ GoodDraft(d)
  PROVE  GoodScreen([x EXCEPT !.draft = d, !.conflict = Nothing])
BY DEF GoodScreen, GoodDraft, Screens

LEMMA FreshScreen ==
  ASSUME CardInv, NEW c, GoodCard(c)
  PROVE  GoodScreen([shown |-> c, draft |-> Nothing, conflict |-> Nothing, saving |-> FALSE])
BY DEF GoodScreen, GoodCard, Screens

LEMMA StartEditKeeps ==
  ASSUME CardInv, NEW e \in Editors, StartEdit(e)
  PROVE  CardInv'
<1> DEFINE before == screen[e].shown
           d == [base |-> before,
                 value |-> [a \in Attributes \union {New} |->
                              IF a = New THEN Absent ELSE before.value[a]],
                 order |-> [k \in DraftFields |-> IF k = New THEN 0 ELSE before.order[k]],
                 touched |-> {}, carried |-> {}]
<1>0. GoodCard(before) /\ before \in CardShapes
      /\ before.value \in [Attributes -> Values \union {Absent}]
      /\ before.order \in [FieldIds -> Nat]
  BY ScreenFacts DEF GoodCard, CardShapes
<1>1. GoodDraft(d)
  <2> HIDE DEF before
  <2>1. Full(d) /\ Full(d.base)
    BY <1>0, CardAssumption DEF GoodCard, Full, Attributes, DraftFields
  <2>2. d \in DraftShapes
    BY <1>0 DEF DraftShapes, DraftFields
  <2>3. DraftIsOwn(d)
    BY CardAssumption DEF DraftIsOwn, Attributes, DraftFields
  <2> QED
    BY <1>0, <2>1, <2>2, <2>3 DEF GoodDraft, GoodCard
<1>2. screen' = [screen EXCEPT ![e] = [screen[e] EXCEPT !.draft = d, !.conflict = Nothing]]
  BY DEF StartEdit, CardInv
<1>3. UNCHANGED <<card, fresh, save>>
  BY DEF StartEdit
<1> HIDE DEF d, before
<1>4. GoodScreen([screen[e] EXCEPT !.draft = d, !.conflict = Nothing])
  BY <1>1, ScreenFacts, ScreenWithoutConflict
<1> QED
  BY <1>2, <1>3, <1>4, ScreenMoves

LEMMA DraftChanges ==
  ASSUME CardInv, NEW e \in Editors, NEW d, GoodDraft(d),
         screen' = [screen EXCEPT ![e].draft = d], UNCHANGED <<card, fresh, save>>
  PROVE  CardInv'
<1>1. screen' = [screen EXCEPT ![e] = [screen[e] EXCEPT !.draft = d]]
  BY DEF CardInv
<1> QED
  BY <1>1, ScreenFacts, ScreenWithDraft, ScreenMoves

LEMMA SetEditKeeps ==
  ASSUME CardInv, NEW e \in Editors, NEW a \in Attributes \union {New}, NEW v \in Values,
         SetEdit(e, a, v)
  PROVE  CardInv'
<1> DEFINE d == screen[e].draft
           new == [d EXCEPT !.value[a] = v, !.touched = d.touched \union {a}]
<1>1. GoodDraft(d) /\ d.order \in [DraftFields -> Nat] /\ d \in DraftShapes
  BY ScreenFacts DEF SetEdit, DraftShapes
<1>2. GoodDraft(new)
  <2>1. new = [d EXCEPT !.value[a] = v, !.order = d.order, !.touched = d.touched \union {a}]
    <3> HIDE DEF d
    <3> QED
      BY <1>1 DEF DraftShapes
  <2> HIDE DEF d, new
  <2> QED
    BY <1>1, <2>1, EditedDraftIsGood
<1>3. screen' = [screen EXCEPT ![e].draft = new] /\ UNCHANGED <<card, fresh, save>>
  BY DEF SetEdit
<1> HIDE DEF new
<1> QED
  BY <1>2, <1>3, DraftChanges

LEMMA AddEditFieldKeeps ==
  ASSUME CardInv, NEW e \in Editors, NEW v \in Values, AddEditField(e, v)
  PROVE  CardInv'
<1> DEFINE d == screen[e].draft
           new == [d EXCEPT !.value[New] = v, !.order[New] = Cardinality(FieldsIn(d)),
                            !.touched = d.touched \union {New}]
           order == [d.order EXCEPT ![New] = Cardinality(FieldsIn(d))]
<1>1. GoodDraft(d) /\ d.order \in [DraftFields -> Nat] /\ d \in DraftShapes
  BY ScreenFacts DEF AddEditField, DraftShapes
<1>2. GoodDraft(new)
  <2>1. Cardinality(FieldsIn(d)) \in Nat
    BY FieldsAreCounted DEF FieldsIn
  <2>2. order \in [DraftFields -> Nat]
    BY <1>1, <2>1 DEF DraftFields
  <2>3. new = [d EXCEPT !.value[New] = v, !.order = order, !.touched = d.touched \union {New}]
    <3> HIDE DEF d
    <3> QED
      BY <1>1 DEF DraftShapes
  <2> HIDE DEF d, new, order
  <2> QED
    BY <1>1, <2>2, <2>3, EditedDraftIsGood
<1>3. screen' = [screen EXCEPT ![e].draft = new] /\ UNCHANGED <<card, fresh, save>>
  BY DEF AddEditField
<1> HIDE DEF new
<1> QED
  BY <1>2, <1>3, DraftChanges

LEMMA RemoveEditFieldKeeps ==
  ASSUME CardInv, NEW e \in Editors, NEW k \in DraftFields, RemoveEditField(e, k)
  PROVE  CardInv'
<1> DEFINE d == screen[e].draft
           new == [WithoutField(d, k) EXCEPT !.order = Renumbered(WithoutField(d, k))]
<1>1. GoodDraft(d)
  BY ScreenFacts DEF RemoveEditField
<1>2. GoodDraft(new)
  <2> HIDE DEF d
  <2> QED
    BY <1>1, ThinnedDraftIsGood
<1>3. screen' = [screen EXCEPT ![e].draft = new] /\ UNCHANGED <<card, fresh, save>>
  BY DEF RemoveEditField
<1> HIDE DEF new
<1> QED
  BY <1>2, <1>3, DraftChanges

LEMMA RebaseKeeps ==
  ASSUME CardInv, NEW e \in Editors, RebaseCustomerEdit(e)
  PROVE  CardInv'
<1> DEFINE d == RebasedDraft(screen[e].draft, screen[e].conflict)
<1>1. GoodDraft(d)
  BY ScreenFacts, RebasedDraftIsGood DEF RebaseCustomerEdit
<1>2. screen' = [screen EXCEPT ![e] = [screen[e] EXCEPT !.draft = d, !.conflict = Nothing]]
  BY DEF RebaseCustomerEdit, CardInv
<1>3. UNCHANGED <<card, fresh, save>>
  BY DEF RebaseCustomerEdit
<1> HIDE DEF d
<1> QED
  BY <1>1, <1>2, <1>3, ScreenFacts, ScreenWithoutConflict, ScreenMoves

LEMMA EditEnds ==
  ASSUME CardInv, NEW e \in Editors,
         screen' = [screen EXCEPT ![e].draft = Nothing, ![e].conflict = Nothing],
         UNCHANGED <<card, fresh, save>>
  PROVE  CardInv'
<1>1. screen' = [screen EXCEPT ![e] = [screen[e] EXCEPT !.draft = Nothing,
                                                        !.conflict = Nothing]]
  BY DEF CardInv
<1>2. GoodScreen([screen[e] EXCEPT !.draft = Nothing, !.conflict = Nothing])
  BY ScreenFacts, ScreenWithoutConflict
<1> QED
  BY <1>1, <1>2, ScreenMoves

LEMMA SaveCustomerKeeps ==
  ASSUME CardInv, NEW e \in Editors, NEW s \in Saves, SaveCustomer(e, s)
  PROVE  CardInv'
<1> DEFINE d == screen[e].draft
           x == [pc |-> "row", by |-> e, draft |-> d, card |-> Nothing, open |-> TRUE]
<1>0. GoodDraft(d) /\ d \in DraftShapes
  BY ScreenFacts DEF SaveCustomer
<1>1. CASE screen' = [screen EXCEPT ![e].draft = Nothing, ![e].conflict = Nothing]
           /\ UNCHANGED <<card, fresh, save>>
  BY <1>1, EditEnds
<1>2. CASE /\ screen' = [screen EXCEPT ![e].saving = TRUE]
           /\ save' = [save EXCEPT ![s] = x]
  <2>1. GoodSave(x)
    BY <1>0 DEF GoodSave, SaveStates
  <2>2. screen' = [screen EXCEPT ![e] = [screen[e] EXCEPT !.saving = TRUE]]
    BY <1>2 DEF CardInv
  <2>3. GoodScreen([screen[e] EXCEPT !.saving = TRUE])
    BY ScreenFacts, ScreenWithSaving
  <2>4. screen' \in [Editors -> Screens] /\ \A f \in Editors : GoodScreen(screen'[f])
    BY <2>2, <2>3 DEF CardInv, GoodScreen
  <2> HIDE DEF x
  <2> QED
    BY <1>2, <2>1, <2>4, SaveMoves DEF SaveCustomer
<1> QED
  BY <1>1, <1>2 DEF SaveCustomer

LEMMA ClientStepKeeps ==
  ASSUME CardInv, NEW e \in Editors,
         \/ CardLoadSucceeded(e)
         \/ CancelEdit(e) \/ SelectOther(e)
         \/ UseServerCustomer(e)
  PROVE  CardInv'
<1>1. CASE CardLoadSucceeded(e)
  <2>1. screen' = [screen EXCEPT ![e] = [screen[e] EXCEPT !.shown = card]]
    BY <1>1 DEF CardLoadSucceeded, CardInv
  <2> QED
    BY <1>1, <2>1, TheCardIsGood, ScreenFacts, ScreenWithShown, ScreenMoves
    DEF CardLoadSucceeded
<1>2. CASE CancelEdit(e)
  BY <1>2, EditEnds DEF CancelEdit
<1>3. CASE SelectOther(e)
  <2>1. screen' = [screen EXCEPT ![e] = [screen[e] EXCEPT !.draft = Nothing]]
    BY <1>3 DEF SelectOther, CardInv
  <2> QED
    BY <1>3, <2>1, ScreenFacts, ScreenWithDraft, ScreenMoves DEF SelectOther
<1>4. CASE UseServerCustomer(e)
  <2>1. GoodCard(screen[e].conflict)
    BY <1>4, ScreenFacts DEF UseServerCustomer
  <2> QED
    BY <1>4, <2>1, FreshScreen, ScreenMoves DEF UseServerCustomer
<1> QED
  BY <1>1, <1>2, <1>3, <1>4

-----------------------------------------------------------------------------
(* The server's actions.                                                   *)
LEMMA SaveFacts ==
  ASSUME CardInv, NEW s \in Saves
  PROVE  /\ save[s] \in SaveStates /\ GoodSave(save[s])
         /\ save[s].pc \in {"row", "fields", "batch"} =>
              GoodDraft(save[s].draft) /\ save[s].draft \in DraftShapes
         /\ save[s].pc \in {"fields", "wonFields", "lostFields", "saved", "conflict"} =>
              GoodCard(save[s].card) /\ save[s].card \in CardShapes
         /\ save[s].pc \notin {"none", "over"} \/ save[s].open => save[s].by \in Editors
         /\ save[s].draft # Nothing => GoodDraft(save[s].draft)
         /\ save[s].card # Nothing => GoodCard(save[s].card)
<1>1. NoSave.pc = "none" /\ Over.pc = "over" /\ ~NoSave.open /\ ~Over.open
  BY DEF NoSave, Over
<1>2. save[s] \in SaveStates /\ GoodSave(save[s])
  BY DEF CardInv
<1> QED
  BY <1>1, <1>2 DEF GoodSave, GoodDraft, GoodCard

(* A card read in two queries is known if its row was.                     *)
LEMMA ColumnwiseIsGood ==
  ASSUME CardInv, NEW row, GoodCard(row)
  PROVE  GoodCard(Columnwise(row, card))
<1> DEFINE both == Columnwise(row, card)
<1>1. /\ row \in CardShapes /\ card \in CardShapes
      /\ row.value \in [Attributes -> Values \union {Absent}]
      /\ card.value \in [Attributes -> Values \union {Absent}]
  BY DEF GoodCard, CardShapes, CardInv
<1>2. /\ both \in CardShapes /\ both.version = row.version
      /\ both.value = [a \in Attributes |-> IF a \in Columns THEN row.value[a]
                                           ELSE card.value[a]]
      /\ both.order = card.order
  BY <1>1 DEF Columnwise, CardShapes
<1>3. row.value = card.value => both.value = card.value
  BY <1>1, <1>2
<1> HIDE DEF both
<1>4. Full(both)
  BY <1>2 DEF GoodCard, Full, Attributes
<1>5. GoodCard(both)
  BY <1>2, <1>3, <1>4 DEF GoodCard, Known
<1> QED
  BY <1>5 DEF both

(* A request goes on with a known card, or without one.                    *)
LEMMA SaveGoesOn ==
  ASSUME CardInv, NEW s \in Saves, save[s].pc \notin {"none", "over"},
         NEW c, c = Nothing \/ GoodCard(c),
         NEW pc \in {"fields", "batch", "failed", "wonFields", "saved", "lostFields",
                     "conflict"},
         pc \in {"fields", "batch"} => GoodDraft(save[s].draft),
         pc \in {"batch", "failed"} \/ GoodCard(c),
         save' = [save EXCEPT ![s].pc = pc, ![s].card = c], UNCHANGED <<card, fresh, screen>>
  PROVE  CardInv'
<1> DEFINE x == [save[s] EXCEPT !.pc = pc, !.card = c]
<1>1. save' = [save EXCEPT ![s] = x]
  BY DEF CardInv
<1>2. GoodSave(x)
  <2>1. /\ x \in SaveStates /\ x.pc = pc /\ x.card = c /\ x.draft = save[s].draft
        /\ x.open = save[s].open /\ x.by = save[s].by
    BY SaveFacts DEF SaveStates, GoodCard
  <2> HIDE DEF x
  <2> QED
    BY <2>1, SaveFacts DEF GoodSave
<1>3. screen' \in [Editors -> Screens] /\ \A e \in Editors : GoodScreen(screen'[e])
  BY DEF CardInv
<1> HIDE DEF x
<1> QED
  BY <1>1, <1>2, <1>3, SaveMoves

LEMMA PatchReadsKeeps ==
  ASSUME CardInv, NEW s \in Saves, PatchReads(s)
  PROVE  CardInv'
<1> DEFINE current == Columnwise(save[s].card, card)
<1>0. UNCHANGED <<card, fresh, screen>>
  BY DEF PatchReads
<1>1. ASSUME NEW first, NEW second, <<first, second>> \in
               {<<"row", "fields">>, <<"wonRow", "wonFields">>, <<"lostRow", "lostFields">>},
             ReadRow(s, first, second)
      PROVE  CardInv'
  <2>1. second \in {"fields", "batch", "failed", "wonFields", "saved", "lostFields", "conflict"}
        /\ second \notin {"batch", "failed"}
        /\ (second \in {"fields", "batch"} => GoodDraft(save[s].draft))
        /\ save[s].pc \notin {"none", "over"}
        /\ save' = [save EXCEPT ![s].pc = second, ![s].card = card]
    BY <1>1, SaveFacts DEF ReadRow
  <2> QED
    BY <1>0, <2>1, TheCardIsGood, SaveGoesOn
<1>2. ASSUME save[s].pc = "fields", NEW next \in {"failed", "batch"},
             save' = [save EXCEPT ![s].pc = next, ![s].card = Nothing]
      PROVE  CardInv'
  <2>1. GoodDraft(save[s].draft)
    BY <1>2, SaveFacts
  <2> QED
    BY <1>0, <1>2, <2>1, SaveGoesOn
<1>3. ASSUME save[s].pc \in {"wonFields", "lostFields"}, NEW next \in {"saved", "conflict"},
             save' = [save EXCEPT ![s].pc = next, ![s].card = current]
      PROVE  CardInv'
  <2>1. GoodCard(current)
    BY <1>3, SaveFacts, ColumnwiseIsGood
  <2> HIDE DEF current
  <2> QED
    BY <1>0, <1>3, <2>1, SaveGoesOn
<1> HIDE DEF current
<1>4. CASE \/ ReadRow(s, "row", "fields") \/ ReadRow(s, "wonRow", "wonFields")
           \/ ReadRow(s, "lostRow", "lostFields")
  BY <1>1, <1>4
<1>5. CASE /\ save[s].pc = "fields"
           /\ save' = [save EXCEPT
                ![s].pc = IF InvalidFieldTarget(current, save[s].draft) THEN "failed" ELSE "batch",
                ![s].card = Nothing]
  <2>1. CASE InvalidFieldTarget(current, save[s].draft)
    BY <1>2, <1>5, <2>1
  <2>2. CASE ~InvalidFieldTarget(current, save[s].draft)
    BY <1>2, <1>5, <2>2
  <2> QED
    BY <2>1, <2>2
<1>6. CASE /\ save[s].pc \in {"wonFields", "lostFields"}
           /\ save' = [save EXCEPT
                ![s].pc = IF save[s].pc = "wonFields" THEN "saved" ELSE "conflict",
                ![s].card = current]
  BY <1>3, <1>6
<1> QED
  BY <1>4, <1>5, <1>6 DEF PatchReads, current

LEMMA BatchEndsWell ==
  ASSUME CardInv, NEW s \in Saves, save[s].pc = "batch",
         NEW pc \in {"lostRow", "wonRow", "failed"}, BatchEnds(s, pc)
  PROVE  /\ save' \in [Saves -> SaveStates]
         /\ save'[s].pc = pc /\ save'[s].by \in Editors
         /\ save'[s].draft = Nothing /\ save'[s].card = Nothing
         /\ save' = [save EXCEPT ![s] = save'[s]]
         /\ GoodSave(save'[s])
         /\ \A t \in Saves : t # s => save'[t] = save[t]
<1> DEFINE x == [save[s] EXCEPT !.pc = pc, !.draft = Nothing, !.card = Nothing]
<1>1. save' = [save EXCEPT ![s] = x] /\ save'[s] = x
  BY DEF CardInv, BatchEnds
<1>2. /\ x \in SaveStates /\ x.pc = pc /\ x.by \in Editors
      /\ x.draft = Nothing /\ x.card = Nothing
  BY SaveFacts DEF SaveStates
<1> HIDE DEF x
<1>3. GoodSave(x)
  BY <1>2 DEF GoodSave
<1> QED
  BY <1>1, <1>2, <1>3 DEF CardInv

(* What the batch writes into attribute a comes from the draft, or stays.  *)
LEMMA EditedSays ==
  ASSUME CardInv, NEW d, GoodDraft(d), NEW id \in NewIds(d)
  PROVE  /\ Edited(d, id).version = card.version + 1
         /\ Edited(d, id).value \in [Attributes -> Values \union {Absent}]
         /\ Edited(d, id).order \in [FieldIds -> Nat]
         /\ DOMAIN Edited(d, id) = {"version", "value", "order"}
         /\ \A a \in Attributes :
              \/ Edited(d, id).value[a] = card.value[a]
              \/ a \in Changed(d) /\ Edited(d, id).value[a] = d.value[a]
              \/ \E k \in Created(d) : id[k] = a /\ Edited(d, id).value[a] = d.value[k]
<1> DEFINE source(a) == IF \E k \in Created(d) : id[k] = a
                        THEN CHOOSE k \in Created(d) : id[k] = a ELSE a
           written(a) == a \in Changed(d) \/ \E k \in Created(d) : id[k] = a
           value == [a \in Attributes |-> IF written(a) THEN d.value[source(a)]
                                         ELSE card.value[a]]
           order == [k \in FieldIds |-> IF written(k) THEN d.order[source(k)] ELSE card.order[k]]
<1>1. Edited(d, id) = [version |-> card.version + 1, value |-> value, order |-> order]
  BY DEF Edited
<1>2. /\ card.value \in [Attributes -> Values \union {Absent}]
      /\ card.order \in [FieldIds -> Nat]
      /\ d.value \in [Attributes \union {New} -> Values \union {Absent}]
      /\ d.order \in [DraftFields -> Nat]
  BY DEF CardInv, CardShapes, GoodDraft, DraftShapes
<1>3. Created(d) \subseteq DraftFields /\ DraftFields \subseteq Attributes \union {New}
  BY DEF Created, FieldsIn, DraftFields, Attributes
<1>4. ASSUME NEW a
      PROVE  \/ source(a) \in Created(d) /\ id[source(a)] = a
             \/ source(a) = a /\ ~\E k \in Created(d) : id[k] = a
  OBVIOUS
<1>5. ASSUME NEW a \in Attributes PROVE source(a) \in Attributes \union {New}
  BY <1>3, <1>4
<1>6. ASSUME NEW k \in FieldIds PROVE source(k) \in DraftFields
  <2>1. k \in DraftFields
    BY DEF DraftFields
  <2> QED
    BY <1>3, <1>4, <2>1
<1>7. ASSUME NEW a \in Attributes
      PROVE  \/ value[a] = card.value[a]
             \/ a \in Changed(d) /\ value[a] = d.value[a]
             \/ \E k \in Created(d) : id[k] = a /\ value[a] = d.value[k]
  <2>1. value[a] = IF written(a) THEN d.value[source(a)] ELSE card.value[a]
    OBVIOUS
  <2>2. written(a) => a \in Changed(d) \/ \E k \in Created(d) : id[k] = a
    OBVIOUS
  <2> HIDE DEF value, source, written
  <2> QED
    BY <1>4, <2>1, <2>2
<1>8. value \in [Attributes -> Values \union {Absent}]
  <2> HIDE DEF source, written
  <2> QED
    BY <1>2, <1>5
<1>9. order \in [FieldIds -> Nat]
  <2> HIDE DEF source, written
  <2> QED
    BY <1>2, <1>6
<1> HIDE DEF value, order
<1> QED
  BY <1>1, <1>7, <1>8, <1>9

LEMMA PatchBatchKeeps ==
  ASSUME CardInv, NEW s \in Saves, PatchBatch(s)
  PROVE  CardInv'
<1> DEFINE d == save[s].draft
<1>0. GoodDraft(d) /\ d \in DraftShapes /\ save[s].pc = "batch"
  BY SaveFacts DEF PatchBatch
<1>1. ASSUME NEW pc \in {"lostRow", "failed"}, BatchEnds(s, pc), UNCHANGED <<card, fresh>>
      PROVE  CardInv'
  <2>1. UNCHANGED screen
    BY DEF PatchBatch
  <2> QED
    BY <1>0, <1>1, <2>1, BatchEndsWell, SaveMoves DEF CardInv
<1>2. ASSUME card.version = d.base.version, card.version < MaxVersion, NEW id \in NewIds(d),
             card' = Edited(d, id), fresh' = fresh \ {id[k] : k \in Created(d)},
             BatchEnds(s, "wonRow")
      PROVE  CardInv'
  <2> HIDE DEF d
  <2>0. d.base.value = card.value
    BY <1>0, <1>2 DEF GoodDraft, Known
  <2>1. card' \in CardShapes /\ card'.version = card.version + 1
    <3>1. card' = [version |-> card'.version, value |-> card'.value, order |-> card'.order]
      BY <1>2 DEF Edited
    <3> QED
      BY <1>0, <1>2, <3>1, EditedSays, CardAssumption DEF CardInv, CardShapes
  <2>2. \A t \in Saves : \/ save'[t] = save[t]
                         \/ /\ save'[t].pc = "wonRow" /\ save'[t].by \in Editors
                            /\ save'[t].draft = Nothing /\ save'[t].card = Nothing
    BY <1>0, <1>2, BatchEndsWell
  <2>3. UNCHANGED screen
    BY DEF PatchBatch
  <2>4. \A k \in Created(d) : id[k] \in fresh
    BY DEF NewIds
  <2>5. Full(card')
    <3>1. ASSUME NEW a \in Columns PROVE card'.value[a] # Absent
      <4>1. a \in Attributes /\ a \notin fresh
        BY CardAssumption DEF Attributes, DraftFields, CardInv, FreshIdsAreUnused
      <4>2. card'.value[a] \in {card.value[a], d.value[a]}
        BY <1>0, <1>2, <2>4, <4>1, EditedSays
      <4> QED
        BY <1>0, <4>2 DEF CardInv, GoodDraft, Full
    <3> QED
      BY <3>1 DEF Full
  <2>6. FreshIdsAreUnused'
    <3>1. ASSUME NEW j \in fresh' PROVE j \in FieldIds /\ card'.value[j] = Absent
      <4>1. j \in fresh /\ j \in FieldIds /\ card.value[j] = Absent
        BY <1>2 DEF CardInv, FreshIdsAreUnused
      <4>2. j \in Attributes /\ ~\E k \in Created(d) : id[k] = j
        BY <1>2, <4>1 DEF Attributes
      <4>3. CASE card'.value[j] = card.value[j]
        BY <4>1, <4>3
      <4>4. CASE j \in Changed(d) /\ card'.value[j] = d.value[j]
        BY <2>0, <4>1, <4>4 DEF Changed, Created, FieldsIn, IsNew, DraftFields
      <4> QED
        BY <1>0, <1>2, <4>1, <4>2, <4>3, <4>4, EditedSays
    <3> QED
      BY <3>1 DEF FreshIdsAreUnused
  <2> QED
    BY <1>0, <1>2, <2>1, <2>2, <2>3, <2>5, <2>6, BatchEndsWell, RowWritten
<1> QED
  BY <1>1, <1>2 DEF PatchBatch

LEMMA OverIsGood == ASSUME CardInv PROVE GoodSave(Over)
<1>1. /\ Over \in SaveStates /\ Over.pc = "over" /\ ~Over.open
      /\ Over.draft = Nothing /\ Over.card = Nothing
  BY DEF Over, NoSave, SaveStates
<1>2. PICK x : x = Over
  OBVIOUS
<1>3. GoodSave(x)
  BY <1>1, <1>2 DEF GoodSave
<1> QED
  BY <1>2, <1>3

LEMMA PatchEndsKeep ==
  ASSUME CardInv, NEW s \in Saves, PatchAnswered(s) \/ ConnectionLost(s) \/ PatchDies(s)
  PROVE  CardInv'
<1> DEFINE e == save[s].by
<1>1. CASE PatchAnswered(s)
  <2>0. e \in Editors
    BY <1>1, SaveFacts DEF PatchAnswered
  <2>1. PICK x : GoodScreen(x) /\ (screen' = [screen EXCEPT ![e] = x] \/ UNCHANGED screen)
    <3>1. CASE save[s].pc = "saved"
      <4>1. GoodCard(save[s].card)
        BY <3>1, SaveFacts
      <4> QED
        BY <1>1, <3>1, <4>1, FreshScreen DEF PatchAnswered
    <3>2. CASE save[s].pc = "conflict" /\ screen[e].draft # Nothing
      <4>1. screen' = [screen EXCEPT ![e] = [screen[e] EXCEPT !.conflict = save[s].card,
                                                              !.saving = FALSE]]
        BY <1>1, <3>2 DEF PatchAnswered, CardInv
      <4>2. GoodScreen([screen[e] EXCEPT !.conflict = save[s].card, !.saving = FALSE])
        BY <2>0, <3>2, SaveFacts, ScreenFacts, ScreenWithConflict
      <4> QED
        BY <4>1, <4>2
    <3>3. CASE save[s].pc = "failed"
      <4>1. screen' = [screen EXCEPT ![e] = [screen[e] EXCEPT !.saving = FALSE]]
        BY <1>1, <3>3 DEF PatchAnswered, CardInv
      <4>2. GoodScreen([screen[e] EXCEPT !.saving = FALSE])
        BY <2>0, ScreenFacts, ScreenWithSaving
      <4> QED
        BY <4>1, <4>2
    <3>4. CASE ~(\/ save[s].pc \in {"saved", "failed"}
                 \/ save[s].pc = "conflict" /\ screen[e].draft # Nothing)
      <4>1. UNCHANGED screen
        BY <1>1, <3>4 DEF PatchAnswered
      <4> QED
        BY <2>0, <4>1, ScreenFacts
    <3> QED
      BY <3>1, <3>2, <3>3, <3>4
  <2>2. screen' \in [Editors -> Screens] /\ \A f \in Editors : GoodScreen(screen'[f])
    BY <2>0, <2>1 DEF CardInv, GoodScreen
  <2> QED
    BY <1>1, <2>2, OverIsGood, SaveMoves DEF PatchAnswered
<1>2. CASE ConnectionLost(s)
  <2>0. e \in Editors
    BY <1>2, SaveFacts DEF ConnectionLost
  <2> DEFINE x == [save[s] EXCEPT !.open = FALSE]
  <2>1. save' = [save EXCEPT ![s] = x] /\ GoodSave(x)
    <3>1. save' = [save EXCEPT ![s] = x]
      BY <1>2 DEF ConnectionLost, CardInv
    <3>2. /\ x \in SaveStates /\ x.pc = save[s].pc /\ x.by = e /\ ~x.open
          /\ x.draft = save[s].draft /\ x.card = save[s].card
      BY SaveFacts DEF SaveStates
    <3>3. save[s] \notin {NoSave, Over}
      BY <1>2 DEF ConnectionLost, NoSave, Over
    <3> HIDE DEF x
    <3>4. GoodSave(x)
      BY <2>0, <3>2, <3>3, SaveFacts DEF GoodSave
    <3> QED
      BY <3>1, <3>4
  <2>2. screen' = [screen EXCEPT ![e] = [screen[e] EXCEPT !.saving = FALSE]]
    BY <1>2 DEF ConnectionLost, CardInv
  <2>3. GoodScreen([screen[e] EXCEPT !.saving = FALSE])
    BY <2>0, ScreenFacts, ScreenWithSaving
  <2>4. screen' \in [Editors -> Screens] /\ \A f \in Editors : GoodScreen(screen'[f])
    BY <2>0, <2>2, <2>3 DEF CardInv, GoodScreen
  <2> HIDE DEF x
  <2> QED
    BY <1>2, <2>1, <2>4, SaveMoves DEF ConnectionLost
<1>3. CASE PatchDies(s)
  BY <1>3, OverIsGood, SaveMoves DEF PatchDies, CardInv
<1> QED
  BY <1>1, <1>2, <1>3

LEMMA OtherMemberSavesKeeps ==
  ASSUME CardInv, NEW a \in Attributes, NEW v \in Values \union {Absent}, OtherMemberSaves(a, v)
  PROVE  CardInv'
<1> DEFINE fields == FieldsOf(card)
           places == Places(card, fields \ {a})
           added == [card.order EXCEPT ![a] = Cardinality(fields)]
<1>0. /\ card.order \in [FieldIds -> Nat]
      /\ card.value \in [Attributes -> Values \union {Absent}] /\ card.version \in 1 .. MaxVersion
  BY DEF CardInv, CardShapes
<1>1. fields \in SUBSET DraftFields
  BY DEF FieldsOf, DraftFields
<1>2. places \in [FieldIds -> Nat]
  <2> HIDE DEF fields
  <2>1. ASSUME NEW k \in FieldIds
        PROVE  Cardinality({j \in fields \ {a} : ListedBefore(card, j, k)}) \in Nat
    BY <1>1, FieldsAreCounted
  <2> QED
    BY <2>1 DEF Places
<1>3. added \in [FieldIds -> Nat]
  <2> HIDE DEF fields
  <2> QED
    BY <1>0, <1>1, FieldsAreCounted
<1>4. /\ card'.version = card.version + 1 /\ card'.value = [card.value EXCEPT ![a] = v]
      /\ card'.order \in {places, added, card.order}
      /\ card' = [version |-> card'.version, value |-> card'.value, order |-> card'.order]
  <2> HIDE DEF places, added
  <2>1. card' = [version |-> card.version + 1, value |-> [card.value EXCEPT ![a] = v],
                 order |-> IF v = Absent THEN places
                           ELSE IF card.value[a] = Absent THEN added ELSE card.order]
    BY DEF OtherMemberSaves, places, added
  <2> QED
    BY <2>1
<1> HIDE DEF fields, places, added
<1>5. card' \in CardShapes
  <2>1. card'.version \in 1 .. MaxVersion
    BY <1>0, <1>4, CardAssumption DEF OtherMemberSaves
  <2>2. card'.value \in [Attributes -> Values \union {Absent}]
    BY <1>0, <1>4
  <2>3. card'.order \in [FieldIds -> Nat]
    BY <1>0, <1>2, <1>3, <1>4
  <2> QED
    BY <1>4, <2>1, <2>2, <2>3 DEF CardShapes
<1>6. Full(card')
  BY <1>0, <1>4, CardAssumption DEF OtherMemberSaves, CardInv, Full, Attributes, DraftFields
<1>7. FreshIdsAreUnused'
  BY <1>0, <1>4 DEF OtherMemberSaves, CardInv, FreshIdsAreUnused, Attributes
<1> QED
  BY <1>4, <1>5, <1>6, <1>7, RowWritten DEF OtherMemberSaves, CardInv

(* The invariant says of the types what CardTypeOK says.                   *)
LEMMA CardInvSays == CardInv => CardTypeOK
<1> SUFFICES ASSUME CardInv PROVE CardTypeOK
  OBVIOUS
<1>1. \A c : GoodCard(c) => c \in Cards
  BY DEF GoodCard, CardShapes, Full, Cards
<1>2. ASSUME NEW d, GoodDraft(d) PROVE d \in Drafts
  <2>1. d \in DraftShapes /\ d.base \in Cards
    BY <1>2 DEF GoodDraft, DraftShapes, CardShapes, Full, Cards
  <2> QED
    BY <2>1 DEF DraftShapes, Drafts
<1>3. card \in Cards
  BY <1>1, TheCardIsGood
<1>4. ASSUME NEW e \in Editors
      PROVE  /\ screen[e].shown \in Cards
             /\ screen[e].draft = Nothing \/ screen[e].draft \in Drafts
             /\ screen[e].conflict = Nothing \/ screen[e].conflict \in Cards
             /\ screen[e].saving \in BOOLEAN
  <2>1. screen[e].saving \in BOOLEAN
    BY ScreenFacts DEF Screens
  <2> QED
    BY <1>1, <1>2, <2>1, ScreenFacts
<1>5. ASSUME NEW s \in Saves, save[s] \notin {NoSave, Over}
      PROVE  /\ save[s].pc \in {"row", "fields", "batch", "wonRow", "wonFields", "lostRow",
                                "lostFields", "saved", "conflict", "failed"}
             /\ save[s].by \in Editors
             /\ save[s].draft = Nothing \/ save[s].draft \in Drafts
             /\ save[s].card = Nothing \/ save[s].card \in Cards
  <2>1. save[s].pc \notin {"none", "over"} /\ save[s].by \in Editors
    BY <1>5 DEF CardInv, GoodSave
  <2>2. save[s] \in SaveStates
    BY SaveFacts
  <2>3. save[s].pc \in {"row", "fields", "batch", "wonRow", "wonFields", "lostRow",
                        "lostFields", "saved", "conflict", "failed"}
    BY <2>1, <2>2 DEF SaveStates
  <2> QED
    BY <1>1, <1>2, <2>1, <2>3, SaveFacts
<1> QED
  BY <1>3, <1>4, <1>5 DEF CardTypeOK, CardInv, FreshIdsAreUnused

LEMMA StepCardInv == CardInv /\ [CardNext]_cardVars => CardInv'
<1> SUFFICES ASSUME CardInv, [CardNext]_cardVars PROVE CardInv'
  OBVIOUS
<1>1. CASE UNCHANGED cardVars
  BY <1>1, RowStays DEF cardVars, CardInv
<1> QED
  BY <1>1, ClientStepKeeps, StartEditKeeps, SetEditKeeps, AddEditFieldKeeps,
     RemoveEditFieldKeeps, RebaseKeeps, SaveCustomerKeeps, PatchReadsKeeps, PatchBatchKeeps,
     PatchEndsKeep, OtherMemberSavesKeeps, CardAssumption
  DEF CardNext

-----------------------------------------------------------------------------
(* CardInv holds in every reachable state (customerCardModel.ts and        *)
(* patchCustomer).                                                         *)
THEOREM CardInvariant == CardSpec => []CardInv
<1> QED
  BY InitCardInv, StepCardInv, PTL DEF CardSpec

(* A save overwrites what its author started from, or was left with by a   *)
(* conflict, and typed into or carried over; what it adds is its draft's.  *)
THEOREM SavesChangeWhatWasSeen == CardSpec => NothingIsOverwrittenUnseen
<1> DEFINE Own(s) == save[s].draft.touched \union save[s].draft.carried
           Seen(a) ==
             card'.value[a] # card.value[a] /\ save' # save =>
               \E s \in Saves :
                 /\ save[s].pc = "batch" /\ save'[s].pc # "batch"
                 /\ IF card.value[a] # Absent
                    THEN a \in Own(s) /\ save[s].draft.base.value[a] = card.value[a]
                    ELSE \E k \in Created(save[s].draft) \intersect Own(s) :
                           card'.value[a] = save[s].draft.value[k]
<1>1. ASSUME CardInv, [CardNext]_cardVars, NEW a \in Attributes PROVE Seen(a)
  <2>1. ASSUME NEW s \in Saves, PatchBatch(s) PROVE Seen(a)
    <3> DEFINE d == save[s].draft
    <3>0. GoodDraft(d) /\ save[s].pc = "batch"
      BY <1>1, <2>1, SaveFacts DEF PatchBatch
    <3>1. CASE UNCHANGED card
      BY <3>1
    <3>2. ASSUME card.version = d.base.version, NEW id \in NewIds(d), card' = Edited(d, id),
                 BatchEnds(s, "wonRow"), card'.value[a] # card.value[a]
          PROVE  Seen(a)
      <4> HIDE DEF d
      <4>1. d.base.value = card.value
        BY <3>0, <3>2 DEF GoodDraft, Known
      <4>2. save'[s].pc = "wonRow"
        BY <1>1, <3>0, <3>2, BatchEndsWell
      <4>3. ASSUME NEW k \in Created(d) PROVE IsOwn(d, k)
        BY <3>0 DEF Created, FieldsIn, IsNew, GoodDraft, DraftIsOwn, DraftFields, Attributes
      <4>4. CASE \E k \in Created(d) : id[k] = a /\ card'.value[a] = d.value[k]
        <5>1. card.value[a] = Absent
          BY <1>1, <4>4 DEF NewIds, CardInv, FreshIdsAreUnused
        <5> QED
          BY <3>0, <4>2, <4>3, <4>4, <5>1 DEF IsOwn, d
      <4>5. CASE a \in Changed(d) /\ card'.value[a] = d.value[a]
        <5>1. card.value[a] # Absent
          <6>1. CASE a \in Columns
            BY <1>1, <6>1 DEF CardInv, Full
          <6>2. CASE a \in FieldIds
            BY <3>2, <4>1, <4>5, <6>2 DEF Changed, Created, FieldsIn, IsNew, DraftFields
          <6> QED
            BY <6>1, <6>2 DEF Attributes
        <5>2. IsOwn(d, a)
          BY <3>0, <3>2, <4>1, <4>5 DEF GoodDraft, DraftIsOwn
        <5> QED
          BY <3>0, <4>1, <4>2, <5>1, <5>2 DEF IsOwn, d
      <4> QED
        BY <1>1, <3>0, <3>2, <4>4, <4>5, EditedSays
    <3> QED
      BY <2>1, <3>1, <3>2 DEF PatchBatch
  <2>2. ASSUME UNCHANGED card \/ UNCHANGED save PROVE Seen(a)
    BY <2>2
  <2>3. (\E s \in Saves : PatchBatch(s)) \/ UNCHANGED card \/ UNCHANGED save
    <3>1. ASSUME NEW e \in Editors,
                 \/ CardLoadSucceeded(e) \/ StartEdit(e) \/ CancelEdit(e) \/ SelectOther(e)
                 \/ UseServerCustomer(e) \/ RebaseCustomerEdit(e)
          PROVE  UNCHANGED card
      BY <3>1 DEF CardLoadSucceeded, StartEdit, CancelEdit, SelectOther, UseServerCustomer,
                  RebaseCustomerEdit
    <3>2. ASSUME NEW e \in Editors,
                 \/ \E v \in Values : \/ AddEditField(e, v)
                                      \/ \E b \in Attributes \union {New} : SetEdit(e, b, v)
                 \/ \E k \in DraftFields : RemoveEditField(e, k)
                 \/ \E s \in Saves : SaveCustomer(e, s)
          PROVE  UNCHANGED card
      BY <3>2 DEF SetEdit, AddEditField, RemoveEditField, SaveCustomer
    <3>3. ASSUME NEW s \in Saves,
                 PatchReads(s) \/ PatchAnswered(s) \/ ConnectionLost(s) \/ PatchDies(s)
          PROVE  UNCHANGED card
      BY <3>3 DEF PatchReads, PatchAnswered, ConnectionLost, PatchDies
    <3>4. ASSUME NEW change \in OtherSaves, OtherMemberSaves(change[1], change[2])
          PROVE  UNCHANGED save
      BY <3>4 DEF OtherMemberSaves
    <3>5. CASE UNCHANGED cardVars
      BY <3>5 DEF cardVars
    <3>6. CASE CardNext
      BY <3>1, <3>2, <3>3, <3>4, <3>6 DEF CardNext
    <3> QED
      BY <1>1, <3>5, <3>6
  <2> HIDE DEF Seen
  <2> QED
    BY <2>1, <2>2, <2>3
<1>2. CardInv /\ [CardNext]_cardVars => [\A a \in Attributes : Seen(a)]_card
  BY <1>1
<1> QED
  BY <1>2, CardInvariant, PTL DEF CardSpec, NothingIsOverwrittenUnseen

-----------------------------------------------------------------------------
(***************************************************************************)
(* ConversationWrite.  What the client knows of the row is old or true: a  *)
(* version that is the row's comes with the state that is the row's.       *)
(***************************************************************************)
KnownHeader(h) ==
  /\ h.version <= serverRow.version
  /\ h.version = serverRow.version => h.seen = serverRow.state

KnownRow(row) ==
  /\ row.version <= serverRow.version
  /\ row.version = serverRow.version => row.state = serverRow.state

FirstRow == [version |-> 1, state |-> FirstState]

WriteInv ==
  /\ WriteTypeOK
  /\ KnownHeader(header)
  /\ KnownRow(FirstRow)
  /\ \A w \in Writes : KnownHeader(write[w].previous) /\ KnownRow(write[w].answer)

-----------------------------------------------------------------------------
LEMMA InitWriteInv == WriteInit => WriteInv
<1> SUFFICES ASSUME WriteInit PROVE WriteInv
  OBVIOUS
<1> USE WriteAssumption DEF WriteInit, FromServer
<1>0. FirstRow \in Projections
  BY DEF Projections, FirstRow
<1>a. /\ FromServer(FirstRow) \in ShownHeaders
      /\ FromServer(FirstRow).version = 1 /\ FromServer(FirstRow).seen = FirstState
  BY DEF ShownHeaders, FirstRow
<1>b. NotWritten = [pc |-> "none", state |-> FirstState, previous |-> FromServer(FirstRow),
                    open |-> FALSE, answer |-> FirstRow]
  BY DEF NotWritten, FirstRow
<1>c. /\ NotWritten \in WriteRecords
      /\ NotWritten.previous = FromServer(FirstRow) /\ NotWritten.answer = FirstRow
  <2> HIDE DEF FromServer
  <2> QED
    BY <1>0, <1>a, <1>b DEF WriteRecords
<1>1. WriteTypeOK
  <2> HIDE DEF FromServer
  <2>1. serverRow = FirstRow /\ header = FromServer(FirstRow)
    BY DEF FirstRow
  <2> QED
    BY <1>0, <1>a, <1>c, <2>1 DEF WriteTypeOK
<1>2. KnownHeader(header) /\ KnownRow(FirstRow)
  BY DEF KnownHeader, KnownRow, FirstRow
<1>3. \A w \in Writes : KnownHeader(write[w].previous) /\ KnownRow(write[w].answer)
  <2>1. \A w \in Writes : write[w] = NotWritten
    OBVIOUS
  <2>2. serverRow = FirstRow
    BY DEF FirstRow
  <2>3. KnownHeader(FromServer(FirstRow)) /\ KnownRow(FirstRow)
    BY <1>a, <2>2 DEF KnownHeader, KnownRow, FirstRow
  <2> HIDE DEF FromServer, WriteInit
  <2> QED
    BY <1>c, <2>1, <2>3
<1> QED
  BY <1>1, <1>2, <1>3 DEF WriteInv

(* The records that hold what is known are of their types.                 *)
LEMMA KnownTypes ==
  ASSUME WriteInv
  PROVE  /\ serverRow \in Projections /\ serverRow.version \in Nat
         /\ header \in ShownHeaders /\ FirstRow \in Projections
         /\ \A w \in Writes : /\ write[w] \in WriteRecords
                              /\ write[w].previous \in ShownHeaders
                              /\ write[w].answer \in Projections
         /\ \A h \in ShownHeaders : h.version \in Nat
         /\ \A row \in Projections : row.version \in Nat
BY WriteAssumption DEF WriteInv, WriteTypeOK, WriteRecords, Projections, ShownHeaders,
   FirstRow

(* Whoever writes the row, what was known of it stays known.               *)
LEMMA HeaderRowWritten ==
  ASSUME WriteInv, serverRow' \in Projections,
         serverRow'.version = serverRow.version + 1
  PROVE  /\ \A h \in ShownHeaders :
              KnownHeader(h) => /\ h.version <= serverRow'.version
                                /\ h.version = serverRow'.version => h.seen = serverRow'.state
         /\ \A row \in Projections :
              KnownRow(row) => /\ row.version <= serverRow'.version
                               /\ row.version = serverRow'.version
                                  => row.state = serverRow'.state
BY KnownTypes DEF KnownHeader, KnownRow

(* A write of the row that changes of the client at most where a request   *)
(* stands.                                                                 *)
LEMMA RowStep ==
  ASSUME WriteInv, WriteTypeOK', serverRow' \in Projections,
         serverRow'.version = serverRow.version + 1, UNCHANGED header,
         \A w \in Writes : /\ write'[w].previous = write[w].previous
                           /\ write'[w].answer = write[w].answer
  PROVE  WriteInv'
<1>1. KnownHeader(header)' /\ KnownRow(FirstRow)'
  BY KnownTypes, HeaderRowWritten DEF WriteInv, KnownHeader, KnownRow, FirstRow
<1>2. ASSUME NEW w \in Writes PROVE KnownHeader(write[w].previous)' /\ KnownRow(write[w].answer)'
  <2>1. KnownHeader(write[w].previous) /\ KnownRow(write[w].answer)
    BY DEF WriteInv
  <2> QED
    BY <2>1, KnownTypes, HeaderRowWritten DEF KnownHeader, KnownRow
<1> QED
  BY <1>1, <1>2 DEF WriteInv

(* A step of the client: it shows something known, and so do the requests. *)
LEMMA ClientStep ==
  ASSUME WriteInv, WriteTypeOK', UNCHANGED serverRow, KnownHeader(header'),
         \A w \in Writes : KnownHeader(write'[w].previous) /\ KnownRow(write'[w].answer)
  PROVE  WriteInv'
BY DEF WriteInv, KnownHeader, KnownRow, FirstRow

LEMMA ServerIsKnown ==
  ASSUME WriteInv
  PROVE  KnownRow(serverRow) /\ KnownHeader(FromServer(serverRow))
BY KnownTypes DEF KnownRow, KnownHeader, FromServer

LEMMA StepWriteInv == WriteInv /\ [WriteNext]_writeVars => WriteInv'
<1> SUFFICES ASSUME WriteInv, [WriteNext]_writeVars PROVE WriteInv'
  OBVIOUS
<1> USE WriteAssumption
<1>t. WriteTypeOK
  BY DEF WriteInv
<1>1. ASSUME NEW w \in Writes, NEW state \in Shown, Mutate(w, state) PROVE WriteInv'
  <2>1. WriteTypeOK'
    <3>1. [write[w] EXCEPT !.pc = "sent", !.state = state, !.previous = header,
                           !.open = TRUE] \in WriteRecords
      BY <1>t DEF WriteTypeOK, WriteRecords
    <3>2. header' \in ShownHeaders
      BY <1>1, <1>t DEF Mutate, WriteTypeOK, ShownHeaders
    <3> QED
      BY <1>1, <1>t, <3>1, <3>2 DEF Mutate, WriteTypeOK
  <2>2. KnownHeader(header')
    BY <1>1, <1>t DEF Mutate, WriteInv, WriteTypeOK, KnownHeader, ShownHeaders
  <2>3. ASSUME NEW v \in Writes
        PROVE  KnownHeader(write'[v].previous) /\ KnownRow(write'[v].answer)
    <3>1. CASE v = w
      <4>1. write'[w].previous = header /\ write'[w].answer = write[w].answer
        BY <1>1, <1>t DEF Mutate, WriteTypeOK, WriteRecords
      <4> QED
        BY <3>1, <4>1 DEF WriteInv
    <3>2. CASE v # w
      <4>1. write'[v] = write[v]
        BY <1>1, <3>2, <1>t DEF Mutate, WriteTypeOK
      <4> QED
        BY <4>1 DEF WriteInv
    <3> QED
      BY <3>1, <3>2
  <2> QED
    BY <1>1, <2>1, <2>2, <2>3, ClientStep DEF Mutate
<1>2. ASSUME NEW w \in Writes, PatchArrives(w) PROVE WriteInv'
  <2>1. WriteTypeOK'
    BY <1>2, <1>t DEF PatchArrives, WriteTypeOK, WriteRecords, Projections
  <2>2. \A v \in Writes : /\ write'[v].previous = write[v].previous
                          /\ write'[v].answer = write[v].answer
    BY <1>2, <1>t DEF PatchArrives, WriteTypeOK, WriteRecords
  <2>3. CASE serverRow.version = write[w].previous.version
    <3>1. serverRow'.version = serverRow.version + 1 /\ serverRow' \in Projections
      BY <1>2, <2>1, <2>3 DEF PatchArrives, WriteTypeOK
    <3> QED
      BY <1>2, <2>1, <2>2, <3>1, RowStep DEF PatchArrives
  <2>4. CASE serverRow.version # write[w].previous.version
    <3>1. UNCHANGED <<serverRow, header>>
      BY <1>2, <2>4 DEF PatchArrives
    <3> QED
      BY <2>1, <2>2, <3>1, ClientStep DEF WriteInv
  <2> QED
    BY <2>3, <2>4
<1>3. ASSUME NEW w \in Writes, PatchIsReread(w) PROVE WriteInv'
  <2>1. WriteTypeOK'
    <3>1. PICK x : x = [[write[w] EXCEPT !.pc = "answered"] EXCEPT !.answer = serverRow]
      OBVIOUS
    <3>2. x \in WriteRecords
      BY <1>t, <3>1 DEF WriteTypeOK, WriteRecords
    <3>3. write' = [write EXCEPT ![w] = x]
      BY <1>3, <1>t, <3>1 DEF PatchIsReread, WriteTypeOK
    <3> QED
      BY <1>3, <1>t, <3>2, <3>3 DEF PatchIsReread, WriteTypeOK
  <2>2. \A v \in Writes : /\ write'[v].previous = write[v].previous
                          /\ write'[v].answer \in {write[v].answer, serverRow}
    BY <1>3, <1>t DEF PatchIsReread, WriteTypeOK, WriteRecords
  <2>3. \A v \in Writes : KnownHeader(write'[v].previous) /\ KnownRow(write'[v].answer)
    BY <2>2, ServerIsKnown DEF WriteInv
  <2>4. UNCHANGED <<serverRow, header>>
    BY <1>3 DEF PatchIsReread
  <2> QED
    BY <2>1, <2>3, <2>4, ClientStep DEF WriteInv
<1>4. ASSUME NEW w \in Writes, NEW seen \in ShownHeaders, KnownHeader(seen),
             WriteEnds(w, seen), UNCHANGED serverRow
      PROVE  WriteInv'
  <2>1. WriteTypeOK'
    <3>1. PICK x : x = [[write[w] EXCEPT !.pc = IF write[w].pc = "answered" THEN "over"
                                                 ELSE write[w].pc] EXCEPT !.open = FALSE]
      OBVIOUS
    <3>2. x \in WriteRecords
      BY <1>t, <3>1 DEF WriteTypeOK, WriteRecords
    <3>3. /\ write' = [write EXCEPT ![w] = x] /\ header' = seen
          /\ pendingWrite' \in {NoWrite, pendingWrite}
      BY <1>4, <1>t, <3>1 DEF WriteEnds, WriteTypeOK, WriteRecords
    <3> QED
      BY <1>4, <1>t, <3>2, <3>3 DEF WriteTypeOK
  <2>2. \A v \in Writes : /\ write'[v].previous = write[v].previous
                          /\ write'[v].answer = write[v].answer
    BY <1>4, <1>t DEF WriteEnds, WriteTypeOK, WriteRecords
  <2> QED
    BY <1>4, <2>1, <2>2, ClientStep DEF WriteEnds, WriteInv
<1>5. ASSUME NEW w \in Writes, WriteAnswered(w) PROVE WriteInv'
  <2>1. /\ FromServer(write[w].answer) \in ShownHeaders
        /\ KnownHeader(FromServer(write[w].answer))
    BY <1>t DEF FromServer, KnownHeader, KnownRow, WriteInv, WriteTypeOK, WriteRecords, Projections,
       ShownHeaders
  <2> QED
    BY <1>4, <1>5, <2>1 DEF WriteAnswered
<1>6. ASSUME NEW w \in Writes, WriteFails(w) PROVE WriteInv'
  <2>1. write[w].previous \in ShownHeaders /\ KnownHeader(write[w].previous)
    BY KnownTypes DEF WriteInv
  <2> QED
    BY <1>4, <1>6, <2>1 DEF WriteFails
<1>7. CASE TurnAwayAndBack
  <2>1. WriteTypeOK'
    BY <1>7, <1>t DEF TurnAwayAndBack, WriteTypeOK
  <2> QED
    BY <1>7, <2>1, ClientStep DEF TurnAwayAndBack, WriteInv
<1>8. CASE ReloadShowsRow
  <2>1. WriteTypeOK'
    BY <1>8, <1>t DEF ReloadShowsRow, WriteTypeOK, FromServer, Projections, ShownHeaders
  <2> QED
    BY <1>8, <2>1, ServerIsKnown, ClientStep DEF ReloadShowsRow, WriteInv
<1>9. ASSUME NEW state \in Shown, OtherMemberWrites(state) PROVE WriteInv'
  <2>1. WriteTypeOK'
    BY <1>9, <1>t DEF OtherMemberWrites, WriteTypeOK, Projections
  <2>2. serverRow'.version = serverRow.version + 1 /\ serverRow' \in Projections
    BY <1>9, <2>1 DEF OtherMemberWrites, WriteTypeOK
  <2> QED
    BY <1>9, <2>1, <2>2, RowStep DEF OtherMemberWrites
<1>10. CASE UNCHANGED writeVars
  BY <1>10 DEF writeVars, WriteInv, WriteTypeOK, KnownHeader, KnownRow, FirstRow
<1> QED
  BY <1>1, <1>2, <1>3, <1>5, <1>6, <1>7, <1>8, <1>9, <1>10 DEF WriteNext

-----------------------------------------------------------------------------
(* WriteInv holds in every reachable state (useConversationWrite and the   *)
(* compare-and-swap of patchConversation).                                 *)
THEOREM WriteInvariant == WriteSpec => []WriteInv
<1> QED
  BY InitWriteInv, StepWriteInv, PTL DEF WriteSpec

(* However many writes fail, are answered late or cross reloads, the one   *)
(* that is accepted replaces the state its member was shown.               *)
THEOREM WritesReplaceWhatTheySaw == WriteSpec => WritesReplaceWhatWasSeen
<1>1. ASSUME WriteInv, [WriteNext]_writeVars
      PROVE  [\A w \in Writes :
                write[w].pc = "sent" /\ write'[w].pc = "won"
                => write[w].previous.seen = serverRow.state]_write
  <2> SUFFICES ASSUME NEW w \in Writes, write[w].pc = "sent", write'[w].pc = "won"
               PROVE  write[w].previous.seen = serverRow.state
    OBVIOUS
  <2>t. write \in [Writes -> WriteRecords]
    BY <1>1 DEF WriteInv, WriteTypeOK
  <2>1. PatchArrives(w)
    <3>1. ASSUME NEW v \in Writes, NEW state \in Shown, Mutate(v, state) PROVE FALSE
      <4>1. /\ write'[v].pc = "sent" /\ write[v].pc = "none"
            /\ v # w => write'[w] = write[w]
        BY <3>1, <2>t DEF Mutate, WriteRecords
      <4> QED
        BY <4>1
    <3>2. ASSUME NEW v \in Writes, PatchArrives(v) PROVE v = w
      <4>1. v # w => write'[w] = write[w]
        BY <3>2, <2>t DEF PatchArrives
      <4> QED
        BY <4>1
    <3>3. ASSUME NEW v \in Writes, PatchIsReread(v) PROVE FALSE
      <4>1. /\ write'[v].pc = "answered" /\ write[v].pc # "sent"
            /\ v # w => write'[w] = write[w]
        BY <3>3, <2>t DEF PatchIsReread, WriteRecords
      <4> QED
        BY <4>1
    <3>4. ASSUME NEW v \in Writes, NEW seen, WriteEnds(v, seen) PROVE FALSE
      <4>1. /\ write'[v].pc \in {"over", write[v].pc}
            /\ v # w => write'[w] = write[w]
        BY <3>4, <2>t DEF WriteEnds, WriteRecords
      <4> QED
        BY <4>1
    <3>5. write' # write
      OBVIOUS
    <3> QED
      BY <1>1, <3>1, <3>2, <3>3, <3>4, <3>5 DEF WriteNext, writeVars, WriteAnswered, WriteFails,
         TurnAwayAndBack, ReloadShowsRow, OtherMemberWrites
  <2>2. serverRow.version = write[w].previous.version
    BY <2>1, <2>t DEF PatchArrives, WriteRecords
  <2> QED
    BY <1>1, <2>2 DEF WriteInv, KnownHeader
<1> QED
  BY <1>1, WriteInvariant, PTL DEF WriteSpec, WritesReplaceWhatWasSeen

-----------------------------------------------------------------------------
(* Some number of a set is the least.                                      *)
LEMMA LeastNatural ==
  ASSUME NEW S \in SUBSET Nat, S # {}
  PROVE  \E m \in S : \A n \in S : m <= n
<1>1. \E m \in S : \A n \in S : ~(<<n, m>> \in OpToRel(<, Nat))
  BY NatLessThanWellFounded, WFMin
<1>2. PICK m \in S : \A n \in S : ~(<<n, m>> \in OpToRel(<, Nat))
  BY <1>1
<1>3. \A n \in S : ~(n < m)
  BY <1>2 DEF OpToRel
<1> QED
  BY <1>3

-----------------------------------------------------------------------------
(***************************************************************************)
(* ListPages.                                                              *)
(***************************************************************************)
Chat == [at : 0 .. LastSortAt, status : ListStatuses, edit : 0 .. MaxEdits]
Answers == [pc : {"none", "sent", "read"}, id : 0 .. MaxListIds, filter : ListFilters,
            after : Cursors, rows : SUBSET Chats, cursor : Cursors, read : 0 .. MaxEdits]
PageLists == [filter : ListFilters, id : 0 .. MaxListIds, rows : SUBSET Chats,
              cursor : Cursors, status : {"loading", "loaded", "failed"},
              read : 0 .. MaxEdits, joined : BOOLEAN]

(* Nothing lies between what a page was asked after and its own cursor but *)
(* its rows and conversations that changed after it was read.              *)
AnswerMissesNothing(a) ==
  /\ a.read <= edits
  /\ \A c \in Listed(a.filter) :
       chat[c].edit <= a.read /\ SortsBefore(a.after, CursorOf(c))
       => c \in a.rows \/ SortsBefore(a.cursor, CursorOf(c))

(* A request under the current id is for the filter of the list; only one  *)
(* for a further page is asked after a row.                                *)
RequestsFitTheList ==
  \A k \in Asked :
    asked[k].pc # "none" =>
      /\ asked[k].id <= pages.id
      /\ asked[k].id = pages.id => asked[k].filter = pages.filter
      /\ IF k = "further" THEN asked[k].after # End ELSE asked[k].after = Start
      /\ asked[k].pc = "read" => AnswerMissesNothing(asked[k])

(* PagesSkipNothing, also of a list whose first page failed later.         *)
ListMissesNothing ==
  /\ pages.read <= edits
  /\ pages.joined /\ (pages.status = "loaded" \/ pages.cursor # End) =>
       \A c \in Listed(pages.filter) :
         chat[c].edit <= pages.read /\ ~SortsBefore(pages.cursor, CursorOf(c))
         => c \in pages.rows

PagesInv ==
  /\ ListTypeOK
  /\ RequestsFitTheList
  /\ ListMissesNothing

LEMMA ListTypes ==
  ASSUME ListTypeOK
  PROVE  /\ edits \in Nat /\ chat \in [Chats -> Chat]
         /\ asked \in [Asked -> Answers] /\ pages \in PageLists
         /\ \A c \in Chats : chat[c].at \in Nat /\ chat[c].edit \in Nat /\ c \in Nat
BY ListAssumption DEF ListTypeOK, Chat, Answers, PageLists

-----------------------------------------------------------------------------
(* The order of the query is total on the conversations.                   *)
Precedes(c, d) == SortsBefore(CursorOf(c), CursorOf(d))

LEMMA OrderIsTotal ==
  ASSUME ListTypeOK
  PROVE  /\ \A c \in Chats : ~Precedes(c, c)
         /\ \A c, d \in Chats : c = d \/ Precedes(c, d) \/ Precedes(d, c)
         /\ \A c, d, e \in Chats : Precedes(c, d) /\ Precedes(d, e) => Precedes(c, e)
         /\ \A c, d \in Chats : Precedes(c, d) => ~Precedes(d, c)
BY ListTypes DEF Precedes, SortsBefore, CursorOf

(* Some conversation of a set comes before the others, and one after them. *)
LEMMA OneIsFirst ==
  ASSUME ListTypeOK, NEW S \in SUBSET Chats, S # {}
  PROVE  \E c \in S : \A d \in S \ {c} : Precedes(c, d)
<1> DEFINE Before(c) == {d \in S : Precedes(d, c)}
           Sizes == {Cardinality(Before(c)) : c \in S}
<1>1. \A c \in S : IsFiniteSet(Before(c)) /\ Cardinality(Before(c)) \in Nat
  BY ListAssumption, FS_Subset, FS_CardinalityType
<1>2. PICK m \in Sizes : \A n \in Sizes : m <= n
  <2>1. Sizes \in SUBSET Nat /\ Sizes # {}
    BY <1>1
  <2> QED
    BY <2>1, LeastNatural
<1>3. PICK c \in S : Cardinality(Before(c)) = m
  BY <1>2
<1>4. ASSUME NEW d \in S, Precedes(d, c) PROVE FALSE
  <2>1. Before(d) \subseteq Before(c) /\ d \in Before(c) /\ d \notin Before(d)
    BY <1>4, OrderIsTotal
  <2>2. Cardinality(Before(d)) < Cardinality(Before(c))
    <3>1. PICK B : B = Before(c)
      OBVIOUS
    <3>2. PICK D : D = Before(d)
      OBVIOUS
    <3>3. IsFiniteSet(B) /\ D \subseteq B /\ D # B
      BY <1>1, <2>1, <3>1, <3>2
    <3>4. Cardinality(D) < Cardinality(B)
      BY <3>3, FS_Subset, FS_CardinalityType
    <3> QED
      BY <3>1, <3>2, <3>4
  <2>3. Cardinality(Before(d)) \in Sizes /\ Cardinality(Before(d)) \in Nat
    BY <1>1
  <2>4. m <= Cardinality(Before(d)) /\ m \in Nat
    BY <1>1, <1>2, <1>3, <2>3
  <2> QED
    BY <1>3, <2>2, <2>3, <2>4
<1> QED
  BY <1>4, OrderIsTotal

LEMMA OneIsLast ==
  ASSUME ListTypeOK, NEW S \in SUBSET Chats, S # {}
  PROVE  \E c \in S : \A d \in S \ {c} : Precedes(d, c)
<1> DEFINE After(c) == {d \in S : Precedes(c, d)}
           Sizes == {Cardinality(After(c)) : c \in S}
<1>1. \A c \in S : IsFiniteSet(After(c)) /\ Cardinality(After(c)) \in Nat
  BY ListAssumption, FS_Subset, FS_CardinalityType
<1>2. PICK m \in Sizes : \A n \in Sizes : m <= n
  <2>1. Sizes \in SUBSET Nat /\ Sizes # {}
    BY <1>1
  <2> QED
    BY <2>1, LeastNatural
<1>3. PICK c \in S : Cardinality(After(c)) = m
  BY <1>2
<1>4. ASSUME NEW d \in S, Precedes(c, d) PROVE FALSE
  <2>1. After(d) \subseteq After(c) /\ d \in After(c) /\ d \notin After(d)
    BY <1>4, OrderIsTotal
  <2>2. Cardinality(After(d)) < Cardinality(After(c))
    <3>1. PICK B : B = After(c)
      OBVIOUS
    <3>2. PICK D : D = After(d)
      OBVIOUS
    <3>3. IsFiniteSet(B) /\ D \subseteq B /\ D # B
      BY <1>1, <2>1, <3>1, <3>2
    <3>4. Cardinality(D) < Cardinality(B)
      BY <3>3, FS_Subset, FS_CardinalityType
    <3> QED
      BY <3>1, <3>2, <3>4
  <2>3. Cardinality(After(d)) \in Sizes /\ Cardinality(After(d)) \in Nat
    BY <1>1
  <2>4. m <= Cardinality(After(d)) /\ m \in Nat
    BY <1>1, <1>2, <1>3, <2>3
  <2> QED
    BY <1>3, <2>2, <2>3, <2>4
<1> QED
  BY <1>4, OrderIsTotal

(* A page takes the rows after its cursor in their order, so that whatever *)
(* it leaves comes after all it has.                                       *)
LEMMA PageIsAPrefix ==
  ASSUME ListTypeOK, NEW filter \in ListFilters, NEW from \in Cursors,
         NEW c \in Page(filter, from), NEW d \in Rest(filter, from) \ Page(filter, from)
  PROVE  Precedes(c, d)
<1> DEFINE rest == Rest(filter, from)
           Earlier(x) == {o \in rest : Precedes(o, x)}
<1>1. rest \subseteq Chats /\ Page(filter, from) = {x \in rest : Cardinality(Earlier(x)) < PageLimit}
  BY DEF Rest, Listed, Page, Precedes
<1>2. \A x \in rest : IsFiniteSet(Earlier(x)) /\ Cardinality(Earlier(x)) \in Nat
  BY <1>1, ListAssumption, FS_Subset, FS_CardinalityType
<1>3. /\ c \in rest /\ d \in rest /\ c # d
      /\ Cardinality(Earlier(c)) < PageLimit /\ ~(Cardinality(Earlier(d)) < PageLimit)
  BY <1>1
<1>4. ASSUME Precedes(d, c) PROVE FALSE
  <2>1. Earlier(d) \subseteq Earlier(c)
    BY <1>1, <1>3, <1>4, OrderIsTotal
  <2>2. Cardinality(Earlier(d)) <= Cardinality(Earlier(c))
    BY <1>2, <1>3, <2>1, FS_Subset
  <2>3. Cardinality(Earlier(c)) \in Nat /\ Cardinality(Earlier(d)) \in Nat /\ PageLimit \in Nat
    BY <1>2, <1>3, ListAssumption
  <2> HIDE DEF Earlier
  <2> QED
    BY <1>3, <2>2, <2>3
<1> QED
  BY <1>1, <1>3, <1>4, OrderIsTotal

LEMMA PageMissesNothing ==
  ASSUME ListTypeOK, NEW filter \in ListFilters, NEW from \in Cursors
  PROVE  /\ Page(filter, from) \subseteq Chats
         /\ NextCursor(filter, from) \in Cursors
         /\ \A c \in Listed(filter) :
              SortsBefore(from, CursorOf(c)) =>
                c \in Page(filter, from) \/ SortsBefore(NextCursor(filter, from), CursorOf(c))
<1> DEFINE page == Page(filter, from)
           rest == Rest(filter, from)
           last == CHOOSE c \in page : \A o \in page \ {c} : SortsBefore(CursorOf(o), CursorOf(c))
<1>1. page \subseteq rest /\ rest \subseteq Chats
  BY DEF Page, Rest, Listed
<1>2. \A c \in Listed(filter) : SortsBefore(from, CursorOf(c)) => c \in rest
  BY ListTypes, ListAssumption DEF Rest, Listed, SortsBefore, CursorOf, ComesAfter, Cursors
<1>3. NextCursor(filter, from) = IF page = rest THEN End ELSE CursorOf(last)
  BY DEF NextCursor
<1>4. CASE page = rest
  <2>1. End \in Cursors
    BY ListAssumption DEF End, Cursors
  <2> QED
    BY <1>1, <1>2, <1>3, <1>4, <2>1
<1>5. CASE page # rest
  <2>1. PICK d \in rest : d \notin page
    BY <1>1, <1>5
  <2>2. page # {}
    <3>1. PICK e \in rest : \A o \in rest \ {e} : Precedes(e, o)
      BY <1>1, <2>1, OneIsFirst
    <3>2. {o \in rest : Precedes(o, e)} = {}
      BY <1>1, <3>1, OrderIsTotal
    <3>3. Cardinality({o \in rest : Precedes(o, e)}) < PageLimit
      BY <3>2, FS_EmptySet, ListAssumption
    <3> QED
      BY <3>1, <3>3 DEF Page, Precedes
  <2>3. last \in page
    <3>1. PICK e \in page : \A o \in page \ {e} : Precedes(o, e)
      BY <1>1, <2>2, OneIsLast
    <3>2. \A o \in page \ {e} : SortsBefore(CursorOf(o), CursorOf(e))
      BY <3>1 DEF Precedes
    <3> QED
      BY <3>1, <3>2
  <2>4. CursorOf(last) \in Cursors
    <3>1. last \in Chats
      BY <1>1, <2>3
    <3>2. chat[last].at \in 0 .. LastSortAt
      BY <3>1, ListTypes DEF Chat
    <3> QED
      BY <3>1, <3>2, ListAssumption DEF CursorOf, Cursors
  <2>5. ASSUME NEW c \in rest, c \notin page PROVE SortsBefore(CursorOf(last), CursorOf(c))
    BY <2>3, <2>5, PageIsAPrefix DEF Precedes
  <2> QED
    BY <1>1, <1>2, <1>3, <1>5, <2>4, <2>5
<1> QED
  BY <1>4, <1>5

-----------------------------------------------------------------------------
(* A request as a client sends it knows nothing yet.                       *)
LEMMA SentIsARequest ==
  ASSUME ListTypeOK, NEW filter \in ListFilters, NEW id \in 0 .. MaxListIds, NEW after \in Cursors
  PROVE  /\ Sent(filter, id, after) \in Answers
         /\ Sent(filter, id, after).pc = "sent" /\ Sent(filter, id, after).id = id
         /\ Sent(filter, id, after).filter = filter /\ Sent(filter, id, after).after = after
<1>1. 0 \in 0 .. MaxEdits /\ End \in Cursors
  BY ListAssumption DEF End, Cursors
<1> QED
  BY <1>1 DEF Sent, NoPage, Answers

(* What requests begin with is of their types.                             *)
LEMMA StartFacts ==
  /\ Start \in Cursors /\ End \in Cursors /\ Start # End
  /\ NoPage \in Answers /\ NoPage.pc = "none"
  /\ 0 \in 0 .. MaxEdits /\ AnyStatus \in ListFilters
<1>1. Start \in Cursors /\ End \in Cursors /\ Start # End
  BY ListAssumption DEF Start, End, Cursors
<1>2. 0 \in 0 .. MaxEdits /\ 0 \in 0 .. MaxListIds /\ AnyStatus \in ListFilters
  BY ListAssumption DEF ListFilters
<1> QED
  BY <1>1, <1>2 DEF NoPage, Answers

LEMMA InitPagesInv == ListInit => PagesInv
<1> SUFFICES ASSUME ListInit PROVE PagesInv
  OBVIOUS
<1>1. edits = 0 /\ edits \in 0 .. MaxEdits
  BY ListAssumption DEF ListInit
<1>2. chat \in [Chats -> Chat]
  BY ListAssumption DEF ListInit, Chat
<1>3. /\ pages = EmptyList(AnyStatus, 1)
      /\ asked = [k \in Asked |-> IF k = "first" THEN Sent(AnyStatus, 1, Start) ELSE NoPage]
  BY DEF ListInit
<1>4. /\ pages \in PageLists /\ pages.id = 1 /\ pages.status = "loading" /\ pages.cursor = End
      /\ pages.read = 0 /\ pages.filter = AnyStatus
  BY <1>3, StartFacts, ListAssumption DEF EmptyList, PageLists
<1>5. PICK s : s = Sent(AnyStatus, 1, Start)
  OBVIOUS
<1>6. s \in Answers /\ s.pc = "sent" /\ s.id = 1 /\ s.filter = AnyStatus /\ s.after = Start
  <2>1. 1 \in 0 .. MaxListIds /\ 0 \in 0 .. MaxEdits
    BY ListAssumption
  <2> QED
    BY <1>5, <2>1, StartFacts DEF Sent, NoPage, Answers
<1>7. /\ asked \in [Asked -> Answers]
      /\ \A k \in Asked : asked[k] = IF k = "first" THEN s ELSE NoPage
  BY <1>3, <1>5, <1>6, StartFacts
<1>8. ListTypeOK
  BY <1>1, <1>2, <1>4, <1>7 DEF ListTypeOK, Chat, Answers, PageLists
<1>9. RequestsFitTheList
  BY <1>4, <1>6, <1>7, StartFacts DEF RequestsFitTheList
<1> QED
  BY <1>1, <1>4, <1>8, <1>9 DEF PagesInv, ListMissesNothing

(* A row that changes is newer than every page that was read before.       *)
LEMMA RowChangeKeeps ==
  ASSUME PagesInv, NEW c \in Chats, NEW r \in Chat, r.edit = edits + 1, edits < MaxEdits,
         edits' = edits + 1, chat' = [chat EXCEPT ![c] = r], UNCHANGED <<pages, asked>>
  PROVE  PagesInv'
<1>0. /\ ListTypeOK /\ edits \in Nat /\ chat \in [Chats -> Chat] /\ asked \in [Asked -> Answers]
      /\ pages \in PageLists
  BY ListTypes DEF PagesInv
<1>1. ListTypeOK'
  <2>1. edits' \in 0 .. MaxEdits
    BY <1>0, ListAssumption
  <2>2. chat' \in [Chats -> Chat]
    BY <1>0
  <2> QED
    BY <1>0, <2>1, <2>2 DEF ListTypeOK, Chat
<1>2. /\ chat'[c].edit = edits + 1
      /\ \A d \in Chats : d # c => chat'[d] = chat[d]
  BY <1>0
<1>3. ASSUME NEW filter, NEW read \in Nat, read <= edits, NEW d \in Listed(filter)',
             chat'[d].edit <= read
      PROVE  d \in Listed(filter) /\ d # c /\ chat'[d] = chat[d] /\ CursorOf(d)' = CursorOf(d)
  <2>1. d \in Chats
    BY <1>3 DEF Listed
  <2>2. d # c
    BY <1>0, <1>2, <1>3
  <2> QED
    BY <1>2, <1>3, <2>1, <2>2 DEF Listed, CursorOf
<1>4. ASSUME NEW k \in Asked, asked[k].pc = "read", AnswerMissesNothing(asked[k])
      PROVE  AnswerMissesNothing(asked[k])'
  <2>1. asked[k].read \in Nat /\ asked[k].read <= edits
    BY <1>0, <1>4, ListAssumption DEF Answers, AnswerMissesNothing
  <2> QED
    BY <1>0, <1>3, <1>4, <2>1 DEF AnswerMissesNothing
<1>5. RequestsFitTheList'
  BY <1>4 DEF PagesInv, RequestsFitTheList
<1>6. ListMissesNothing'
  <2>1. pages.read \in Nat /\ pages.read <= edits
    BY <1>0, ListAssumption DEF PageLists, PagesInv, ListMissesNothing
  <2> QED
    BY <1>0, <1>3, <2>1 DEF PagesInv, ListMissesNothing
<1> QED
  BY <1>1, <1>5, <1>6 DEF PagesInv

LEMMA RowsMoveKeeps ==
  ASSUME PagesInv, NEW c \in Chats,
         \/ \E at \in 1 .. LastSortAt : ChatMoves(c, at)
         \/ \E status \in ListStatuses : ChatStatusChanges(c, status)
  PROVE  PagesInv'
<1>0. /\ ListTypeOK /\ edits \in Nat /\ chat \in [Chats -> Chat]
  BY ListTypes DEF PagesInv
<1>1. ASSUME NEW at \in 1 .. LastSortAt, ChatMoves(c, at) PROVE PagesInv'
  <2>1. PICK r : r = [[chat[c] EXCEPT !.at = at] EXCEPT !.edit = edits + 1]
    OBVIOUS
  <2>2. r \in Chat /\ r.edit = edits + 1
    <3>1. edits < MaxEdits
      BY <1>1 DEF ChatMoves
    <3>2. edits + 1 \in 0 .. MaxEdits /\ at \in 0 .. LastSortAt /\ chat[c] \in Chat
      BY <1>0, <3>1, ListAssumption
    <3> QED
      BY <2>1, <3>2 DEF Chat
  <2>3. /\ edits < MaxEdits /\ edits' = edits + 1 /\ UNCHANGED <<pages, asked>>
        /\ chat' = [chat EXCEPT ![c] = r]
    BY <1>0, <1>1, <2>1 DEF ChatMoves
  <2> QED
    BY <2>2, <2>3, RowChangeKeeps
<1>2. ASSUME NEW status \in ListStatuses, ChatStatusChanges(c, status) PROVE PagesInv'
  <2>1. PICK r : r = [[chat[c] EXCEPT !.status = status] EXCEPT !.edit = edits + 1]
    OBVIOUS
  <2>2. r \in Chat /\ r.edit = edits + 1
    <3>1. edits < MaxEdits
      BY <1>2 DEF ChatStatusChanges
    <3>2. edits + 1 \in 0 .. MaxEdits /\ chat[c] \in Chat
      BY <1>0, <3>1, ListAssumption
    <3> QED
      BY <2>1, <3>2 DEF Chat
  <2>3. /\ edits < MaxEdits /\ edits' = edits + 1 /\ UNCHANGED <<pages, asked>>
        /\ chat' = [chat EXCEPT ![c] = r]
    BY <1>0, <1>2, <2>1 DEF ChatStatusChanges
  <2> QED
    BY <2>2, <2>3, RowChangeKeeps
<1> QED
  BY <1>1, <1>2

-----------------------------------------------------------------------------
(* What is left to show of a step of the client, which reads no rows.      *)
LEMMA RequestsMove ==
  ASSUME PagesInv, UNCHANGED <<edits, chat>>,
         pages' \in PageLists, asked' \in [Asked -> Answers], ListMissesNothing',
         \A k \in Asked :
           asked'[k].pc # "none" =>
             /\ asked'[k].id <= pages'.id
             /\ asked'[k].id = pages'.id => asked'[k].filter = pages'.filter
             /\ IF k = "further" THEN asked'[k].after # End ELSE asked'[k].after = Start
             /\ asked'[k].pc = "read" => asked'[k] = asked[k]
  PROVE  PagesInv'
<1>1. ListTypeOK'
  BY DEF PagesInv, ListTypeOK, Answers, PageLists
<1>2. ASSUME NEW k \in Asked, asked'[k].pc = "read" PROVE AnswerMissesNothing(asked[k])'
  <2>1. AnswerMissesNothing(asked[k])
    BY <1>2 DEF PagesInv, RequestsFitTheList
  <2>2. asked'[k] = asked[k]
    BY <1>2
  <2> QED
    BY <2>1, <2>2 DEF AnswerMissesNothing, Listed, CursorOf
<1>3. RequestsFitTheList'
  BY <1>2 DEF RequestsFitTheList
<1> QED
  BY <1>1, <1>3 DEF PagesInv

LEMMA ListConversationsKeeps ==
  ASSUME PagesInv, NEW k \in Asked, ListConversations(k)
  PROVE  PagesInv'
<1>0. /\ ListTypeOK /\ edits \in 0 .. MaxEdits /\ asked[k] \in Answers
      /\ asked \in [Asked -> Answers] /\ UNCHANGED <<edits, chat, pages>> /\ asked[k].pc = "sent"
  BY ListTypes DEF PagesInv, ListTypeOK, ListConversations
<1>1. asked[k].filter \in ListFilters /\ asked[k].after \in Cursors
  BY <1>0 DEF Answers
<1>2. PICK rows : rows = Page(asked[k].filter, asked[k].after)
  OBVIOUS
<1>3. PICK to : to = NextCursor(asked[k].filter, asked[k].after)
  OBVIOUS
<1>4. /\ rows \subseteq Chats /\ to \in Cursors
      /\ \A c \in Listed(asked[k].filter) :
           SortsBefore(asked[k].after, CursorOf(c)) => c \in rows \/ SortsBefore(to, CursorOf(c))
  BY <1>0, <1>1, <1>2, <1>3, PageMissesNothing
<1>5. PICK a : a = [asked[k] EXCEPT !.pc = "read", !.read = edits, !.rows = rows, !.cursor = to]
  OBVIOUS
<1>6. /\ a \in Answers /\ a.id = asked[k].id /\ a.filter = asked[k].filter
      /\ a.after = asked[k].after /\ a.read = edits /\ a.rows = rows /\ a.cursor = to
      /\ a.pc = "read"
  BY <1>0, <1>4, <1>5 DEF Answers
<1>7. asked' = [asked EXCEPT ![k] = a]
  BY <1>2, <1>3, <1>5 DEF ListConversations
<1>8. AnswerMissesNothing(a)'
  <2>1. edits' \in Nat /\ edits' = a.read
    BY <1>0, <1>6, ListAssumption
  <2>2. \A c \in Listed(a.filter)' :
          SortsBefore(a.after, CursorOf(c)') => c \in a.rows \/ SortsBefore(a.cursor, CursorOf(c)')
    BY <1>0, <1>4, <1>6 DEF Listed, CursorOf
  <2> QED
    BY <2>1, <2>2 DEF AnswerMissesNothing
<1>9. asked' \in [Asked -> Answers] /\ asked'[k] = a /\ \A j \in Asked : j # k => asked'[j] = asked[j]
  BY <1>0, <1>6, <1>7
<1>10. ListTypeOK'
  BY <1>0, <1>9 DEF ListTypeOK, Answers
<1>11. ASSUME NEW j \in Asked, asked'[j].pc # "none"
       PROVE  /\ asked'[j].id <= pages'.id
              /\ asked'[j].id = pages'.id => asked'[j].filter = pages'.filter
              /\ IF j = "further" THEN asked'[j].after # End ELSE asked'[j].after = Start
              /\ asked'[j].pc = "read" => AnswerMissesNothing(asked[j])'
  <2>1. CASE j = k
    <3>1. /\ asked[k].id <= pages.id
          /\ asked[k].id = pages.id => asked[k].filter = pages.filter
          /\ IF k = "further" THEN asked[k].after # End ELSE asked[k].after = Start
      BY <1>0 DEF PagesInv, RequestsFitTheList
    <3>2. AnswerMissesNothing(asked[j])'
      BY <1>8, <1>9, <2>1 DEF AnswerMissesNothing
    <3> QED
      BY <1>0, <1>6, <1>9, <2>1, <3>1, <3>2
  <2>2. CASE j # k
    <3>1. asked'[j] = asked[j]
      BY <1>9, <2>2
    <3>2. /\ asked[j].id <= pages.id
          /\ asked[j].id = pages.id => asked[j].filter = pages.filter
          /\ IF j = "further" THEN asked[j].after # End ELSE asked[j].after = Start
          /\ asked[j].pc = "read" => AnswerMissesNothing(asked[j])
      BY <1>11, <3>1 DEF PagesInv, RequestsFitTheList
    <3>3. AnswerMissesNothing(asked[j]) => AnswerMissesNothing(asked[j])'
      BY <1>0, <3>1 DEF AnswerMissesNothing, Listed, CursorOf
    <3> QED
      BY <1>0, <3>1, <3>2, <3>3
  <2> QED
    BY <2>1, <2>2
<1>12. RequestsFitTheList'
  BY <1>11 DEF RequestsFitTheList
<1>13. ListMissesNothing'
  BY <1>0 DEF PagesInv, ListMissesNothing, Listed, CursorOf
<1> QED
  BY <1>10, <1>12, <1>13 DEF PagesInv

LEMMA NewRequestKeeps ==
  ASSUME PagesInv,
         \/ \E filter \in ListFilters : LoadFirstPage(filter)
         \/ LoadMore \/ RealtimeReload
  PROVE  PagesInv'
<1>0. /\ ListTypeOK /\ asked \in [Asked -> Answers] /\ pages \in PageLists
      /\ UNCHANGED <<edits, chat>> /\ edits \in Nat /\ pages.id \in 0 .. MaxListIds
      /\ MaxListIds \in Nat /\ pages.filter \in ListFilters /\ pages.cursor \in Cursors
      /\ \A k \in Asked : asked[k].id \in Nat
  BY ListTypes, ListAssumption
  DEF PagesInv, LoadFirstPage, LoadMore, RealtimeReload, PageLists, Answers
<1>k. \A k \in Asked :
        asked[k].pc # "none" =>
          /\ asked[k].id <= pages.id
          /\ asked[k].id = pages.id => asked[k].filter = pages.filter
          /\ IF k = "further" THEN asked[k].after # End ELSE asked[k].after = Start
  BY DEF PagesInv, RequestsFitTheList
<1>1. ASSUME NEW filter \in ListFilters, LoadFirstPage(filter) PROVE PagesInv'
  <2>0. pages.id + 1 \in 0 .. MaxListIds
    BY <1>0, <1>1 DEF LoadFirstPage
  <2>1. PICK s : s = Sent(filter, pages.id + 1, Start)
    OBVIOUS
  <2>2. s \in Answers /\ s.pc = "sent" /\ s.id = pages.id + 1 /\ s.filter = filter /\ s.after = Start
    BY <1>0, <2>0, <2>1, SentIsARequest, StartFacts
  <2>3. /\ pages' = EmptyList(filter, pages.id + 1)
        /\ asked' = [asked EXCEPT !["first"] = s, !["further"] = NoPage]
    BY <1>1, <2>1 DEF LoadFirstPage
  <2>4. /\ pages' \in PageLists /\ pages'.id = pages.id + 1 /\ pages'.filter = filter
        /\ pages'.status = "loading" /\ pages'.cursor = End /\ pages'.read = 0
    BY <1>0, <2>0, <2>3, StartFacts DEF EmptyList, PageLists
  <2>5. /\ asked' \in [Asked -> Answers] /\ asked'["first"] = s /\ asked'["further"] = NoPage
        /\ asked'["reload"] = asked["reload"]
    BY <1>0, <2>2, <2>3, StartFacts DEF Asked
  <2>6. ListMissesNothing'
    BY <1>0, <2>4 DEF ListMissesNothing
  <2>7. ASSUME NEW k \in Asked, asked'[k].pc # "none"
        PROVE  /\ asked'[k].id <= pages'.id
               /\ asked'[k].id = pages'.id => asked'[k].filter = pages'.filter
               /\ IF k = "further" THEN asked'[k].after # End ELSE asked'[k].after = Start
               /\ asked'[k].pc = "read" => asked'[k] = asked[k]
    <3>1. CASE k = "first"
      BY <1>0, <2>2, <2>4, <2>5, <3>1
    <3>2. CASE k = "further"
      BY <2>5, <2>7, <3>2, StartFacts
    <3>3. CASE k = "reload"
      BY <1>0, <1>k, <2>4, <2>5, <2>7, <3>3
    <3> QED
      BY <3>1, <3>2, <3>3 DEF Asked
  <2> QED
    BY <1>0, <2>4, <2>5, <2>6, <2>7, RequestsMove
<1>2. CASE LoadMore
  <2>0. pages.id + 1 \in 0 .. MaxListIds /\ pages.cursor # End
    BY <1>0, <1>2 DEF LoadMore
  <2>1. PICK s : s = Sent(pages.filter, pages.id + 1, pages.cursor)
    OBVIOUS
  <2>2. /\ s \in Answers /\ s.pc = "sent" /\ s.id = pages.id + 1 /\ s.filter = pages.filter
        /\ s.after = pages.cursor
    BY <1>0, <2>0, <2>1, SentIsARequest
  <2>3. pages' = [pages EXCEPT !.id = @ + 1] /\ asked' = [asked EXCEPT !["further"] = s]
    BY <1>2, <2>1 DEF LoadMore
  <2>4. /\ pages' \in PageLists /\ pages'.id = pages.id + 1 /\ pages'.filter = pages.filter
        /\ pages'.status = pages.status /\ pages'.cursor = pages.cursor
        /\ pages'.read = pages.read /\ pages'.joined = pages.joined /\ pages'.rows = pages.rows
    BY <1>0, <2>0, <2>3 DEF PageLists
  <2>5. /\ asked' \in [Asked -> Answers] /\ asked'["further"] = s
        /\ \A k \in Asked : k # "further" => asked'[k] = asked[k]
    BY <1>0, <2>2, <2>3 DEF Asked
  <2>6. ListMissesNothing'
    BY <1>0, <2>4 DEF PagesInv, ListMissesNothing, Listed, CursorOf
  <2>7. ASSUME NEW k \in Asked, asked'[k].pc # "none"
        PROVE  /\ asked'[k].id <= pages'.id
               /\ asked'[k].id = pages'.id => asked'[k].filter = pages'.filter
               /\ IF k = "further" THEN asked'[k].after # End ELSE asked'[k].after = Start
               /\ asked'[k].pc = "read" => asked'[k] = asked[k]
    <3>1. CASE k = "further"
      BY <1>0, <2>0, <2>2, <2>4, <2>5, <3>1
    <3>2. CASE k # "further"
      BY <1>0, <1>k, <2>4, <2>5, <2>7, <3>2
    <3> QED
      BY <3>1, <3>2
  <2> QED
    BY <1>0, <2>4, <2>5, <2>6, <2>7, RequestsMove
<1>3. CASE RealtimeReload
  <2>1. PICK s : s = Sent(pages.filter, pages.id, Start)
    OBVIOUS
  <2>2. s \in Answers /\ s.pc = "sent" /\ s.id = pages.id /\ s.filter = pages.filter /\ s.after = Start
    BY <1>0, <2>1, SentIsARequest, StartFacts
  <2>3. pages' = pages /\ asked' = [asked EXCEPT !["reload"] = s]
    BY <1>3, <2>1 DEF RealtimeReload
  <2>5. /\ asked' \in [Asked -> Answers] /\ asked'["reload"] = s
        /\ \A k \in Asked : k # "reload" => asked'[k] = asked[k]
    BY <1>0, <2>2, <2>3 DEF Asked
  <2>6. ListMissesNothing'
    BY <1>0, <2>3 DEF PagesInv, ListMissesNothing, Listed, CursorOf
  <2>7. ASSUME NEW k \in Asked, asked'[k].pc # "none"
        PROVE  /\ asked'[k].id <= pages'.id
               /\ asked'[k].id = pages'.id => asked'[k].filter = pages'.filter
               /\ IF k = "further" THEN asked'[k].after # End ELSE asked'[k].after = Start
               /\ asked'[k].pc = "read" => asked'[k] = asked[k]
    <3>1. CASE k = "reload"
      BY <1>0, <2>2, <2>3, <2>5, <3>1
    <3>2. CASE k # "reload"
      BY <1>k, <2>3, <2>5, <2>7, <3>2
    <3> QED
      BY <3>1, <3>2
  <2> QED
    BY <1>0, <2>3, <2>5, <2>6, <2>7, RequestsMove
<1> QED
  BY <1>1, <1>2, <1>3

(* The request is gone; what is left is the list it makes.                 *)
LEMMA RequestEnds ==
  ASSUME PagesInv, NEW k \in Asked, asked' = [asked EXCEPT ![k] = NoPage],
         UNCHANGED <<edits, chat>>, pages' \in PageLists, pages'.id = pages.id,
         pages'.filter = pages.filter, ListMissesNothing'
  PROVE  PagesInv'
<1>0. asked \in [Asked -> Answers]
  BY ListTypes DEF PagesInv
<1>1. /\ asked' \in [Asked -> Answers] /\ asked'[k] = NoPage
      /\ \A j \in Asked : j # k => asked'[j] = asked[j]
  BY <1>0, StartFacts
<1>2. \A j \in Asked :
        asked'[j].pc # "none" =>
          /\ asked'[j].id <= pages'.id
          /\ asked'[j].id = pages'.id => asked'[j].filter = pages'.filter
          /\ IF j = "further" THEN asked'[j].after # End ELSE asked'[j].after = Start
          /\ asked'[j].pc = "read" => asked'[j] = asked[j]
  BY <1>1, StartFacts DEF PagesInv, RequestsFitTheList
<1> QED
  BY <1>1, <1>2, RequestsMove

LEMMA AnswerKeeps ==
  ASSUME PagesInv, NEW k \in Asked, ListLoadSucceeded(k)
  PROVE  PagesInv'
<1>0. /\ ListTypeOK /\ asked[k] \in Answers /\ pages \in PageLists /\ edits \in Nat
      /\ UNCHANGED <<edits, chat>> /\ asked[k].pc = "read"
      /\ asked' = [asked EXCEPT ![k] = NoPage]
  BY ListTypes DEF PagesInv, ListLoadSucceeded
<1>1. PICK a : a = asked[k]
  OBVIOUS
<1>2. /\ AnswerMissesNothing(a) /\ (a.id = pages.id => a.filter = pages.filter)
      /\ IF k = "further" THEN a.after # End ELSE a.after = Start
  BY <1>0, <1>1 DEF PagesInv, RequestsFitTheList
<1>3. /\ a.read \in 0 .. MaxEdits /\ a.read \in Nat /\ a.cursor \in Cursors /\ a.rows \subseteq Chats
      /\ pages.read \in Nat /\ pages.rows \subseteq Chats
  BY <1>0, <1>1, ListAssumption DEF Answers, PageLists
<1>4. CASE a.id # pages.id
  <2>1. pages' = pages
    BY <1>1, <1>4 DEF ListLoadSucceeded
  <2>2. ListMissesNothing'
    BY <1>0, <2>1 DEF PagesInv, ListMissesNothing, Listed, CursorOf
  <2> QED
    BY <1>0, <2>1, <2>2, RequestEnds
<1>5. CASE a.id = pages.id /\ k # "further"
  <2>1. pages' = [pages EXCEPT !.rows = a.rows, !.cursor = a.cursor, !.status = "loaded",
                               !.read = a.read, !.joined = TRUE]
    BY <1>1, <1>5 DEF ListLoadSucceeded
  <2>2. /\ pages' \in PageLists /\ pages'.id = pages.id /\ pages'.filter = pages.filter
        /\ pages'.rows = a.rows /\ pages'.cursor = a.cursor /\ pages'.read = a.read
    BY <1>0, <1>3, <2>1 DEF PageLists
  <2>3. ASSUME NEW c \in Listed(pages.filter) PROVE SortsBefore(Start, CursorOf(c))
    <3>1. chat[c].at \in 0 .. LastSortAt
      BY <1>0, ListTypes DEF Listed, Chat
    <3> QED
      BY <3>1, ListAssumption DEF Start, SortsBefore, CursorOf
  <2>4. \A c \in Listed(pages.filter) :
          chat[c].edit <= a.read => c \in a.rows \/ SortsBefore(a.cursor, CursorOf(c))
    BY <1>2, <1>5, <2>3 DEF AnswerMissesNothing
  <2>5. ListMissesNothing'
    BY <1>0, <1>2, <2>2, <2>4 DEF ListMissesNothing, Listed, CursorOf, AnswerMissesNothing
  <2> QED
    BY <1>0, <2>2, <2>5, RequestEnds
<1>6. CASE a.id = pages.id /\ k = "further"
  <2>1. pages' = [pages EXCEPT !.rows = @ \union a.rows, !.cursor = a.cursor,
                               !.status = "loaded",
                               !.joined = /\ pages.joined /\ pages.cursor = a.after
                                          /\ a.read >= pages.read]
    BY <1>1, <1>6 DEF ListLoadSucceeded
  <2>2. /\ pages' \in PageLists /\ pages'.id = pages.id /\ pages'.filter = pages.filter
        /\ pages'.rows = pages.rows \union a.rows /\ pages'.cursor = a.cursor
        /\ pages'.read = pages.read
        /\ pages'.joined => pages.joined /\ pages.cursor = a.after /\ a.read >= pages.read
    BY <1>0, <1>3, <2>1 DEF PageLists
  <2>3. ASSUME pages'.joined, NEW c \in Listed(pages.filter), chat[c].edit <= pages.read,
               ~SortsBefore(a.cursor, CursorOf(c))
        PROVE  c \in pages.rows \union a.rows
    <3>1. pages.joined /\ pages.cursor = a.after /\ a.after # End
      BY <1>2, <1>6, <2>2, <2>3
    <3>2. chat[c].edit <= a.read
      <4>1. c \in Chats
        BY <2>3 DEF Listed
      <4>2. chat[c].edit \in Nat
        BY <1>0, <4>1, ListTypes
      <4> QED
        BY <1>3, <2>2, <2>3, <4>2
    <3>3. CASE SortsBefore(a.after, CursorOf(c))
      BY <1>2, <1>6, <2>3, <3>2, <3>3 DEF AnswerMissesNothing
    <3>4. CASE ~SortsBefore(a.after, CursorOf(c))
      BY <2>3, <3>1, <3>4 DEF PagesInv, ListMissesNothing
    <3> QED
      BY <3>3, <3>4
  <2>4. ListMissesNothing'
    BY <1>0, <2>2, <2>3 DEF PagesInv, ListMissesNothing, Listed, CursorOf
  <2> QED
    BY <1>0, <2>2, <2>4, RequestEnds
<1> QED
  BY <1>4, <1>5, <1>6

LEMMA FailureKeeps ==
  ASSUME PagesInv, NEW k \in Asked, ListLoadFailed(k)
  PROVE  PagesInv'
<1>0. pages \in PageLists /\ UNCHANGED <<edits, chat>> /\ asked' = [asked EXCEPT ![k] = NoPage]
  BY ListTypes DEF PagesInv, ListLoadFailed
<1>1. pages' = pages \/ pages' = [pages EXCEPT !.status = "failed"]
  BY DEF ListLoadFailed
<1>2. /\ pages' \in PageLists /\ pages'.id = pages.id /\ pages'.filter = pages.filter
      /\ pages'.rows = pages.rows /\ pages'.cursor = pages.cursor /\ pages'.read = pages.read
      /\ pages'.joined = pages.joined /\ (pages'.status = "loaded" => pages.status = "loaded")
  BY <1>0, <1>1 DEF PageLists
<1>3. ListMissesNothing'
  BY <1>0, <1>2 DEF PagesInv, ListMissesNothing, Listed, CursorOf
<1> QED
  BY <1>0, <1>2, <1>3, RequestEnds

LEMMA StepPagesInv == PagesInv /\ [ListNext]_listVars => PagesInv'
<1> SUFFICES ASSUME PagesInv, [ListNext]_listVars PROVE PagesInv'
  OBVIOUS
<1>1. ASSUME NEW k \in Asked, ListConversations(k) PROVE PagesInv'
  BY <1>1, ListConversationsKeeps
<1>2. ASSUME NEW k \in Asked, ListLoadSucceeded(k) PROVE PagesInv'
  BY <1>2, AnswerKeeps
<1>3. ASSUME NEW k \in Asked, ListLoadFailed(k) PROVE PagesInv'
  BY <1>3, FailureKeeps
<1>4. ASSUME NEW filter \in ListFilters, LoadFirstPage(filter) PROVE PagesInv'
  BY <1>4, NewRequestKeeps
<1>5. CASE LoadMore
  BY <1>5, NewRequestKeeps
<1>6. CASE RealtimeReload
  BY <1>6, NewRequestKeeps
<1>7. ASSUME NEW c \in Chats,
             \/ \E at \in 1 .. LastSortAt : ChatMoves(c, at)
             \/ \E status \in ListStatuses : ChatStatusChanges(c, status)
      PROVE  PagesInv'
  BY <1>7, RowsMoveKeeps
<1>8. CASE UNCHANGED listVars
  BY <1>8 DEF listVars, PagesInv, ListTypeOK, RequestsFitTheList, ListMissesNothing,
              AnswerMissesNothing, Listed, CursorOf
<1> QED
  BY <1>1, <1>2, <1>3, <1>4, <1>5, <1>6, <1>7, <1>8 DEF ListNext

(* What a page that was read leaves out it has not passed, and a request   *)
(* under the current id is for the list that is shown, in every reachable  *)
(* state, for any number of conversations and any size of a page           *)
(* (buildConversationPageQuery, conversationListLoadSucceeded).            *)
THEOREM PagesInvariant == ListSpec => []PagesInv
<1> QED
  BY InitPagesInv, StepPagesInv, PTL DEF ListSpec

(* The list skips no conversation that has not moved since its first page  *)
(* was read, whatever moved between the pages and whatever failed.         *)
THEOREM NothingIsSkipped == ListSpec => []PagesSkipNothing
<1>1. PagesInv => PagesSkipNothing
  BY DEF PagesInv, ListMissesNothing, PagesSkipNothing
<1> QED
  BY <1>1, PagesInvariant, PTL

-----------------------------------------------------------------------------
(***************************************************************************)
(* Arrays.                                                                 *)
(***************************************************************************)
(* The k-th number of a set is one of it, and each has its own k.          *)
LEMMA NthIsOne ==
  ASSUME NEW S \in SUBSET Nat, IsFiniteSet(S), NEW k \in 1 .. Cardinality(S)
  PROVE  /\ Nth(S, k) \in S
         /\ Cardinality({j \in S : j < Nth(S, k)}) = k - 1
<1> DEFINE Below(i) == {j \in S : j < i}
           rank == [i \in S |-> Cardinality(Below(i))]
           n == Cardinality(S)
           Ranks == 0 .. n - 1
<1>0. n \in Nat
  BY FS_CardinalityType
<1>1. ASSUME NEW i \in S
      PROVE  /\ IsFiniteSet(Below(i)) /\ Cardinality(Below(i)) \in Nat
             /\ Cardinality(Below(i)) < n
  <2>1. PICK B : B = Below(i)
    OBVIOUS
  <2>2. B \in SUBSET S /\ B # S
    BY <2>1
  <2>3. /\ IsFiniteSet(B) /\ Cardinality(B) <= Cardinality(S)
        /\ Cardinality(S) # Cardinality(B)
    BY <2>2, FS_Subset
  <2>4. Cardinality(B) \in Nat
    BY <2>3, FS_CardinalityType
  <2> QED
    BY <1>0, <2>1, <2>3, <2>4
<1>2. ASSUME NEW i \in S, NEW j \in S, i < j
      PROVE  Cardinality(Below(i)) # Cardinality(Below(j))
  <2>1. PICK B : B = Below(i)
    OBVIOUS
  <2>2. PICK C : C = Below(j)
    OBVIOUS
  <2>3. B \in SUBSET C /\ B # C
    <3>1. i \in C /\ i \notin B
      BY <1>2, <2>1, <2>2
    <3>2. \A l \in B : l \in S /\ l < i /\ l \in Nat /\ i \in Nat /\ j \in Nat
      BY <2>1
    <3>3. \A l \in B : l \in C
      BY <1>2, <2>2, <3>2
    <3> QED
      BY <3>1, <3>3
  <2>4. IsFiniteSet(C)
    BY <1>1, <2>2
  <2>5. Cardinality(B) # Cardinality(C)
    BY <2>3, <2>4, FS_Subset
  <2> QED
    BY <2>1, <2>2, <2>5
<1>3. rank \in Injection(S, Ranks)
  <2>1. rank \in [S -> Ranks]
    BY <1>0, <1>1
  <2>2. ASSUME NEW i \in S, NEW j \in S, rank[i] = rank[j] PROVE i = j
    <3>1. Cardinality(Below(i)) = Cardinality(Below(j))
      BY <2>2
    <3>2. i < j \/ j < i \/ i = j
      OBVIOUS
    <3> QED
      BY <1>2, <3>1, <3>2
  <2> QED
    BY <2>1, <2>2 DEF Injection, IsInjective
<1>4. IsFiniteSet(Ranks) /\ Cardinality(Ranks) = n
  <2>1. /\ 0 \in Int /\ n - 1 \in Int
        /\ (IF 0 > n - 1 THEN 0 ELSE (n - 1) - 0 + 1) = n
    BY <1>0
  <2> QED
    BY <2>1, FS_Interval
<1>5. rank \in Surjection(S, Ranks)
  <2> HIDE DEF rank, n, Ranks
  <2>1. Cardinality(S) = Cardinality(Ranks)
    BY <1>4 DEF n
  <2> QED
    BY <1>3, <1>4, <2>1, FS_Injection
<1>6. \E i \in S : Cardinality(Below(i)) = k - 1
  <2>1. k - 1 \in Ranks
    BY <1>0
  <2>2. \E i \in S : rank[i] = k - 1
    <3> HIDE DEF rank, Ranks
    <3> QED
      BY <1>5, <2>1 DEF Surjection
  <2> QED
    BY <2>2
<1> QED
  BY <1>6 DEF Nth

LEMMA NthsDiffer ==
  ASSUME NEW S \in SUBSET Nat, IsFiniteSet(S),
         NEW k \in 1 .. Cardinality(S), NEW l \in 1 .. Cardinality(S), Nth(S, k) = Nth(S, l)
  PROVE  k = l
<1>1. Cardinality(S) \in Nat
  BY FS_CardinalityType
<1>2. k - 1 = l - 1
  BY NthIsOne
<1> QED
  BY <1>1, <1>2

LEMMA FilteredFacts ==
  ASSUME NEW T, NEW s \in Seq(T), NEW kept \in SUBSET (DOMAIN s)
  PROVE  /\ Filtered(s, kept) \in Seq(T)
         /\ \A k \in DOMAIN Filtered(s, kept) :
              /\ Nth(kept, k) \in kept
              /\ Filtered(s, kept)[k] = s[Nth(kept, k)]
              /\ \A l \in DOMAIN Filtered(s, kept) : Nth(kept, k) = Nth(kept, l) => k = l
<1>1. /\ kept \in SUBSET Nat /\ IsFiniteSet(kept) /\ Cardinality(kept) \in Nat
  <2>1. IsFiniteSet(DOMAIN s) /\ DOMAIN s \subseteq Nat
    <3>1. DOMAIN s = 1 .. Len(s) /\ Len(s) \in Nat
      OBVIOUS
    <3> QED
      BY <3>1, FS_Interval
  <2> QED
    BY <2>1, FS_Subset, FS_CardinalityType
<1>2. \A k \in 1 .. Cardinality(kept) : Nth(kept, k) \in kept
  BY <1>1, NthIsOne
<1>3. Filtered(s, kept) = [k \in 1 .. Cardinality(kept) |-> s[Nth(kept, k)]]
  BY DEF Filtered
<1>4. \A k \in 1 .. Cardinality(kept) : s[Nth(kept, k)] \in T
  BY <1>2
<1>5. Filtered(s, kept) \in Seq(T)
  BY <1>1, <1>3, <1>4
<1> QED
  BY <1>1, <1>2, <1>3, <1>5, NthsDiffer

-----------------------------------------------------------------------------
(***************************************************************************)
(* CardItems.                                                              *)
(***************************************************************************)
LEMMA PositionFacts ==
  ASSUME NEW s \in Seq(Entries), NEW id
  PROVE  /\ Position(s, id) \in 0 .. Len(s)
         /\ Position(s, id) # 0 => s[Position(s, id)].id = id
         /\ Position(s, id) = 0 => \A j \in DOMAIN s : s[j].id # id
<1> DEFINE I == {j \in 1 .. Len(s) : s[j].id = id}
<1>1. Position(s, id) = IF I # {} THEN Min(I) ELSE 0
  BY DEF Position, SelectInSeq
<1>2. I # {} => Min(I) \in I
  <2>1. I \in SUBSET Nat
    OBVIOUS
  <2>2. I # {} => \E m \in I : \A n \in I : m <= n
    BY <2>1, LeastNatural
  <2> QED
    BY <2>2 DEF Min
<1> QED
  BY <1>1, <1>2

LEMMA RemoveAtFacts ==
  ASSUME NEW T, NEW s \in Seq(T), NEW x \in 1 .. Len(s)
  PROVE  /\ RemoveAt(s, x) \in Seq(T)
         /\ Len(RemoveAt(s, x)) = Len(s) - 1
         /\ \A j \in 1 .. Len(s) - 1 : RemoveAt(s, x)[j] = IF j < x THEN s[j] ELSE s[j + 1]
<1> DEFINE a == SubSeq(s, 1, x - 1)
           b == SubSeq(s, x + 1, Len(s))
<1>1. /\ a \in Seq(T) /\ Len(a) = x - 1
      /\ \A j \in 1 .. x - 1 : a[j] = s[j]
  <2>1. /\ 1 \in Int /\ x - 1 \in Int /\ \A j \in 1 .. x - 1 : s[j] \in T
        /\ (x - 1) - 1 + 1 = x - 1
        /\ (IF 1 <= x - 1 THEN (x - 1) - 1 + 1 ELSE 0) = x - 1
        /\ \A j \in 1 .. x - 1 : 1 + j - 1 = j
    OBVIOUS
  <2> QED
    BY <2>1, SubSeqProperties
<1>2. /\ b \in Seq(T) /\ Len(b) = Len(s) - x
      /\ \A j \in 1 .. Len(s) - x : b[j] = s[x + j]
  <2>1. PICK m : m = x + 1
    OBVIOUS
  <2>2. PICK n : n = Len(s)
    OBVIOUS
  <2>3. m \in Int /\ n \in Int /\ \A j \in m .. n : s[j] \in T
    BY <2>1, <2>2
  <2>4. /\ SubSeq(s, m, n) \in Seq(T)
        /\ Len(SubSeq(s, m, n)) = IF m <= n THEN n - m + 1 ELSE 0
        /\ \A j \in 1 .. n - m + 1 : SubSeq(s, m, n)[j] = s[m + j - 1]
    BY <2>3, SubSeqProperties
  <2>5. b = SubSeq(s, m, n)
    BY <2>1, <2>2
  <2> HIDE DEF b
  <2>6. /\ n - m + 1 = Len(s) - x /\ (IF m <= n THEN n - m + 1 ELSE 0) = Len(s) - x
        /\ \A j \in 1 .. Len(s) - x : m + j - 1 = x + j
    BY <2>1, <2>2
  <2> QED
    BY <2>4, <2>5, <2>6
<1>3. RemoveAt(s, x) = a \o b
  BY DEF RemoveAt
<1> HIDE DEF a, b
<1>4. /\ a \o b \in Seq(T) /\ Len(a \o b) = Len(a) + Len(b)
      /\ \A j \in 1 .. Len(a) + Len(b) : (a \o b)[j] = IF j <= Len(a) THEN a[j] ELSE b[j - Len(a)]
  BY <1>1, <1>2, ConcatProperties
<1>5. ASSUME NEW j \in 1 .. Len(s) - 1
      PROVE  (a \o b)[j] = IF j < x THEN s[j] ELSE s[j + 1]
  <2>1. CASE j < x
    BY <1>1, <1>2, <1>4, <2>1
  <2>2. CASE ~(j < x)
    <3>1. j - (x - 1) \in 1 .. Len(s) - x /\ x + (j - (x - 1)) = j + 1 /\ ~(j <= Len(a))
      BY <1>1, <2>2
    <3>2. b[j - (x - 1)] = s[j + 1]
      BY <1>2, <3>1
    <3> QED
      BY <1>1, <1>2, <1>4, <2>2, <3>1, <3>2
  <2> QED
    BY <2>1, <2>2
<1> QED
  BY <1>1, <1>2, <1>3, <1>4, <1>5

OneEach(s) == \A j, k \in DOMAIN s : s[j].id = s[k].id => j = k
MadeOf(s, t, e) == \A j \in DOMAIN s : s[j] = e \/ \E i \in DOMAIN t : s[j] = t[i]

LEMMA WithoutKeeps ==
  ASSUME NEW s \in Seq(Entries), OneEach(s), NEW id, NEW e
  PROVE  Without(s, id) \in Seq(Entries) /\ OneEach(Without(s, id)) /\ MadeOf(Without(s, id), s, e)
<1> DEFINE kept == {j \in DOMAIN s : s[j].id # id}
<1>1. kept \in SUBSET (DOMAIN s) /\ Without(s, id) = Filtered(s, kept)
  BY DEF Without
<1> HIDE DEF kept
<1>2. /\ Filtered(s, kept) \in Seq(Entries)
      /\ \A k \in DOMAIN Filtered(s, kept) :
              /\ Nth(kept, k) \in kept
              /\ Filtered(s, kept)[k] = s[Nth(kept, k)]
              /\ \A l \in DOMAIN Filtered(s, kept) : Nth(kept, k) = Nth(kept, l) => k = l
  BY <1>1, FilteredFacts
<1>3. OneEach(Filtered(s, kept))
  BY <1>1, <1>2 DEF OneEach
<1>4. MadeOf(Filtered(s, kept), s, e)
  BY <1>1, <1>2 DEF MadeOf
<1> QED
  BY <1>1, <1>2, <1>3, <1>4

(* The answered entry is in the list once, and every other is as it was.   *)
LEMMA ReplaceKeeps ==
  ASSUME NEW s \in Seq(Entries), OneEach(s), NEW e \in Entries, NEW optimistic
  PROVE  LET new == ReplaceByRequestItem(s, e, optimistic)
         IN  new \in Seq(Entries) /\ OneEach(new) /\ MadeOf(new, s, e)
<1>1. PICK o : o = Position(s, optimistic)
  OBVIOUS
<1>2. PICK x : x = Position(s, e.id)
  OBVIOUS
<1>3. PICK new : new = ReplaceByRequestItem(s, e, optimistic)
  OBVIOUS
<1>4. PICK at : at = IF o # 0 THEN o ELSE x
  OBVIOUS
<1>5. PICK replaced : replaced = [s EXCEPT ![at] = e]
  OBVIOUS
<1>6. new = IF at = 0 THEN Append(s, e)
            ELSE IF o # 0 /\ x \notin {0, o} THEN RemoveAt(replaced, x) ELSE replaced
  BY <1>1, <1>2, <1>3, <1>4, <1>5 DEF ReplaceByRequestItem
<1>7. /\ o \in 0 .. Len(s) /\ x \in 0 .. Len(s)
      /\ x # 0 => s[x].id = e.id
      /\ x = 0 => \A j \in DOMAIN s : s[j].id # e.id
  BY <1>1, <1>2, PositionFacts
<1>8. CASE at = 0
  <2>1. x = 0 /\ new = Append(s, e)
    BY <1>4, <1>6, <1>8
  <2>2. /\ new \in Seq(Entries) /\ Len(new) = Len(s) + 1 /\ new[Len(s) + 1] = e
        /\ \A j \in 1 .. Len(s) : new[j] = s[j]
    BY <2>1, AppendProperties
  <2>3. OneEach(new)
    BY <1>7, <2>1, <2>2 DEF OneEach
  <2>4. MadeOf(new, s, e)
    BY <2>2 DEF MadeOf
  <2> QED
    BY <1>3, <2>2, <2>3, <2>4
<1>9. CASE at # 0
  <2>1. at \in 1 .. Len(s)
    BY <1>4, <1>7, <1>9
  <2>2. /\ replaced \in Seq(Entries) /\ Len(replaced) = Len(s)
        /\ \A j \in 1 .. Len(s) : replaced[j] = IF j = at THEN e ELSE s[j]
    BY <1>5, <2>1
  <2>3. MadeOf(replaced, s, e)
    BY <2>2 DEF MadeOf
  <2>4. \A j, k \in 1 .. Len(s) : s[j].id = s[k].id => j = k
    BY DEF OneEach
  <2>5. \A j \in 1 .. Len(s) : s[j].id = e.id => j = x
    BY <1>7, <2>4
  <2>6. CASE o # 0 /\ x \notin {0, o}
    <3>1. x \in 1 .. Len(s) /\ x # at /\ Len(replaced) = Len(s)
      BY <1>4, <1>7, <2>2, <2>6
    <3>2. /\ new \in Seq(Entries) /\ Len(new) = Len(s) - 1
          /\ \A j \in 1 .. Len(s) - 1 : new[j] = IF j < x THEN replaced[j] ELSE replaced[j + 1]
      <4>1. new = RemoveAt(replaced, x)
        BY <1>6, <1>9, <2>6
      <4>2. replaced \in Seq(Entries) /\ x \in 1 .. Len(replaced)
        BY <2>2, <3>1
      <4> QED
        BY <3>1, <4>1, <4>2, RemoveAtFacts
    <3>3. PICK old : old = [j \in 1 .. Len(s) - 1 |-> IF j < x THEN j ELSE j + 1]
      OBVIOUS
    <3>4. /\ \A j \in 1 .. Len(s) - 1 :
               /\ old[j] \in 1 .. Len(s) /\ old[j] # x /\ new[j] = replaced[old[j]]
          /\ \A j, k \in 1 .. Len(s) - 1 : old[j] = old[k] => j = k
      <4>1. Len(s) \in Nat /\ x \in Nat
        BY <3>1, LenProperties
      <4>2. ASSUME NEW j \in 1 .. Len(s) - 1
            PROVE  /\ j \in Nat /\ old[j] = IF j < x THEN j ELSE j + 1
                   /\ old[j] \in 1 .. Len(s) /\ old[j] # x
        BY <3>1, <3>3, <4>1
      <4>3. ASSUME NEW j \in 1 .. Len(s) - 1 PROVE new[j] = replaced[old[j]]
        BY <3>2, <4>2
      <4>4. ASSUME NEW j \in 1 .. Len(s) - 1, NEW k \in 1 .. Len(s) - 1, old[j] = old[k]
            PROVE  j = k
        BY <4>1, <4>2, <4>4
      <4> QED
        BY <4>2, <4>3, <4>4
    <3>5. DOMAIN new = 1 .. Len(s) - 1 /\ DOMAIN replaced = 1 .. Len(s)
      BY <2>2, <3>2
    <3>6. OneEach(new)
      <4>1. ASSUME NEW j \in 1 .. Len(s) - 1, NEW k \in 1 .. Len(s) - 1, new[j].id = new[k].id
            PROVE  old[j] = old[k]
        <5>1. replaced[old[j]].id = replaced[old[k]].id
          BY <3>4, <4>1
        <5>2. \A l \in 1 .. Len(s) : l # x => (replaced[l].id = e.id <=> l = at)
          BY <2>2, <2>5
        <5>3. /\ old[j] \in 1 .. Len(s) /\ old[j] # x
              /\ old[k] \in 1 .. Len(s) /\ old[k] # x
          BY <3>4
        <5>4. CASE old[j] = at \/ old[k] = at
          BY <5>1, <5>2, <5>3, <5>4
        <5>5. CASE old[j] # at /\ old[k] # at
          <6>1. s[old[j]].id = s[old[k]].id
            BY <2>2, <5>1, <5>3, <5>5
          <6> QED
            BY <2>4, <5>3, <6>1
        <5> QED
          BY <5>4, <5>5
      <4> QED
        BY <3>4, <3>5, <4>1 DEF OneEach
    <3>7. MadeOf(new, s, e)
      BY <2>3, <3>4, <3>5 DEF MadeOf
    <3> QED
      BY <1>3, <3>2, <3>6, <3>7
  <2>7. CASE ~(o # 0 /\ x \notin {0, o})
    <3>1. new = replaced
      BY <1>6, <1>9, <2>7
    <3>2. \A j \in 1 .. Len(s) : s[j].id = e.id => j = at
      BY <1>4, <1>7, <2>5, <2>7
    <3>3. OneEach(replaced)
      BY <2>2, <2>4, <3>2 DEF OneEach
    <3> QED
      BY <1>3, <2>2, <2>3, <3>1, <3>3
  <2> QED
    BY <2>6, <2>7
<1> QED
  BY <1>8, <1>9

-----------------------------------------------------------------------------
ItemShapes == [state : {"none", "active", "deleted"}, author : People \union {NoPerson},
               body : Bodies \union {NoPerson}, deletedAt : 0 .. LastMs]
Wishes == [pc : {"none", "sent", "batch", "reread", "done", "refused", "over"},
           kind : {"create", "update", "delete"}, by : People \union {NoPerson},
           entry : Entries \union {NoEntry}, previous : Entries \union {NoEntry},
           now : 0 .. LastMs, open : BOOLEAN]

(* An id made by a client is that of a request that was sent.              *)
Started(id) == id \in ItemRequests => wish[id].pc # "none"

RowsAreSound ==
  /\ item \in [Items -> ItemShapes] /\ deletions \in [Items -> Nat]
  /\ IsFiniteSet(Active) /\ \A i \in Active : item[i].body \in Bodies
  /\ DeletionsAreAnnouncedOnce

(* What is on a screen: an id made by a client comes but once, because a   *)
(* request that has not begun is on no screen and in no other request.     *)
ListsAreSound ==
  /\ list \in [People -> Seq(Entries)]
  /\ \A p \in People : OneEach(list[p]) /\ \A j \in DOMAIN list[p] : Started(list[p][j].id)

(* A request under way has an author and an entry to show.                 *)
IsUnderWay(w) == w.pc \notin {"none", "over"}
HasEntries(w) ==
  /\ w.by \in People /\ w.entry \in Entries
  /\ w.kind = "update" => w.previous \in Entries

WishesAreSound ==
  /\ wish \in [ItemRequests -> Wishes]
  /\ \A r \in ItemRequests :
       /\ wish[r].open => IsUnderWay(wish[r])
       /\ IsUnderWay(wish[r]) =>
            /\ HasEntries(wish[r])
            /\ Started(wish[r].entry.id)
            /\ wish[r].kind = "update" => Started(wish[r].previous.id)

ItemInv ==
  /\ ms \in 0 .. LastMs
  /\ RowsAreSound
  /\ ListsAreSound
  /\ WishesAreSound

-----------------------------------------------------------------------------
LEMMA WithoutPerson ==
  /\ NoRequest \in Wishes /\ NoRequest.pc = "none" /\ ~NoRequest.open
  /\ NoItem \in ItemShapes /\ NoItem.state = "none" /\ LastMs \in Nat
BY ItemAssumption DEF NoRequest, Wishes, NoItem, ItemShapes, NoEntry

LEMMA InitItemInv == ItemInit => ItemInv
<1> SUFFICES ASSUME ItemInit PROVE ItemInv
  OBVIOUS
<1>1. Active = {} /\ IsFiniteSet(Active)
  <2>1. Active = {}
    BY WithoutPerson DEF ItemInit, Active
  <2> QED
    BY <2>1, FS_EmptySet
<1>2. RowsAreSound
  <2>1. item \in [Items -> ItemShapes] /\ deletions \in [Items -> Nat]
    BY WithoutPerson DEF ItemInit
  <2>2. DeletionsAreAnnouncedOnce
    BY WithoutPerson DEF ItemInit, DeletionsAreAnnouncedOnce
  <2> QED
    BY <1>1, <2>1, <2>2 DEF RowsAreSound
<1>3. ListsAreSound
  BY DEF ItemInit, ListsAreSound, OneEach
<1>4. WishesAreSound
  BY WithoutPerson DEF ItemInit, WishesAreSound, IsUnderWay
<1>5. ms \in 0 .. LastMs
  BY WithoutPerson DEF ItemInit
<1> QED
  BY <1>2, <1>3, <1>4, <1>5 DEF ItemInv

-----------------------------------------------------------------------------
(* A request that moves keeps what was begun begun.                        *)
LEMMA WishMoves ==
  ASSUME ItemInv, NEW r \in ItemRequests, NEW w \in Wishes, wish' = [wish EXCEPT ![r] = w],
         w.pc # "none", w.open => IsUnderWay(w),
         IsUnderWay(w) =>
           /\ HasEntries(w)
           /\ w.entry.id = r \/ Started(w.entry.id)
           /\ w.kind = "update" => Started(w.previous.id)
  PROVE  WishesAreSound' /\ Started(r)' /\ \A id : Started(id) => Started(id)'
<1>1. /\ wish' \in [ItemRequests -> Wishes] /\ wish'[r] = w
      /\ \A q \in ItemRequests : q # r => wish'[q] = wish[q]
  BY DEF ItemInv, WishesAreSound
<1>2. \A id : Started(id) => Started(id)'
  BY <1>1 DEF Started
<1>3. Started(r)'
  BY <1>1 DEF Started
<1>4. ASSUME NEW q \in ItemRequests, NEW x, x = wish'[q], IsUnderWay(x)
      PROVE  /\ HasEntries(x)
             /\ Started(x.entry.id)'
             /\ x.kind = "update" => Started(x.previous.id)'
  <2>1. CASE q = r
    <3>1. x = w
      BY <1>1, <1>4, <2>1
    <3> QED
      BY <1>2, <1>3, <1>4, <3>1
  <2>2. CASE q # r
    <3>1. x = wish[q]
      BY <1>1, <1>4, <2>2
    <3>2. HasEntries(x) /\ Started(x.entry.id) /\ (x.kind = "update" => Started(x.previous.id))
      BY <1>4, <3>1 DEF ItemInv, WishesAreSound
    <3> QED
      BY <1>2, <3>2
  <2> QED
    BY <2>1, <2>2
<1>5. ASSUME NEW q \in ItemRequests, wish'[q].open PROVE IsUnderWay(wish'[q])
  BY <1>1, <1>5 DEF ItemInv, WishesAreSound, IsUnderWay
<1>6. ASSUME NEW q \in ItemRequests, IsUnderWay(wish'[q])
      PROVE  /\ HasEntries(wish'[q])
             /\ wish'[q].entry.id \in ItemRequests => wish'[wish'[q].entry.id].pc # "none"
             /\ wish'[q].kind = "update" =>
                  (wish'[q].previous.id \in ItemRequests => wish'[wish'[q].previous.id].pc # "none")
  <2> PICK x : x = wish'[q]
    OBVIOUS
  <2>1. IsUnderWay(x)
    BY <1>6
  <2>2. HasEntries(x) /\ Started(x.entry.id)' /\ (x.kind = "update" => Started(x.previous.id)')
    BY <1>4, <2>1
  <2> QED
    BY <2>2 DEF Started
<1>7. WishesAreSound'
  BY <1>1, <1>5, <1>6 DEF WishesAreSound, IsUnderWay, HasEntries, Started
<1> QED
  BY <1>2, <1>3, <1>7

LEMMA ListsStay ==
  ASSUME ItemInv, UNCHANGED list, \A id : Started(id) => Started(id)'
  PROVE  ListsAreSound'
<1>1. ASSUME NEW p \in People, NEW j \in DOMAIN list[p] PROVE Started(list[p][j].id)'
  BY DEF ItemInv, ListsAreSound
<1> QED
  BY <1>1 DEF ItemInv, ListsAreSound, OneEach

LEMMA ListMoves ==
  ASSUME ItemInv, NEW p \in People, NEW s \in Seq(Entries), list' = [list EXCEPT ![p] = s],
         OneEach(s), \A j \in DOMAIN s : Started(s[j].id)',
         \A id : Started(id) => Started(id)'
  PROVE  ListsAreSound'
<1>1. /\ list' \in [People -> Seq(Entries)] /\ list'[p] = s
      /\ \A q \in People : q # p => list'[q] = list[q]
  BY DEF ItemInv, ListsAreSound
<1>2. ASSUME NEW q \in People, NEW t, t = list'[q]
      PROVE  OneEach(t) /\ \A j \in DOMAIN t : Started(t[j].id)'
  <2>1. CASE q = p
    BY <1>1, <1>2, <2>1
  <2>2. CASE q # p
    <3>1. t = list[q]
      BY <1>1, <1>2, <2>2
    <3>2. OneEach(t) /\ \A j \in DOMAIN t : Started(t[j].id)
      BY <3>1 DEF ItemInv, ListsAreSound
    <3> QED
      BY <3>2
  <2> QED
    BY <2>1, <2>2
<1>3. ASSUME NEW q \in People
      PROVE  /\ OneEach(list'[q])
             /\ \A j \in DOMAIN list'[q] :
                  list'[q][j].id \in ItemRequests => wish'[list'[q][j].id].pc # "none"
  <2> PICK t : t = list'[q]
    OBVIOUS
  <2>1. OneEach(t) /\ \A j \in DOMAIN t : Started(t[j].id)'
    BY <1>2
  <2> QED
    BY <2>1 DEF Started
<1> QED
  BY <1>1, <1>3 DEF ListsAreSound, OneEach, Started

LEMMA RowsStay == ASSUME ItemInv, UNCHANGED <<item, deletions>> PROVE RowsAreSound'
BY DEF ItemInv, RowsAreSound, Active, DeletionsAreAnnouncedOnce

(* The server's and the client's part of a request that goes on.           *)
LEMMA ServerMoves ==
  ASSUME ItemInv, NEW r \in ItemRequests, NEW w \in Wishes, wish' = [wish EXCEPT ![r] = w],
         w.pc # "none", w.open => IsUnderWay(w),
         IsUnderWay(w) => /\ HasEntries(w)
                          /\ Started(w.entry.id)
                          /\ w.kind = "update" => Started(w.previous.id),
         UNCHANGED <<ms, list>>, RowsAreSound'
  PROVE  ItemInv'
<1>1. WishesAreSound' /\ \A id : Started(id) => Started(id)'
  BY WishMoves
<1>2. ListsAreSound'
  BY <1>1, ListsStay
<1> QED
  BY <1>1, <1>2 DEF ItemInv

LEMMA ClientMoves ==
  ASSUME ItemInv, NEW r \in ItemRequests, NEW w \in Wishes, wish' = [wish EXCEPT ![r] = w],
         w.pc # "none", w.open => IsUnderWay(w),
         IsUnderWay(w) => /\ HasEntries(w)
                          /\ w.entry.id = r \/ Started(w.entry.id)
                          /\ w.kind = "update" => Started(w.previous.id),
         NEW p \in People, NEW s \in Seq(Entries), list' = [list EXCEPT ![p] = s], OneEach(s),
         \A j \in DOMAIN s : s[j].id = r \/ Started(s[j].id),
         UNCHANGED <<ms, item, deletions>>
  PROVE  ItemInv'
<1>1. WishesAreSound' /\ Started(r)' /\ \A id : Started(id) => Started(id)'
  BY WishMoves
<1>2. \A j \in DOMAIN s : Started(s[j].id)'
  BY <1>1
<1>3. ListsAreSound'
  BY <1>1, <1>2, ListMoves
<1>4. RowsAreSound'
  BY RowsStay
<1> QED
  BY <1>1, <1>3, <1>4 DEF ItemInv

LEMMA WishFacts ==
  ASSUME ItemInv, NEW r \in ItemRequests
  PROVE  /\ wish[r] \in Wishes /\ ms \in 0 .. LastMs
         /\ wish[r].open => IsUnderWay(wish[r])
         /\ IsUnderWay(wish[r]) =>
              /\ HasEntries(wish[r]) /\ Started(wish[r].entry.id)
              /\ wish[r].kind = "update" => Started(wish[r].previous.id)
BY DEF ItemInv, WishesAreSound

LEMMA ListFacts ==
  ASSUME ItemInv, NEW p \in People
  PROVE  /\ list[p] \in Seq(Entries) /\ OneEach(list[p])
         /\ \A j \in DOMAIN list[p] : list[p][j] \in Entries /\ Started(list[p][j].id)
BY DEF ItemInv, ListsAreSound

-----------------------------------------------------------------------------
LEMMA CreateOptimisticallyKeeps ==
  ASSUME ItemInv, NEW p \in People, NEW r \in ItemRequests, NEW b \in Bodies,
         CreateItemOptimistically(p, r, b)
  PROVE  ItemInv'
<1>1. PICK entry : entry = [id |-> r, body |-> b]
  OBVIOUS
<1>2. PICK w : w = [NoRequest EXCEPT !.pc = "sent", !.by = p, !.entry = entry, !.open = TRUE]
  OBVIOUS
<1>3. PICK s : s = Append(list[p], entry)
  OBVIOUS
<1>4. /\ wish[r].pc = "none" /\ list' = [list EXCEPT ![p] = s]
      /\ wish' = [wish EXCEPT ![r] = w] /\ UNCHANGED <<ms, item, deletions>>
  BY <1>1, <1>2, <1>3, WithoutPerson DEF CreateItemOptimistically
<1>5. entry \in Entries /\ entry.id = r
  BY <1>1 DEF Entries
<1>6. w \in Wishes /\ w.pc = "sent" /\ w.by = p /\ w.entry = entry /\ w.kind = "create"
  BY <1>2, <1>5, WithoutPerson DEF Wishes, NoRequest
<1>7. /\ s \in Seq(Entries) /\ Len(s) = Len(list[p]) + 1 /\ s[Len(list[p]) + 1] = entry
      /\ \A j \in 1 .. Len(list[p]) : s[j] = list[p][j]
  BY <1>3, <1>5, ListFacts, AppendProperties
<1>8. \A j \in 1 .. Len(list[p]) : Started(list[p][j].id) /\ list[p][j].id # r
  BY <1>4, ListFacts DEF Started
<1>9. OneEach(s)
  <2>1. DOMAIN s = 1 .. Len(list[p]) + 1 /\ Len(list[p]) \in Nat
    BY <1>7, ListFacts
  <2>2. \A j, k \in 1 .. Len(list[p]) : s[j].id = s[k].id => j = k
    BY <1>7, ListFacts DEF OneEach
  <2>3. \A j \in 1 .. Len(list[p]) : s[j].id # s[Len(list[p]) + 1].id
    BY <1>5, <1>7, <1>8
  <2> QED
    BY <2>1, <2>2, <2>3 DEF OneEach
<1>10. \A j \in DOMAIN s : s[j].id = r \/ Started(s[j].id)
  BY <1>5, <1>7, <1>8
<1>11. IsUnderWay(w) /\ HasEntries(w)
  BY <1>5, <1>6 DEF IsUnderWay, HasEntries
<1> QED
  BY <1>4, <1>5, <1>6, <1>7, <1>9, <1>10, <1>11, ClientMoves

LEMMA UpdateOptimisticallyKeeps ==
  ASSUME ItemInv, NEW p \in People, NEW r \in ItemRequests, NEW k \in DOMAIN list[p],
         NEW b \in Bodies, UpdateItemOptimistically(p, r, k, b)
  PROVE  ItemInv'
<1>1. PICK previous : previous = list[p][k]
  OBVIOUS
<1>2. PICK entry : entry = [previous EXCEPT !.body = b]
  OBVIOUS
<1>3. PICK w : w = [NoRequest EXCEPT !.pc = "sent", !.kind = "update", !.by = p, !.entry = entry,
                                     !.previous = previous, !.open = TRUE]
  OBVIOUS
<1>4. PICK s : s = [list[p] EXCEPT ![k] = entry]
  OBVIOUS
<1>5. /\ wish' = [wish EXCEPT ![r] = w] /\ UNCHANGED <<ms, item, deletions>>
      /\ list' = [list EXCEPT ![p] = s]
  BY <1>1, <1>2, <1>3, <1>4 DEF UpdateItemOptimistically, ItemInv, ListsAreSound
<1>6. previous \in Entries /\ entry \in Entries /\ entry.id = previous.id /\ Started(previous.id)
  BY <1>1, <1>2, ListFacts DEF Entries
<1>7. /\ w \in Wishes /\ w.pc = "sent" /\ w.by = p /\ w.entry = entry /\ w.kind = "update"
      /\ w.previous = previous
  BY <1>3, <1>6, WithoutPerson DEF Wishes, NoRequest
<1>8. /\ s \in Seq(Entries) /\ DOMAIN s = DOMAIN list[p]
      /\ \A j \in DOMAIN s : s[j].id = list[p][j].id
  BY <1>1, <1>4, <1>6, ListFacts
<1>9. OneEach(s) /\ \A j \in DOMAIN s : Started(s[j].id)
  BY <1>8, ListFacts DEF OneEach
<1>10. IsUnderWay(w) /\ HasEntries(w) /\ Started(w.entry.id)
  BY <1>6, <1>7 DEF IsUnderWay, HasEntries
<1> QED
  BY <1>5, <1>6, <1>7, <1>8, <1>9, <1>10, ClientMoves

LEMMA StartDeleteKeeps ==
  ASSUME ItemInv, NEW p \in People, NEW r \in ItemRequests, NEW k \in DOMAIN list[p],
         StartDelete(p, r, k)
  PROVE  ItemInv'
<1>1. PICK entry : entry = list[p][k]
  OBVIOUS
<1>2. PICK w : w = [NoRequest EXCEPT !.pc = "sent", !.kind = "delete", !.by = p,
                                     !.entry = entry, !.open = TRUE]
  OBVIOUS
<1>3. /\ wish' = [wish EXCEPT ![r] = w] /\ UNCHANGED <<ms, item, list, deletions>>
  BY <1>1, <1>2 DEF StartDelete
<1>4. entry \in Entries /\ Started(entry.id)
  BY <1>1, ListFacts
<1>5. w \in Wishes /\ w.pc = "sent" /\ w.by = p /\ w.entry = entry /\ w.kind = "delete"
  BY <1>2, <1>4, WithoutPerson DEF Wishes, NoRequest
<1>6. IsUnderWay(w) /\ HasEntries(w)
  BY <1>4, <1>5 DEF IsUnderWay, HasEntries
<1> QED
  BY <1>3, <1>4, <1>5, <1>6, RowsStay, ServerMoves

LEMMA ReloadItemsKeeps ==
  ASSUME ItemInv, NEW p \in People, ReloadItems(p)
  PROVE  ItemInv'
<1>0. /\ Active \in SUBSET Nat /\ IsFiniteSet(Active) /\ Cardinality(Active) \in Nat
      /\ Active \subseteq Items /\ \A i \in Active : item[i].body \in Bodies
  BY ItemAssumption, FS_CardinalityType DEF ItemInv, RowsAreSound, Active
<1>1. PICK s : s = [k \in 1 .. Cardinality(Active) |->
                      [id |-> Nth(Active, k), body |-> item[Nth(Active, k)].body]]
  OBVIOUS
<1>2. list' = [list EXCEPT ![p] = s] /\ UNCHANGED <<ms, item, wish, deletions>>
  BY <1>1 DEF ReloadItems
<1>3. \A k \in 1 .. Cardinality(Active) : Nth(Active, k) \in Active
  BY <1>0, NthIsOne
<1>4. \A k \in 1 .. Cardinality(Active) :
        [id |-> Nth(Active, k), body |-> item[Nth(Active, k)].body] \in Entries
  BY <1>0, <1>3 DEF Entries
<1>5. /\ s \in Seq(Entries) /\ DOMAIN s = 1 .. Cardinality(Active)
      /\ \A k \in DOMAIN s : s[k].id = Nth(Active, k)
  BY <1>0, <1>1, <1>4
<1>6. OneEach(s)
  BY <1>0, <1>5, NthsDiffer DEF OneEach
<1>7. \A k \in DOMAIN s : Started(s[k].id)'
  BY <1>0, <1>3, <1>5, ItemAssumption DEF Started
<1>8. \A id : Started(id) => Started(id)'
  BY <1>2 DEF Started
<1>9. ListsAreSound' /\ RowsAreSound'
  BY <1>2, <1>5, <1>6, <1>7, <1>8, ListMoves, RowsStay
<1>10. WishesAreSound'
  BY <1>2 DEF ItemInv, WishesAreSound, Started
<1> QED
  BY <1>2, <1>9, <1>10 DEF ItemInv
-----------------------------------------------------------------------------
(* A request that goes on keeps its author and its kind.                   *)
LEMMA GoesOn ==
  ASSUME ItemInv, NEW r \in ItemRequests, IsUnderWay(wish[r]), NEW w \in Wishes, IsUnderWay(w),
         w.kind = wish[r].kind, w.by = wish[r].by, w.previous = wish[r].previous,
         w.entry \in Entries, Started(w.entry.id), wish' = [wish EXCEPT ![r] = w],
         UNCHANGED <<ms, list>>, RowsAreSound'
  PROVE  ItemInv'
<1>1. HasEntries(w) /\ (w.kind = "update" => Started(w.previous.id))
  BY WishFacts DEF HasEntries
<1>2. w.pc # "none"
  BY DEF IsUnderWay
<1> QED
  BY <1>1, <1>2, ServerMoves

LEMMA RowMoves ==
  ASSUME ItemInv, NEW i \in Items, NEW row \in ItemShapes, item' = [item EXCEPT ![i] = row],
         row.state = "active" => row.body \in Bodies,
         NEW d, d = (IF row.state = "deleted" THEN 1 ELSE 0),
         deletions' = [deletions EXCEPT ![i] = d]
  PROVE  RowsAreSound'
<1>1. /\ item' \in [Items -> ItemShapes] /\ item'[i] = row
      /\ \A j \in Items : j # i => item'[j] = item[j]
  BY DEF ItemInv, RowsAreSound
<1>2. /\ deletions' \in [Items -> Nat] /\ deletions'[i] = d
      /\ \A j \in Items : j # i => deletions'[j] = deletions[j]
  BY DEF ItemInv, RowsAreSound
<1>3. IsFiniteSet(Active')
  <2>1. IsFiniteSet(Active \union {i})
    BY FS_AddElement DEF ItemInv, RowsAreSound
  <2>2. Active' \subseteq Active \union {i}
    BY <1>1 DEF Active
  <2> QED
    BY <2>1, <2>2, FS_Subset
<1>4. \A j \in Active' : item'[j].body \in Bodies
  BY <1>1 DEF ItemInv, RowsAreSound, Active
<1>5. DeletionsAreAnnouncedOnce'
  BY <1>1, <1>2 DEF ItemInv, RowsAreSound, DeletionsAreAnnouncedOnce
<1> QED
  BY <1>1, <1>2, <1>3, <1>4, <1>5 DEF RowsAreSound

(* What a committed statement does to its request.                         *)
LEMMA CommittedMoves ==
  ASSUME ItemInv, NEW r \in ItemRequests, wish[r].pc = "batch", NEW i \in Items, Committed(r, i),
         UNCHANGED <<ms, list>>, RowsAreSound'
  PROVE  ItemInv'
<1>1. PICK pc : pc = IF i \in Notes THEN "reread" ELSE "done"
  OBVIOUS
<1>2. PICK old : old = wish[r]
  OBVIOUS
<1>3. PICK entry : entry = [old.entry EXCEPT !.id = i]
  OBVIOUS
<1>4. PICK w : w = [[old EXCEPT !.pc = pc] EXCEPT !.entry = entry]
  OBVIOUS
<1>5. IsUnderWay(old) /\ old \in Wishes /\ old.entry \in Entries
  BY <1>2, WishFacts DEF IsUnderWay, HasEntries
<1>6. entry \in Entries /\ entry.id = i /\ Started(i)
  BY <1>3, <1>5, ItemAssumption DEF Entries, Started
<1>7. /\ w \in Wishes /\ w.pc = pc /\ w.entry = entry
      /\ w.kind = old.kind /\ w.by = old.by /\ w.previous = old.previous
  BY <1>1, <1>4, <1>5, <1>6 DEF Wishes
<1>8. wish' = [wish EXCEPT ![r] = w]
  BY <1>1, <1>2, <1>3, <1>4, <1>5 DEF Committed, ItemInv, WishesAreSound, Wishes
<1>9. IsUnderWay(w)
  BY <1>1, <1>7 DEF IsUnderWay
<1> QED
  BY <1>2, <1>5, <1>6, <1>7, <1>8, <1>9, GoesOn

LEMMA PcMoves ==
  ASSUME ItemInv, NEW r \in ItemRequests, IsUnderWay(wish[r]),
         NEW pc \in {"batch", "reread", "done", "refused"},
         wish' = [wish EXCEPT ![r].pc = pc], UNCHANGED <<ms, list>>, RowsAreSound'
  PROVE  ItemInv'
<1>1. PICK w : w = [wish[r] EXCEPT !.pc = pc]
  OBVIOUS
<1>2. wish[r] \in Wishes /\ wish[r].entry \in Entries /\ Started(wish[r].entry.id)
  BY WishFacts DEF HasEntries
<1>3. /\ w \in Wishes /\ w.pc = pc /\ w.entry = wish[r].entry /\ w.kind = wish[r].kind
      /\ w.by = wish[r].by /\ w.previous = wish[r].previous
  BY <1>1, <1>2 DEF Wishes
<1>4. wish' = [wish EXCEPT ![r] = w] /\ IsUnderWay(w)
  BY <1>1, <1>3 DEF IsUnderWay
<1> QED
  BY <1>2, <1>3, <1>4, GoesOn

LEMMA AdmitKeeps ==
  ASSUME ItemInv, NEW r \in ItemRequests, AdmitItemRequest(r)
  PROVE  ItemInv'
<1>1. PICK w : w = [[wish[r] EXCEPT !.pc = "batch"] EXCEPT !.now = ms]
  OBVIOUS
<1>2. IsUnderWay(wish[r])
  BY DEF AdmitItemRequest, IsUnderWay
<1>3. wish[r] \in Wishes /\ wish[r].entry \in Entries /\ Started(wish[r].entry.id) /\ ms \in 0 .. LastMs
  BY <1>2, WishFacts DEF HasEntries
<1>4. /\ w \in Wishes /\ w.pc = "batch" /\ w.entry = wish[r].entry /\ w.kind = wish[r].kind
      /\ w.by = wish[r].by /\ w.previous = wish[r].previous
  BY <1>1, <1>3 DEF Wishes
<1>5. wish' = [wish EXCEPT ![r] = w] /\ UNCHANGED <<ms, item, list, deletions>>
  BY <1>1, <1>3 DEF AdmitItemRequest, ItemInv, WishesAreSound, Wishes
<1>6. IsUnderWay(w)
  BY <1>4 DEF IsUnderWay
<1> QED
  BY <1>2, <1>3, <1>4, <1>5, <1>6, RowsStay, GoesOn

LEMMA CreateItemKeeps ==
  ASSUME ItemInv, NEW r \in ItemRequests, NEW i \in Items, CreateItem(r, i)
  PROVE  ItemInv'
<1>1. PICK row : row = [NoItem EXCEPT !.state = "active", !.author = wish[r].by,
                                      !.body = wish[r].entry.body]
  OBVIOUS
<1>2. /\ wish[r].pc = "batch" /\ item[i].state = "none" /\ item' = [item EXCEPT ![i] = row]
      /\ Committed(r, i) /\ UNCHANGED <<ms, list, deletions>>
  BY <1>1 DEF CreateItem
<1>3. wish[r].by \in People /\ wish[r].entry.body \in Bodies
  BY <1>2, WishFacts DEF IsUnderWay, HasEntries, Entries
<1>4. row \in ItemShapes /\ row.state = "active" /\ row.body \in Bodies
  BY <1>1, <1>3, WithoutPerson DEF NoItem, ItemShapes
<1>5. deletions[i] = 0 /\ deletions' = [deletions EXCEPT ![i] = 0]
  BY <1>2 DEF ItemInv, RowsAreSound, DeletionsAreAnnouncedOnce
<1>6. RowsAreSound'
  BY <1>2, <1>4, <1>5, RowMoves
<1> QED
  BY <1>2, <1>6, CommittedMoves

LEMMA ChangeableFacts ==
  ASSUME ItemInv, NEW r, NEW i, Changeable(r, i)
  PROVE  /\ i \in Items /\ item[i] \in ItemShapes /\ item[i].state = "active"
         /\ item[i].body \in Bodies /\ deletions[i] = 0 /\ deletions \in [Items -> Nat]
BY DEF Changeable, Active, ItemInv, RowsAreSound, DeletionsAreAnnouncedOnce

LEMMA UpdateItemKeeps ==
  ASSUME ItemInv, NEW r \in ItemRequests, UpdateItem(r)
  PROVE  ItemInv'
<1>1. PICK i : i = wish[r].entry.id
  OBVIOUS
<1>2. wish[r].pc = "batch" /\ UNCHANGED <<ms, list, deletions>> /\ IsUnderWay(wish[r])
  BY DEF UpdateItem, IsUnderWay
<1>3. CASE Changeable(r, i)
  <2>1. PICK row : row = [item[i] EXCEPT !.body = wish[r].entry.body]
    OBVIOUS
  <2>2. item' = [item EXCEPT ![i] = row] /\ Committed(r, i)
    BY <1>1, <1>3, <2>1 DEF UpdateItem
  <2>3. wish[r].entry.body \in Bodies
    BY <1>2, WishFacts DEF HasEntries, Entries
  <2>4. /\ i \in Items /\ item[i] \in ItemShapes /\ item[i].state = "active"
        /\ deletions[i] = 0 /\ deletions \in [Items -> Nat]
    BY <1>3, ChangeableFacts
  <2>5. row \in ItemShapes /\ row.state = "active" /\ row.body \in Bodies
    BY <2>1, <2>3, <2>4 DEF ItemShapes
  <2>6. deletions' = [deletions EXCEPT ![i] = 0]
    BY <1>2, <2>4
  <2>7. RowsAreSound'
    BY <2>2, <2>4, <2>5, <2>6, RowMoves
  <2> QED
    BY <1>2, <2>2, <2>4, <2>7, CommittedMoves
<1>4. CASE ~Changeable(r, i)
  BY <1>1, <1>2, <1>4, RowsStay, PcMoves DEF UpdateItem, Refused
<1> QED
  BY <1>3, <1>4

LEMMA DeleteItemKeeps ==
  ASSUME ItemInv, NEW r \in ItemRequests, DeleteItem(r)
  PROVE  ItemInv'
<1>1. PICK i : i = wish[r].entry.id
  OBVIOUS
<1>2. wish[r].pc = "batch" /\ UNCHANGED <<ms, list>> /\ IsUnderWay(wish[r])
  BY DEF DeleteItem, IsUnderWay
<1>3. wish[r].now \in 0 .. LastMs
  BY WishFacts DEF Wishes
<1>4. CASE Changeable(r, i)
  <2>1. PICK row : row = [item[i] EXCEPT !.state = "deleted", !.deletedAt = wish[r].now]
    OBVIOUS
  <2>2. /\ i \in Items /\ item[i] \in ItemShapes /\ deletions[i] = 0 /\ deletions \in [Items -> Nat]
    BY <1>4, ChangeableFacts
  <2>3. /\ row \in ItemShapes /\ row.state = "deleted" /\ row.author = item[i].author
        /\ row.deletedAt = wish[r].now
    BY <1>3, <2>1, <2>2 DEF ItemShapes
  <2>4. DeletionPublished(r, i, row)
    BY <1>4, <2>2, <2>3 DEF DeletionPublished, Changeable
  <2>5. /\ item' = [item EXCEPT ![i] = row] /\ deletions' = [deletions EXCEPT ![i] = 1]
        /\ wish' = [wish EXCEPT ![r].pc = "done"]
    BY <1>1, <1>4, <2>1, <2>2, <2>4 DEF DeleteItem
  <2>6. RowsAreSound'
    BY <2>2, <2>3, <2>5, RowMoves
  <2> QED
    BY <1>2, <2>5, <2>6, PcMoves
<1>5. CASE ~Changeable(r, i)
  <2>1. PICK row : row = IF i \in Items THEN item[i] ELSE NoItem
    OBVIOUS
  <2>2. ~DeletionPublished(r, i, row)
    BY <2>1 DEF DeletionPublished, ItemInv, RowsAreSound, DeletionsAreAnnouncedOnce
  <2>3. UNCHANGED <<item, deletions>> /\ wish' = [wish EXCEPT ![r].pc = "refused"]
    BY <1>1, <1>5, <2>1, <2>2 DEF DeleteItem
  <2> QED
    BY <1>2, <2>3, RowsStay, PcMoves
<1> QED
  BY <1>4, <1>5

LEMMA RereadNoteKeeps ==
  ASSUME ItemInv, NEW r \in ItemRequests, RereadNote(r)
  PROVE  ItemInv'
<1>1. PICK i : i = wish[r].entry.id
  OBVIOUS
<1>2. wish[r].pc = "reread" /\ UNCHANGED <<ms, item, list, deletions>> /\ IsUnderWay(wish[r])
  BY DEF RereadNote, IsUnderWay
<1>3. RowsAreSound'
  BY <1>2, RowsStay
<1>4. CASE i \in Active
  <2>1. PICK old : old = wish[r]
    OBVIOUS
  <2>2. PICK entry : entry = [old.entry EXCEPT !.body = item[i].body]
    OBVIOUS
  <2>3. PICK w : w = [[old EXCEPT !.pc = "done"] EXCEPT !.entry = entry]
    OBVIOUS
  <2>4. old \in Wishes /\ old.entry \in Entries /\ Started(old.entry.id)
    BY <1>2, <2>1, WishFacts DEF HasEntries
  <2>5. entry \in Entries /\ entry.id = old.entry.id
    BY <1>4, <2>2, <2>4 DEF ItemInv, RowsAreSound, Entries
  <2>6. /\ w \in Wishes /\ w.pc = "done" /\ w.entry = entry
        /\ w.kind = old.kind /\ w.by = old.by /\ w.previous = old.previous
    BY <2>3, <2>4, <2>5 DEF Wishes
  <2>7. wish' = [wish EXCEPT ![r] = w]
    <3>1. wish \in [ItemRequests -> Wishes]
      BY DEF ItemInv, WishesAreSound
    <3>2. wish' = [wish EXCEPT ![r].pc = "done", ![r].entry.body = item[i].body]
      BY <1>1, <1>4 DEF RereadNote
    <3> QED
      BY <2>1, <2>2, <2>3, <2>4, <3>1, <3>2 DEF Wishes
  <2>8. IsUnderWay(w)
    BY <2>6 DEF IsUnderWay
  <2> QED
    BY <1>2, <1>3, <2>1, <2>4, <2>5, <2>6, <2>7, <2>8, GoesOn
<1>5. CASE i \notin Active
  BY <1>1, <1>2, <1>3, <1>5, PcMoves DEF RereadNote
<1> QED
  BY <1>4, <1>5

-----------------------------------------------------------------------------
LEMMA OverFacts ==
  ASSUME NEW w, w = [NoRequest EXCEPT !.pc = "over"]
  PROVE  w \in Wishes /\ w.pc = "over" /\ ~w.open /\ ~IsUnderWay(w)
BY WithoutPerson DEF NoRequest, Wishes, IsUnderWay

LEMMA SucceededKeeps ==
  ASSUME ItemInv, NEW r \in ItemRequests, ItemRequestSucceeded(r)
  PROVE  ItemInv'
<1>1. PICK p : p = wish[r].by
  OBVIOUS
<1>2. PICK entry : entry = wish[r].entry
  OBVIOUS
<1>3. PICK old : old = list[p]
  OBVIOUS
<1>4. PICK optimistic : optimistic = IF wish[r].kind = "create" THEN r ELSE NoPerson
  OBVIOUS
<1>5. PICK s : s = IF wish[r].kind = "delete" THEN Without(old, entry.id)
                   ELSE ReplaceByRequestItem(old, entry, optimistic)
  OBVIOUS
<1>6. PICK w : w = [NoRequest EXCEPT !.pc = "over"]
  OBVIOUS
<1>7. p \in People /\ entry \in Entries /\ Started(entry.id)
  BY <1>1, <1>2, WishFacts DEF ItemRequestSucceeded, HasEntries
<1>8. old \in Seq(Entries) /\ OneEach(old) /\ \A j \in DOMAIN old : Started(old[j].id)
  BY <1>3, <1>7, ListFacts
<1>9. s \in Seq(Entries) /\ OneEach(s) /\ MadeOf(s, old, entry)
  BY <1>5, <1>7, <1>8, WithoutKeeps, ReplaceKeeps
<1>10. \A j \in DOMAIN s : Started(s[j].id)
  BY <1>7, <1>8, <1>9 DEF MadeOf
<1>11. /\ list' = [list EXCEPT ![p] = s] /\ wish' = [wish EXCEPT ![r] = w]
       /\ UNCHANGED <<ms, item, deletions>>
  BY <1>1, <1>2, <1>3, <1>4, <1>5, <1>6 DEF ItemRequestSucceeded, RequestOver
<1>12. w \in Wishes /\ w.pc # "none" /\ ~w.open /\ ~IsUnderWay(w)
  BY <1>6, OverFacts
<1> QED
  BY <1>7, <1>9, <1>10, <1>11, <1>12, ClientMoves

LEMMA FailedKeeps ==
  ASSUME ItemInv, NEW r \in ItemRequests, ItemRequestFailed(r)
  PROVE  ItemInv'
<1>1. PICK p : p = wish[r].by
  OBVIOUS
<1>2. PICK old : old = list[p]
  OBVIOUS
<1>3. PICK kind : kind = wish[r].kind
  OBVIOUS
<1>4. PICK previous : previous = wish[r].previous
  OBVIOUS
<1>5. PICK s : s = CASE kind = "create" -> Without(old, r)
                     [] kind = "update" -> ReplaceByRequestItem(old, previous, NoPerson)
                     [] OTHER -> old
  OBVIOUS
<1>6. PICK w : w = IF wish[r].pc = "refused" THEN [NoRequest EXCEPT !.pc = "over"]
                   ELSE [wish[r] EXCEPT !.open = FALSE]
  OBVIOUS
<1>7. /\ IsUnderWay(wish[r]) /\ wish[r] \in Wishes /\ HasEntries(wish[r])
      /\ Started(wish[r].entry.id) /\ (kind = "update" => Started(previous.id))
      /\ p \in People /\ (kind = "update" => previous \in Entries)
  BY <1>1, <1>3, <1>4, WishFacts DEF ItemRequestFailed, HasEntries
<1>8. old \in Seq(Entries) /\ OneEach(old) /\ \A j \in DOMAIN old : Started(old[j].id)
  BY <1>2, <1>7, ListFacts
<1>9. s \in Seq(Entries) /\ OneEach(s) /\ \A j \in DOMAIN s : Started(s[j].id)
  <2>1. CASE kind = "create"
    <3>1. s = Without(old, r)
      BY <1>5, <2>1
    <3>2. PICK e : e = wish[r].entry
      OBVIOUS
    <3>3. s \in Seq(Entries) /\ OneEach(s) /\ MadeOf(s, old, e)
      BY <1>8, <3>1, WithoutKeeps
    <3> QED
      BY <1>7, <1>8, <3>2, <3>3 DEF MadeOf
  <2>2. CASE kind = "update"
    <3>1. s = ReplaceByRequestItem(old, previous, NoPerson)
      BY <1>5, <2>2
    <3>2. s \in Seq(Entries) /\ OneEach(s) /\ MadeOf(s, old, previous)
      BY <1>7, <1>8, <2>2, <3>1, ReplaceKeeps
    <3> QED
      BY <1>7, <1>8, <2>2, <3>2 DEF MadeOf
  <2>3. CASE kind \notin {"create", "update"}
    BY <1>5, <1>8, <2>3
  <2> QED
    BY <2>1, <2>2, <2>3
<1>10. /\ list' = [list EXCEPT ![p] = s] /\ wish' = [wish EXCEPT ![r] = w]
       /\ UNCHANGED <<ms, item, deletions>>
  BY <1>1, <1>2, <1>3, <1>4, <1>5, <1>6 DEF ItemRequestFailed, RequestOver
<1>11. CASE wish[r].pc = "refused"
  <2>1. w \in Wishes /\ w.pc # "none" /\ ~w.open /\ ~IsUnderWay(w)
    BY <1>6, <1>11, OverFacts
  <2> QED
    BY <1>7, <1>9, <1>10, <2>1, ClientMoves
<1>12. CASE wish[r].pc # "refused"
  <2>1. /\ w \in Wishes /\ w.pc = wish[r].pc /\ ~w.open /\ w.kind = kind /\ w.by = wish[r].by
        /\ w.entry = wish[r].entry /\ w.previous = previous
    BY <1>3, <1>4, <1>6, <1>7, <1>12 DEF Wishes
  <2>2. IsUnderWay(w) /\ HasEntries(w) /\ w.pc # "none"
    BY <1>3, <1>4, <1>7, <2>1 DEF IsUnderWay, HasEntries
  <2>3. Started(w.entry.id) /\ (w.kind = "update" => Started(w.previous.id))
    BY <1>7, <2>1
  <2> QED
    BY <1>7, <1>9, <1>10, <2>1, <2>2, <2>3, ClientMoves
<1> QED
  BY <1>11, <1>12

LEMMA UnheardKeeps ==
  ASSUME ItemInv, NEW r \in ItemRequests, Unheard(r)
  PROVE  ItemInv'
<1>1. PICK w : w = [NoRequest EXCEPT !.pc = "over"]
  OBVIOUS
<1>2. wish' = [wish EXCEPT ![r] = w] /\ UNCHANGED <<ms, item, list, deletions>>
  BY <1>1 DEF Unheard, RequestOver
<1>3. w \in Wishes /\ w.pc # "none" /\ ~w.open /\ ~IsUnderWay(w)
  BY <1>1, OverFacts
<1> QED
  BY <1>2, <1>3, RowsStay, ServerMoves

LEMMA StepItemInv == ItemInv /\ [ItemNext]_itemVars => ItemInv'
<1> SUFFICES ASSUME ItemInv, [ItemNext]_itemVars PROVE ItemInv'
  OBVIOUS
<1>1. CASE NextMs
  <2>1. ms' \in 0 .. LastMs /\ UNCHANGED <<item, list, wish, deletions>>
    BY <1>1, WithoutPerson DEF NextMs, ItemInv
  <2>2. RowsAreSound' /\ \A id : Started(id) => Started(id)'
    BY <2>1, RowsStay DEF Started
  <2>3. ListsAreSound'
    BY <2>1, <2>2, ListsStay
  <2> QED
    BY <2>1, <2>2, <2>3 DEF ItemInv, WishesAreSound, Started
<1>2. CASE UNCHANGED itemVars
  BY <1>2 DEF itemVars, ItemInv, RowsAreSound, Active, DeletionsAreAnnouncedOnce, ListsAreSound,
              WishesAreSound, Started
<1>3. ASSUME NEW p \in People, NEW r \in ItemRequests, NEW k \in DOMAIN list[p],
             StartDelete(p, r, k) \/ \E b \in Bodies : UpdateItemOptimistically(p, r, k, b)
      PROVE  ItemInv'
  BY <1>3, StartDeleteKeeps, UpdateOptimisticallyKeeps
<1>4. ASSUME NEW p \in People, NEW r \in ItemRequests, NEW b \in Bodies,
             CreateItemOptimistically(p, r, b)
      PROVE  ItemInv'
  BY <1>4, CreateOptimisticallyKeeps
<1>5. ASSUME NEW p \in People, ReloadItems(p) PROVE ItemInv'
  BY <1>5, ReloadItemsKeeps
<1>6. ASSUME NEW r \in ItemRequests,
             \/ AdmitItemRequest(r) \/ (\E i \in Items : CreateItem(r, i))
             \/ UpdateItem(r) \/ DeleteItem(r) \/ RereadNote(r)
      PROVE  ItemInv'
  BY <1>6, AdmitKeeps, CreateItemKeeps, UpdateItemKeeps, DeleteItemKeeps, RereadNoteKeeps
<1>7. ASSUME NEW r \in ItemRequests,
             ItemRequestSucceeded(r) \/ ItemRequestFailed(r) \/ Unheard(r)
      PROVE  ItemInv'
  BY <1>7, SucceededKeeps, FailedKeeps, UnheardKeeps
<1> QED
  BY <1>1, <1>2, <1>3, <1>4, <1>5, <1>6, <1>7 DEF ItemNext

(* The inductive invariant of tasks and notes: whatever an id stands for,  *)
(* a row, a request under way or an entry on a screen, it was given once   *)
(* (tasks.ts, notes.ts, customerCardModel.ts).                             *)
THEOREM ItemInvariant == ItemSpec => []ItemInv
<1>1. ItemInit => ItemInv
  BY InitItemInv
<1>2. ItemInv /\ [ItemNext]_itemVars => ItemInv'
  BY StepItemInv
<1> QED
  BY <1>1, <1>2, PTL DEF ItemSpec

(* A deletion is announced by exactly one event, whichever requests delete *)
(* the item and in whatever milliseconds (deletedTaskGuard, deleteNote).   *)
THEOREM DeletionsAnnouncedOnce == ItemSpec => []DeletionsAreAnnouncedOnce
<1>1. ItemInv => DeletionsAreAnnouncedOnce
  BY DEF ItemInv, RowsAreSound
<1> QED
  BY <1>1, ItemInvariant, PTL

LEMMA ItemInvSays == ItemInv => ItemTypeOK /\ ItemsAreShownOnce
BY DEF ItemInv, RowsAreSound, ListsAreSound, WishesAreSound, ItemTypeOK, ItemsAreShownOnce,
       OneEach, ItemShapes, Wishes

-----------------------------------------------------------------------------
(***************************************************************************)
(* Thread.                                                                 *)
(***************************************************************************)
Keys == ClientKeys \union {NoKey}
SendStates == {"none", "asked", "kept", "unheard", "over"}

(* A bubble shown is of a message there is or of a request there was; one  *)
(* that stands for a request whose message is kept is newer than whatever  *)
(* a load of older messages may still bring.                               *)
SoundBubble(b) ==
  /\ b.id \in Nat => b.id <= Len(stored)
  /\ b.id \in ClientKeys => b.key = b.id
  /\ b.key # NoKey => send[b.key] # "none" /\ b.id \in {b.key, MessageOf(b.key)}
  /\ b.id \in ClientKeys /\ MessageOf(b.id) # 0 =>
       cursor <= MessageOf(b.id) /\ older <= MessageOf(b.id)

(* Two bubbles that are not of the same message.                           *)
Apart(b, c) ==
  /\ b.id # c.id
  /\ b.id \in ClientKeys => c.id # MessageOf(b.id)
  /\ c.id \in ClientKeys => b.id # MessageOf(c.id)

SoundBubbles(s) ==
  /\ s \in Seq(Bubbles)
  /\ \A j \in DOMAIN s : SoundBubble(s[j])
  /\ \A i, j \in DOMAIN s : i # j => Apart(s[i], s[j])

SendsAreSound ==
  /\ stored \in Seq(Keys) /\ Len(stored) <= MaxThread
  /\ send \in [ClientKeys -> SendStates]
  /\ \A k \in ClientKeys : /\ send[k] = "none" => MessageOf(k) = 0
                           /\ send[k] = "kept" => MessageOf(k) # 0

LoadsAreSound ==
  /\ cursor \in 0 .. Len(stored) /\ older \in 0 .. Len(stored)
  /\ newest \in Seq(0 .. MaxThread) /\ Len(newest) <= MaxReads
  /\ \A j \in DOMAIN newest : newest[j] <= Len(stored)

ThreadInv == SendsAreSound /\ LoadsAreSound /\ SoundBubbles(shown)

-----------------------------------------------------------------------------
(* The first message sent under a key.                                     *)
FirstOf(s, k) == SelectInSeq(s, LAMBDA key : key = k)

LEMMA FirstFacts ==
  ASSUME NEW T, NEW s \in Seq(T), NEW k
  PROVE  /\ FirstOf(s, k) \in 0 .. Len(s)
         /\ FirstOf(s, k) # 0 => /\ s[FirstOf(s, k)] = k
                                 /\ \A j \in 1 .. Len(s) : s[j] = k => FirstOf(s, k) <= j
         /\ FirstOf(s, k) = 0 => \A j \in 1 .. Len(s) : s[j] # k
<1> DEFINE I == {j \in 1 .. Len(s) : s[j] = k}
<1>1. FirstOf(s, k) = IF I # {} THEN Min(I) ELSE 0
  BY DEF FirstOf, SelectInSeq
<1>2. I # {} => Min(I) \in I /\ \A n \in I : Min(I) <= n
  <2>1. I \in SUBSET Nat
    OBVIOUS
  <2>2. I # {} => \E m \in I : \A n \in I : m <= n
    BY <2>1, LeastNatural
  <2> QED
    BY <2>2 DEF Min
<1> QED
  BY <1>1, <1>2

LEMMA FirstAppended ==
  ASSUME NEW T, NEW s \in Seq(T), NEW x \in T, NEW k
  PROVE  FirstOf(Append(s, x), k) = IF FirstOf(s, k) # 0 THEN FirstOf(s, k)
                                    ELSE IF x = k THEN Len(s) + 1 ELSE 0
<1>1. PICK t : t = Append(s, x)
  OBVIOUS
<1>2. PICK a : a = FirstOf(s, k)
  OBVIOUS
<1>3. PICK b : b = FirstOf(t, k)
  OBVIOUS
<1>4. /\ t \in Seq(T) /\ Len(t) = Len(s) + 1 /\ t[Len(s) + 1] = x /\ Len(s) \in Nat
      /\ \A j \in 1 .. Len(s) : t[j] = s[j]
  BY <1>1, AppendProperties
<1>5. /\ a \in 0 .. Len(s)
      /\ a # 0 => s[a] = k /\ \A j \in 1 .. Len(s) : s[j] = k => a <= j
      /\ a = 0 => \A j \in 1 .. Len(s) : s[j] # k
  BY <1>2, FirstFacts
<1>6. /\ b \in 0 .. Len(s) + 1
      /\ b # 0 => t[b] = k /\ \A j \in 1 .. Len(s) + 1 : t[j] = k => b <= j
      /\ b = 0 => \A j \in 1 .. Len(s) + 1 : t[j] # k
  BY <1>3, <1>4, FirstFacts
<1>7. CASE a # 0
  <2>1. t[a] = k /\ b # 0 /\ b <= a
    BY <1>4, <1>5, <1>6, <1>7
  <2>2. a <= b
    BY <1>4, <1>5, <1>6, <1>7, <2>1
  <2> QED
    BY <1>1, <1>2, <1>3, <1>5, <1>6, <1>7, <2>1, <2>2
<1>8. CASE a = 0 /\ x = k
  <2>1. b = Len(s) + 1
    BY <1>4, <1>5, <1>6, <1>8
  <2> QED
    BY <1>1, <1>2, <1>3, <1>8, <2>1
<1>9. CASE a = 0 /\ x # k
  <2>1. b = 0
    BY <1>4, <1>5, <1>6, <1>9
  <2> QED
    BY <1>1, <1>2, <1>3, <1>9, <2>1
<1> QED
  BY <1>7, <1>8, <1>9

LEMMA MessageFacts ==
  ASSUME ThreadInv, NEW k
  PROVE  /\ MessageOf(k) \in 0 .. Len(stored)
         /\ MessageOf(k) # 0 => stored[MessageOf(k)] = k
<1>1. MessageOf(k) = FirstOf(stored, k) /\ stored \in Seq(Keys)
  BY DEF MessageOf, FirstOf, ThreadInv, SendsAreSound
<1> QED
  BY <1>1, FirstFacts

(* A message that is kept stays where it is.                               *)
LEMMA StoredGrows ==
  ASSUME ThreadInv, NEW x \in Keys, stored' = Append(stored, x)
  PROVE  /\ stored' \in Seq(Keys) /\ Len(stored') = Len(stored) + 1
         /\ \A k : MessageOf(k)' = IF MessageOf(k) # 0 THEN MessageOf(k)
                                   ELSE IF x = k THEN Len(stored) + 1 ELSE 0
<1>1. stored \in Seq(Keys)
  BY DEF ThreadInv, SendsAreSound
<1>2. ASSUME NEW k
      PROVE  MessageOf(k) = FirstOf(stored, k) /\ MessageOf(k)' = FirstOf(stored', k)
  BY DEF MessageOf, FirstOf, SelectInSeq
<1>3. /\ stored' \in Seq(Keys) /\ Len(stored') = Len(stored) + 1
  BY <1>1, AppendProperties
<1>4. \A k : FirstOf(stored', k) = IF FirstOf(stored, k) # 0 THEN FirstOf(stored, k)
                                   ELSE IF x = k THEN Len(stored) + 1 ELSE 0
  BY <1>1, FirstAppended
<1> QED
  BY <1>2, <1>3, <1>4

LEMMA BubbleFacts ==
  ASSUME NEW b \in Bubbles
  PROVE  /\ b.id \in ClientKeys \/ b.id \in 1 .. MaxThread
         /\ b.id \in ClientKeys => b.id \notin Nat
         /\ b.id \notin ClientKeys => b.id \in Nat \ {0}
         /\ b.key \in Keys /\ (b.key # NoKey => b.key \in ClientKeys /\ b.key \notin Nat)
BY ThreadAssumption DEF Bubbles, Keys

LEMMA ThreadInvSays == ThreadInv => ThreadTypeOK /\ MessagesAreShownOnce
<1> SUFFICES ASSUME ThreadInv PROVE ThreadTypeOK /\ MessagesAreShownOnce
  OBVIOUS
<1>0. Len(stored) \in 0 .. MaxThread /\ MaxThread \in Nat
  <2>1. stored \in Seq(Keys) /\ Len(stored) <= MaxThread
    BY DEF ThreadInv, SendsAreSound
  <2> QED
    BY <2>1, ThreadAssumption
<1>1. ThreadTypeOK
  BY <1>0 DEF ThreadTypeOK, ThreadInv, SendsAreSound, LoadsAreSound, SoundBubbles, Keys, SendStates
<1>2. ASSUME NEW i \in DOMAIN shown, NEW j \in DOMAIN shown, i # j
      PROVE  /\ shown[i].id # shown[j].id
             /\ BubbleMessage(shown[i]) # BubbleMessage(shown[j])
                  \/ BubbleMessage(shown[i]) = 0
  <2>1. PICK b : b = shown[i]
    OBVIOUS
  <2>2. PICK c : c = shown[j]
    OBVIOUS
  <2>3. b \in Bubbles /\ c \in Bubbles /\ Apart(b, c)
    BY <1>2, <2>1, <2>2 DEF ThreadInv, SoundBubbles
  <2>4. BubbleMessage(b) # BubbleMessage(c) \/ BubbleMessage(b) = 0
    <3>1. CASE b.id \in ClientKeys /\ c.id \in ClientKeys
      BY <2>3, <3>1, MessageFacts DEF BubbleMessage, Apart
    <3>2. CASE ~(b.id \in ClientKeys /\ c.id \in ClientKeys)
      BY <2>3, <3>2 DEF BubbleMessage, Apart
    <3> QED
      BY <3>1, <3>2
  <2> QED
    BY <2>1, <2>2, <2>3, <2>4 DEF Apart
<1> QED
  BY <1>1, <1>2 DEF MessagesAreShownOnce
-----------------------------------------------------------------------------
LEMMA MatchingFacts ==
  ASSUME NEW s \in Seq(Bubbles), NEW b
  PROVE  LET m == MatchingIndex(s, b)
         IN  /\ m \in 0 .. Len(s)
             /\ m = 0 => \A j \in 1 .. Len(s) : /\ s[j].id # b.id
                                                /\ b.key # NoKey => s[j].key # b.key
             /\ m # 0 => \/ b.key # NoKey /\ s[m].key = b.key
                         \/ /\ s[m].id = b.id
                            /\ \A j \in 1 .. Len(s) : b.key # NoKey => s[j].key # b.key
<1> DEFINE I == {j \in 1 .. Len(s) : b.key # NoKey /\ s[j].key = b.key}
           J == {j \in 1 .. Len(s) : s[j].id = b.id}
<1>1. MatchingIndex(s, b) =
        LET byKey == IF I # {} THEN Min(I) ELSE 0
        IN IF byKey # 0 THEN byKey ELSE IF J # {} THEN Min(J) ELSE 0
  BY DEF MatchingIndex, SelectInSeq
<1>2. I # {} => Min(I) \in I
  <2>1. I \in SUBSET Nat
    OBVIOUS
  <2>2. I # {} => \E m \in I : \A n \in I : m <= n
    BY <2>1, LeastNatural
  <2> QED
    BY <2>2 DEF Min
<1>3. J # {} => Min(J) \in J
  <2>1. J \in SUBSET Nat
    OBVIOUS
  <2>2. J # {} => \E m \in J : \A n \in J : m <= n
    BY <2>1, LeastNatural
  <2> QED
    BY <2>2 DEF Min
<1>4. PICK x : x = IF I # {} THEN Min(I) ELSE 0
  OBVIOUS
<1>5. PICK y : y = IF J # {} THEN Min(J) ELSE 0
  OBVIOUS
<1>6. MatchingIndex(s, b) = IF x # 0 THEN x ELSE y
  BY <1>1, <1>4, <1>5
<1>7. /\ x \in 0 .. Len(s)
      /\ x # 0 => b.key # NoKey /\ s[x].key = b.key
      /\ x = 0 => \A j \in 1 .. Len(s) : b.key # NoKey => s[j].key # b.key
  BY <1>2, <1>4
<1>8. /\ y \in 0 .. Len(s)
      /\ y # 0 => s[y].id = b.id
      /\ y = 0 => \A j \in 1 .. Len(s) : s[j].id # b.id
  BY <1>3, <1>5
<1> QED
  BY <1>6, <1>7, <1>8

(* One bubble takes the place of the one it matches, or comes last.        *)
LEMMA MergeOne ==
  ASSUME NEW s \in Seq(Bubbles), NEW b \in Bubbles
  PROVE  LET m == MatchingIndex(s, b)
             t == MergeThreadMessages(s, <<b>>, "append")
         IN  t = IF m = 0 THEN Append(s, b) ELSE [s EXCEPT ![m] = b]
<1>1. PICK m : m = MatchingIndex(s, b)
  OBVIOUS
<1>2. m \in 0 .. Len(s)
  BY <1>1, MatchingFacts
<1> DEFINE Incoming(j) == SelectInSeq(<<b>>, LAMBDA c : MatchingIndex(s, c) = j)
           merged == [j \in DOMAIN s |-> IF Incoming(j) = 0 THEN s[j] ELSE <<b>>[Incoming(j)]]
           kept == {i \in DOMAIN <<b>> : MatchingIndex(s, <<b>>[i]) = 0}
<1>3. MergeThreadMessages(s, <<b>>, "append") = merged \o Filtered(<<b>>, kept)
  BY DEF MergeThreadMessages
<1>4. ASSUME NEW j PROVE Incoming(j) = IF m = j THEN 1 ELSE 0
  <2> DEFINE I == {i \in 1 .. 1 : MatchingIndex(s, <<b>>[i]) = j}
  <2>1. Incoming(j) = IF I # {} THEN Min(I) ELSE 0
    BY DEF SelectInSeq
  <2>2. I = IF m = j THEN {1} ELSE {}
    BY <1>1
  <2>3. Min({1}) = 1
    BY DEF Min
  <2> QED
    BY <2>1, <2>2, <2>3
<1>5. merged = IF m = 0 THEN s ELSE [s EXCEPT ![m] = b]
  <2>1. ASSUME NEW j \in DOMAIN s PROVE merged[j] = IF m = j THEN b ELSE s[j]
    <3>1. merged[j] = IF Incoming(j) = 0 THEN s[j] ELSE <<b>>[Incoming(j)]
      OBVIOUS
    <3> HIDE DEF merged, Incoming
    <3>2. PICK x : x = Incoming(j)
      OBVIOUS
    <3>3. x = IF m = j THEN 1 ELSE 0
      BY <1>4, <3>2
    <3>4. merged[j] = IF x = 0 THEN s[j] ELSE <<b>>[x]
      BY <3>1, <3>2
    <3>5. <<b>>[1] = b
      OBVIOUS
    <3> QED
      BY <3>3, <3>4, <3>5
  <2>2. merged = [j \in DOMAIN s |-> merged[j]]
    OBVIOUS
  <2> HIDE DEF merged
  <2>3. DOMAIN s = 1 .. Len(s) /\ s = [j \in DOMAIN s |-> s[j]]
    OBVIOUS
  <2>4. [s EXCEPT ![m] = b] = [j \in DOMAIN s |-> IF m = j THEN b ELSE s[j]]
    OBVIOUS
  <2>5. merged = [j \in DOMAIN s |-> IF m = j THEN b ELSE s[j]]
    BY <2>1, <2>2
  <2>6. CASE m = 0
    <3>1. \A j \in DOMAIN s : m # j
      BY <2>3, <2>6
    <3> QED
      BY <2>3, <2>5, <2>6, <3>1
  <2>7. CASE m # 0
    BY <2>4, <2>5, <2>7
  <2> QED
    BY <2>6, <2>7
<1>6. Filtered(<<b>>, kept) = IF m = 0 THEN <<b>> ELSE <<>>
  <2>1. kept = IF m = 0 THEN {1} ELSE {}
    BY <1>1
  <2>2. Filtered(<<b>>, {}) = <<>>
    <3>1. Cardinality({}) = 0
      BY FS_EmptySet
    <3> QED
      BY <3>1 DEF Filtered
  <2>3. Filtered(<<b>>, {1}) = <<b>>
    <3>1. IsFiniteSet({1}) /\ Cardinality({1}) = 1
      BY FS_Singleton
    <3>2. {1} \in SUBSET Nat /\ 1 \in 1 .. Cardinality({1})
      BY <3>1
    <3>3. Nth({1}, 1) \in {1}
      BY <3>1, <3>2, NthIsOne
    <3> QED
      BY <3>1, <3>3 DEF Filtered
  <2> QED
    BY <2>1, <2>2, <2>3
<1>7. Append(s, b) = s \o <<b>> /\ s \o <<>> = s
  OBVIOUS
<1>8. [s EXCEPT ![m] = b] \o <<>> = [s EXCEPT ![m] = b]
  <2>1. PICK u : u = [s EXCEPT ![m] = b]
    OBVIOUS
  <2>2. DOMAIN u = 1 .. Len(s) /\ Len(s) \in Nat /\ \A j \in 1 .. Len(s) : u[j] \in Bubbles
    BY <2>1
  <2>3. u = [j \in 1 .. Len(s) |-> u[j]]
    BY <2>1, <2>2
  <2>4. u \in Seq(Bubbles)
    BY <2>2, <2>3
  <2>5. u \o <<>> = u
    BY <2>4
  <2> QED
    BY <2>1, <2>5
<1> QED
  BY <1>1, <1>3, <1>5, <1>6, <1>7, <1>8

(* Rows of an older page take the place of the bubbles with their ids, the *)
(* others come before what is shown.                                       *)
PutsInPlace(s, in, merged) ==
  /\ DOMAIN merged = DOMAIN s
  /\ \A j \in DOMAIN merged :
       merged[j] = s[j] \/ \E i \in DOMAIN in : merged[j] = in[i] /\ in[i].id = s[j].id
Adds(s, in, additions) ==
  \E from \in [DOMAIN additions -> DOMAIN in] :
    /\ \A a, b \in DOMAIN additions : from[a] = from[b] => a = b
    /\ \A a \in DOMAIN additions :
         /\ additions[a] = in[from[a]]
         /\ \A j \in DOMAIN s : s[j].id # additions[a].id
PutsBefore(s, in, t) ==
  \E merged, additions \in Seq(Bubbles) :
    t = additions \o merged /\ PutsInPlace(s, in, merged) /\ Adds(s, in, additions)

LEMMA MergeRows ==
  ASSUME NEW s \in Seq(Bubbles), NEW in \in Seq(Bubbles),
         \A i \in DOMAIN in : in[i].key = NoKey
  PROVE  PutsBefore(s, in, MergeThreadMessages(s, in, "prepend"))
<1> DEFINE Incoming(j) == SelectInSeq(in, LAMBDA b : MatchingIndex(s, b) = j)
           merged == [j \in DOMAIN s |-> IF Incoming(j) = 0 THEN s[j] ELSE in[Incoming(j)]]
           kept == {i \in DOMAIN in : MatchingIndex(s, in[i]) = 0}
           additions == Filtered(in, kept)
           from == [a \in DOMAIN additions |-> Nth(kept, a)]
<1>1. MergeThreadMessages(s, in, "prepend") = additions \o merged
  BY DEF MergeThreadMessages
<1>2. ASSUME NEW j \in DOMAIN s
      PROVE  Incoming(j) # 0 => Incoming(j) \in DOMAIN in /\ in[Incoming(j)].id = s[j].id
  <2> DEFINE I == {i \in 1 .. Len(in) : MatchingIndex(s, in[i]) = j}
  <2>1. Incoming(j) = IF I # {} THEN Min(I) ELSE 0
    BY DEF SelectInSeq
  <2>2. I # {} => Min(I) \in I
    <3>1. I \in SUBSET Nat
      OBVIOUS
    <3>2. I # {} => \E m \in I : \A n \in I : m <= n
      BY <3>1, LeastNatural
    <3> QED
      BY <3>2 DEF Min
  <2>3. ASSUME NEW i \in I PROVE i \in DOMAIN in /\ in[i].id = s[j].id
    <3>1. i \in DOMAIN in /\ MatchingIndex(s, in[i]) = j /\ j # 0 /\ in[i].key = NoKey
      OBVIOUS
    <3> QED
      BY <3>1, MatchingFacts
  <2> QED
    BY <2>1, <2>2, <2>3
<1>3. ASSUME NEW j \in DOMAIN s
      PROVE  \/ merged[j] = s[j]
             \/ \E i \in DOMAIN in : merged[j] = in[i] /\ in[i].id = s[j].id
  BY <1>2
<1>4. merged \in Seq(Bubbles) /\ DOMAIN merged = DOMAIN s
  <2>1. DOMAIN merged = DOMAIN s /\ merged = [j \in DOMAIN s |-> merged[j]]
    OBVIOUS
  <2> HIDE DEF merged
  <2>2. DOMAIN s = 1 .. Len(s) /\ Len(s) \in Nat
    OBVIOUS
  <2>3. \A j \in 1 .. Len(s) : merged[j] \in Bubbles
    BY <1>3, <2>2
  <2>4. merged = [j \in 1 .. Len(s) |-> merged[j]]
    BY <2>1, <2>2
  <2> QED
    BY <2>1, <2>2, <2>3, <2>4
<1>5. kept \in SUBSET (DOMAIN in)
  OBVIOUS
<1>6. \A i \in kept : \A j \in DOMAIN s : s[j].id # in[i].id
  BY MatchingFacts
<1> HIDE DEF merged, kept
<1>7. /\ additions \in Seq(Bubbles)
      /\ \A k \in DOMAIN additions :
           /\ Nth(kept, k) \in kept
           /\ additions[k] = in[Nth(kept, k)]
           /\ \A l \in DOMAIN additions : Nth(kept, k) = Nth(kept, l) => k = l
  BY <1>5, FilteredFacts
<1> HIDE DEF additions
<1>8. from \in [DOMAIN additions -> DOMAIN in]
  BY <1>5, <1>7
<1>9. /\ \A a, b \in DOMAIN additions : from[a] = from[b] => a = b
      /\ \A a \in DOMAIN additions :
           /\ additions[a] = in[from[a]]
           /\ \A j \in DOMAIN s : s[j].id # additions[a].id
  BY <1>6, <1>7
<1> HIDE DEF from
<1>10. PutsInPlace(s, in, merged)
  BY <1>3, <1>4 DEF PutsInPlace
<1>11. Adds(s, in, additions)
  BY <1>8, <1>9 DEF Adds
<1>12. additions \in Seq(Bubbles) /\ merged \in Seq(Bubbles)
  BY <1>4, <1>7
<1> HIDE DEF Incoming
<1> QED
  BY <1>1, <1>10, <1>11, <1>12, Zenon DEF PutsBefore
-----------------------------------------------------------------------------
LEMMA MessagesStay == ASSUME UNCHANGED stored, NEW k PROVE MessageOf(k)' = MessageOf(k)
BY DEF MessageOf, SelectInSeq

(* What every step but a load of the newest page does to the messages, the *)
(* requests and the cursors.                                               *)
GrowsOn ==
  /\ Len(stored') >= Len(stored) /\ Len(stored') \in Nat
  /\ \A k : \/ MessageOf(k)' = MessageOf(k)
            \/ MessageOf(k) = 0 /\ MessageOf(k)' = Len(stored) + 1
  /\ \A k \in ClientKeys : send[k] # "none" => send'[k] # "none"
  /\ cursor' \in Nat /\ older' \in Nat
  /\ cursor' <= cursor \/ cursor' <= older
  /\ older' <= cursor \/ older' <= older

LEMMA BubbleStays ==
  ASSUME ThreadInv, GrowsOn, NEW b \in Bubbles, SoundBubble(b)
  PROVE  SoundBubble(b)'
<1>0. Len(stored) \in Nat /\ cursor \in 0 .. Len(stored) /\ older \in 0 .. Len(stored)
  BY DEF ThreadInv, SendsAreSound, LoadsAreSound
<1>1. b.id \in Nat => b.id <= Len(stored')
  BY <1>0 DEF SoundBubble, GrowsOn
<1>2. b.id \in ClientKeys => b.key = b.id
  BY DEF SoundBubble
<1>3. b.key # NoKey => send'[b.key] # "none" /\ b.id \in {b.key, MessageOf(b.key)'}
  <2> SUFFICES ASSUME b.key # NoKey PROVE send'[b.key] # "none" /\ b.id \in {b.key, MessageOf(b.key)'}
    OBVIOUS
  <2>1. b.key \in ClientKeys /\ send[b.key] # "none" /\ b.id \in {b.key, MessageOf(b.key)} /\ b.id # 0
    BY BubbleFacts, ThreadAssumption DEF SoundBubble
  <2>2. b.id = b.key \/ MessageOf(b.key)' = MessageOf(b.key)
    BY <2>1 DEF GrowsOn
  <2> QED
    BY <2>1, <2>2 DEF GrowsOn
<1>4. ASSUME b.id \in ClientKeys, MessageOf(b.id)' # 0
      PROVE  cursor' <= MessageOf(b.id)' /\ older' <= MessageOf(b.id)'
  <2>1. PICK m : m = MessageOf(b.id)
    OBVIOUS
  <2>2. m \in Nat /\ (m # 0 => cursor <= m /\ older <= m)
    BY <1>0, <1>4, <2>1, MessageFacts DEF SoundBubble
  <2>3. PICK n : n = MessageOf(b.id)'
    OBVIOUS
  <2>4. n = m \/ n = Len(stored) + 1
    BY <2>1, <2>3 DEF GrowsOn
  <2>5. n # 0
    BY <1>4, <2>3
  <2>6. cursor' <= n /\ older' <= n
    BY <1>0, <2>2, <2>4, <2>5 DEF GrowsOn
  <2> QED
    BY <2>3, <2>6
<1> QED
  BY <1>1, <1>2, <1>3, <1>4 DEF SoundBubble

LEMMA ApartStays ==
  ASSUME ThreadInv, GrowsOn, NEW b \in Bubbles, SoundBubble(b), NEW c \in Bubbles,
         SoundBubble(c), Apart(b, c)
  PROVE  Apart(b, c)'
<1>0. Len(stored) \in Nat
  BY DEF ThreadInv, SendsAreSound
<1>1. ASSUME NEW x \in Bubbles, SoundBubble(x), NEW k, x.id # MessageOf(k)
      PROVE  x.id # MessageOf(k)'
  <2>1. x.id \in Nat => x.id <= Len(stored)
    BY <1>1 DEF SoundBubble
  <2>2. x.id # Len(stored) + 1
    BY <1>0, <2>1
  <2> QED
    BY <1>1, <2>2 DEF GrowsOn
<1> QED
  BY <1>1 DEF Apart

LEMMA BubblesStay ==
  ASSUME ThreadInv, GrowsOn, NEW s, SoundBubbles(s)
  PROVE  SoundBubbles(s)'
<1>1. /\ s \in Seq(Bubbles) /\ \A j \in DOMAIN s : s[j] \in Bubbles /\ SoundBubble(s[j])
      /\ \A i, j \in DOMAIN s : i # j => Apart(s[i], s[j])
  BY DEF SoundBubbles
<1>2. \A j \in DOMAIN s : SoundBubble(s[j])'
  BY <1>1, BubbleStays
<1>3. \A i, j \in DOMAIN s : i # j => Apart(s[i], s[j])'
  BY <1>1, ApartStays
<1> QED
  BY <1>1, <1>2, <1>3 DEF SoundBubbles

LEMMA SameIdsAreSound ==
  ASSUME NEW s, SoundBubbles(s), NEW t \in Seq(Bubbles), DOMAIN t = DOMAIN s,
         \A j \in DOMAIN s : t[j].id = s[j].id /\ t[j].key = s[j].key
  PROVE  SoundBubbles(t)
<1>1. ASSUME NEW j \in DOMAIN s PROVE SoundBubble(t[j])
  <2>1. SoundBubble(s[j]) /\ t[j].id = s[j].id /\ t[j].key = s[j].key
    BY DEF SoundBubbles
  <2> QED
    BY <2>1 DEF SoundBubble
<1>2. ASSUME NEW i \in DOMAIN s, NEW j \in DOMAIN s, i # j PROVE Apart(t[i], t[j])
  <2>1. Apart(s[i], s[j]) /\ t[j].id = s[j].id /\ t[i].id = s[i].id
    BY <1>2 DEF SoundBubbles
  <2> QED
    BY <2>1 DEF Apart
<1> QED
  BY <1>1, <1>2 DEF SoundBubbles

(* Nothing but the state of bubbles changes, or nothing at all.            *)
LEMMA ShownFacts ==
  ASSUME ThreadInv
  PROVE  /\ shown \in Seq(Bubbles) /\ SoundBubbles(shown)
         /\ DOMAIN shown = 1 .. Len(shown) /\ Len(shown) \in Nat
         /\ \A j \in DOMAIN shown : shown[j] \in Bubbles /\ SoundBubble(shown[j])
         /\ \A i, j \in DOMAIN shown : i # j => Apart(shown[i], shown[j])
BY DEF ThreadInv, SoundBubbles

LEMMA ThreadTypes ==
  ASSUME ThreadInv
  PROVE  /\ stored \in Seq(Keys) /\ Len(stored) \in 0 .. MaxThread /\ MaxThread \in Nat
         /\ cursor \in 0 .. Len(stored) /\ older \in 0 .. Len(stored)
         /\ send \in [ClientKeys -> SendStates]
         /\ newest \in Seq(0 .. MaxThread)
BY ThreadAssumption DEF ThreadInv, SendsAreSound, LoadsAreSound

LEMMA InitThreadInv == ThreadInit => ThreadInv
<1> SUFFICES ASSUME ThreadInit PROVE ThreadInv
  OBVIOUS
<1>1. MaxThread \in Nat /\ MaxReads \in Nat
  BY ThreadAssumption
<1>2. ASSUME NEW k PROVE MessageOf(k) = 0
  <2>1. MessageOf(k) = FirstOf(<<>>, k) /\ <<>> \in Seq(Keys)
    BY DEF ThreadInit, MessageOf, FirstOf
  <2>2. FirstOf(<<>>, k) \in 0 .. Len(<<>>) /\ Len(<<>>) = 0
    BY <2>1, FirstFacts
  <2> QED
    BY <2>1, <2>2
<1>3. SendsAreSound
  BY <1>1, <1>2 DEF ThreadInit, SendsAreSound, SendStates
<1>4. LoadsAreSound
  BY <1>1 DEF ThreadInit, LoadsAreSound
<1>5. SoundBubbles(shown)
  BY DEF ThreadInit, SoundBubbles
<1> QED
  BY <1>3, <1>4, <1>5 DEF ThreadInv

-----------------------------------------------------------------------------
(* The steps that show nothing new.                                        *)
LEMMA MessageArrivesKeeps == ThreadInv /\ MessageArrives => ThreadInv'
<1> SUFFICES ASSUME ThreadInv, MessageArrives PROVE ThreadInv'
  OBVIOUS
<1>1. /\ Len(stored) < MaxThread /\ stored' = Append(stored, NoKey) /\ NoKey \in Keys
      /\ NoKey \notin ClientKeys /\ UNCHANGED <<shown, cursor, newest, older, send>>
  BY ThreadAssumption DEF MessageArrives, Keys
<1>2. /\ stored' \in Seq(Keys) /\ Len(stored') = Len(stored) + 1
      /\ \A k : MessageOf(k)' = IF MessageOf(k) # 0 THEN MessageOf(k)
                                ELSE IF NoKey = k THEN Len(stored) + 1 ELSE 0
  BY <1>1, StoredGrows
<1>3. GrowsOn
  <2>1. \A k : \/ MessageOf(k)' = MessageOf(k)
               \/ MessageOf(k) = 0 /\ MessageOf(k)' = Len(stored) + 1
    BY <1>2
  <2>2. \A k \in ClientKeys : send[k] # "none" => send'[k] # "none"
    BY <1>1
  <2>3. /\ Len(stored') >= Len(stored) /\ Len(stored') \in Nat
        /\ cursor' \in Nat /\ older' \in Nat /\ cursor' <= cursor /\ older' <= older
    BY <1>1, <1>2, ThreadTypes
  <2> QED
    BY <2>1, <2>2, <2>3 DEF GrowsOn
<1>4. \A s : SoundBubbles(s) => SoundBubbles(s)'
  BY <1>3, BubblesStay
<1>5. \A k \in ClientKeys : MessageOf(k)' = MessageOf(k)
  BY <1>1, <1>2
<1>6. SendsAreSound'
  BY <1>1, <1>2, <1>5, ThreadTypes DEF ThreadInv, SendsAreSound
<1>7. LoadsAreSound'
  BY <1>1, <1>2, ThreadTypes DEF ThreadInv, LoadsAreSound
<1> QED
  BY <1>1, <1>4, <1>6, <1>7, ShownFacts DEF ThreadInv

LEMMA SendsStay ==
  ASSUME ThreadInv, UNCHANGED <<stored, send>>
  PROVE  SendsAreSound' /\ \A k : MessageOf(k)' = MessageOf(k)
<1>1. \A k : MessageOf(k)' = MessageOf(k)
  BY MessagesStay
<1> QED
  BY <1>1 DEF ThreadInv, SendsAreSound

LEMMA ReadNewestKeeps == ThreadInv /\ ReadNewest => ThreadInv'
<1> SUFFICES ASSUME ThreadInv, ReadNewest PROVE ThreadInv'
  OBVIOUS
<1>1. /\ Len(newest) < MaxReads /\ newest' = Append(newest, Len(stored))
      /\ UNCHANGED <<stored, shown, cursor, older, send>>
  BY DEF ReadNewest
<1>2. SendsAreSound' /\ \A k : MessageOf(k)' = MessageOf(k)
  BY <1>1, SendsStay
<1>3. GrowsOn
  <2>1. \A k : \/ MessageOf(k)' = MessageOf(k)
               \/ MessageOf(k) = 0 /\ MessageOf(k)' = Len(stored) + 1
    BY <1>2
  <2>2. \A k \in ClientKeys : send[k] # "none" => send'[k] # "none"
    BY <1>1
  <2>3. /\ Len(stored') >= Len(stored) /\ Len(stored') \in Nat
        /\ cursor' \in Nat /\ older' \in Nat /\ cursor' <= cursor /\ older' <= older
    BY <1>1, <1>2, ThreadTypes
  <2> QED
    BY <2>1, <2>2, <2>3 DEF GrowsOn
<1>4. \A s : SoundBubbles(s) => SoundBubbles(s)'
  BY <1>3, BubblesStay
<1>5. /\ newest' \in Seq(0 .. MaxThread) /\ Len(newest') = Len(newest) + 1
      /\ newest'[Len(newest) + 1] = Len(stored)
      /\ \A j \in 1 .. Len(newest) : newest'[j] = newest[j]
  BY <1>1, ThreadTypes, AppendProperties
<1>6. LoadsAreSound'
  BY <1>1, <1>5, ThreadTypes, ThreadAssumption DEF ThreadInv, LoadsAreSound
<1> QED
  BY <1>1, <1>2, <1>4, <1>6, ShownFacts DEF ThreadInv
LEMMA NewestTaken ==
  ASSUME ThreadInv, NEW j \in DOMAIN newest, newest' = RemoveAt(newest, j)
  PROVE  /\ newest' \in Seq(0 .. MaxThread) /\ Len(newest') <= MaxReads
         /\ \A i \in DOMAIN newest' : newest'[i] <= Len(stored)
<1>1. /\ newest \in Seq(0 .. MaxThread) /\ Len(newest) <= MaxReads /\ j \in 1 .. Len(newest)
      /\ \A i \in 1 .. Len(newest) : newest[i] <= Len(stored)
  BY DEF ThreadInv, LoadsAreSound
<1>2. /\ newest' \in Seq(0 .. MaxThread) /\ Len(newest') = Len(newest) - 1
      /\ \A i \in 1 .. Len(newest) - 1 : newest'[i] = IF i < j THEN newest[i] ELSE newest[i + 1]
  BY <1>1, RemoveAtFacts
<1>3. Len(newest) \in Nat /\ MaxReads \in Nat
  BY <1>1, ThreadAssumption
<1> QED
  BY <1>1, <1>2, <1>3

LEMMA LoadNewestFailedKeeps ==
  ASSUME ThreadInv, NEW j \in DOMAIN newest, LoadNewestFailed(j)
  PROVE  ThreadInv'
<1>1. newest' = RemoveAt(newest, j) /\ UNCHANGED <<stored, shown, cursor, older, send>>
  BY DEF LoadNewestFailed
<1>2. SendsAreSound' /\ \A k : MessageOf(k)' = MessageOf(k)
  BY <1>1, SendsStay
<1>3. GrowsOn
  BY <1>1, <1>2, ThreadTypes DEF GrowsOn
<1>4. \A s : SoundBubbles(s) => SoundBubbles(s)'
  BY <1>3, BubblesStay
<1>5. LoadsAreSound'
  BY <1>1, NewestTaken DEF ThreadInv, LoadsAreSound
<1> QED
  BY <1>1, <1>2, <1>4, <1>5, ShownFacts DEF ThreadInv

LEMMA LoadOlderKeeps == ThreadInv /\ (LoadOlder \/ LoadOlderFailed) => ThreadInv'
<1> SUFFICES ASSUME ThreadInv, LoadOlder \/ LoadOlderFailed PROVE ThreadInv'
  OBVIOUS
<1>1. older' \in {cursor, 0} /\ UNCHANGED <<stored, shown, cursor, newest, send>>
  BY DEF LoadOlder, LoadOlderFailed
<1>2. SendsAreSound' /\ \A k : MessageOf(k)' = MessageOf(k)
  BY <1>1, SendsStay
<1>3. GrowsOn
  BY <1>1, <1>2, ThreadTypes DEF GrowsOn
<1>4. \A s : SoundBubbles(s) => SoundBubbles(s)'
  BY <1>3, BubblesStay
<1>5. LoadsAreSound'
  BY <1>1, ThreadTypes DEF ThreadInv, LoadsAreSound
<1> QED
  BY <1>1, <1>2, <1>4, <1>5, ShownFacts DEF ThreadInv

LEMMA SendIsKeptKeeps ==
  ASSUME ThreadInv, NEW k \in ClientKeys, SendIsKept(k)
  PROVE  ThreadInv'
<1>1. /\ send[k] \in {"asked", "unheard"} /\ UNCHANGED <<shown, cursor, newest, older>>
      /\ send' = [send EXCEPT ![k] = IF send[k] = "asked" THEN "kept" ELSE "over"]
  BY DEF SendIsKept
<1>2. /\ send' \in [ClientKeys -> SendStates] /\ send'[k] \in {"kept", "over"}
      /\ \A l \in ClientKeys : l # k => send'[l] = send[l]
  BY <1>1, ThreadTypes DEF SendStates
<1>3. \A l \in ClientKeys : send[l] # "none" => send'[l] # "none"
  BY <1>2
<1>4. CASE MessageOf(k) # 0 /\ UNCHANGED stored
  <2>1. \A l : MessageOf(l)' = MessageOf(l)
    BY <1>4, MessagesStay
  <2>2. GrowsOn
    BY <1>1, <1>3, <1>4, <2>1, ThreadTypes DEF GrowsOn
  <2>3. \A s : SoundBubbles(s) => SoundBubbles(s)'
    BY <2>2, BubblesStay
  <2>4. SendsAreSound'
    BY <1>2, <1>4, <2>1 DEF ThreadInv, SendsAreSound
  <2>5. LoadsAreSound'
    BY <1>1, <1>4 DEF ThreadInv, LoadsAreSound
  <2> QED
    BY <1>1, <2>3, <2>4, <2>5, ShownFacts DEF ThreadInv
<1>5. CASE MessageOf(k) = 0 /\ Len(stored) < MaxThread /\ stored' = Append(stored, k)
  <2>1. /\ stored' \in Seq(Keys) /\ Len(stored') = Len(stored) + 1
        /\ \A l : MessageOf(l)' = IF MessageOf(l) # 0 THEN MessageOf(l)
                                  ELSE IF k = l THEN Len(stored) + 1 ELSE 0
    BY <1>5, StoredGrows DEF Keys
  <2>2. GrowsOn
    <3>1. \A l : \/ MessageOf(l)' = MessageOf(l)
                 \/ MessageOf(l) = 0 /\ MessageOf(l)' = Len(stored) + 1
      BY <2>1
    <3>2. /\ Len(stored') >= Len(stored) /\ Len(stored') \in Nat
          /\ cursor' \in Nat /\ older' \in Nat /\ cursor' <= cursor /\ older' <= older
      BY <1>1, <2>1, ThreadTypes
    <3> QED
      BY <1>3, <3>1, <3>2 DEF GrowsOn
  <2>3. \A s : SoundBubbles(s) => SoundBubbles(s)'
    BY <2>2, BubblesStay
  <2>4. MessageOf(k)' # 0 /\ \A l \in ClientKeys : l # k => MessageOf(l)' = MessageOf(l)
    <3>1. MessageOf(k)' = Len(stored) + 1 /\ Len(stored) \in Nat
      BY <1>5, <2>1, ThreadTypes
    <3>2. \A l \in ClientKeys : l # k => MessageOf(l)' = MessageOf(l)
      BY <2>1
    <3> QED
      BY <3>1, <3>2
  <2>5. SendsAreSound'
    BY <1>2, <1>5, <2>1, <2>4, ThreadTypes DEF ThreadInv, SendsAreSound
  <2>6. LoadsAreSound'
    BY <1>1, <2>1, ThreadTypes DEF ThreadInv, LoadsAreSound
  <2> QED
    BY <1>1, <2>3, <2>5, <2>6, ShownFacts DEF ThreadInv
<1> QED
  BY <1>4, <1>5 DEF SendIsKept

-----------------------------------------------------------------------------
(* Only the state of a bubble changes.                                     *)
LEMMA BubblesAreMarked ==
  ASSUME ThreadInv, NEW k \in ClientKeys, send[k] # "none", NEW state \in {"sending", "failed"},
         NEW next \in {"asked", "unheard", "over"},
         shown' = [j \in DOMAIN shown |->
                     IF shown[j].key = k THEN [shown[j] EXCEPT !.state = state] ELSE shown[j]],
         send' = [send EXCEPT ![k] = next], UNCHANGED <<stored, cursor, newest, older>>
  PROVE  ThreadInv'
<1>1. PICK s : s = shown
  OBVIOUS
<1>2. PICK t : t = [j \in DOMAIN s |->
                      IF s[j].key = k THEN [s[j] EXCEPT !.state = state] ELSE s[j]]
  OBVIOUS
<1>3. /\ s \in Seq(Bubbles) /\ SoundBubbles(s) /\ DOMAIN s = 1 .. Len(s) /\ Len(s) \in Nat
      /\ \A j \in DOMAIN s : s[j] \in Bubbles
  BY <1>1, ShownFacts
<1>4. \A b \in Bubbles :
        LET c == [b EXCEPT !.state = state]
        IN c \in Bubbles /\ c.id = b.id /\ c.key = b.key
  BY DEF Bubbles
<1>5. \A j \in DOMAIN s : t[j] \in Bubbles /\ t[j].id = s[j].id /\ t[j].key = s[j].key
  BY <1>2, <1>3, <1>4
<1>6. t \in Seq(Bubbles) /\ DOMAIN t = DOMAIN s
  <2>1. DOMAIN t = DOMAIN s /\ t = [j \in 1 .. Len(s) |-> t[j]]
    BY <1>2, <1>3
  <2> QED
    BY <1>3, <1>5, <2>1
<1>7. SoundBubbles(t)
  BY <1>3, <1>5, <1>6, SameIdsAreSound
<1>8. /\ send' \in [ClientKeys -> SendStates] /\ send'[k] = next
      /\ \A l \in ClientKeys : l # k => send'[l] = send[l]
  BY ThreadTypes DEF SendStates
<1>9. \A l : MessageOf(l)' = MessageOf(l)
  BY MessagesStay
<1>10. GrowsOn
  BY <1>8, <1>9, ThreadTypes DEF GrowsOn
<1>11. SoundBubbles(t)'
  BY <1>7, <1>10, BubblesStay
<1>12. SendsAreSound'
  BY <1>8, <1>9 DEF ThreadInv, SendsAreSound
<1>13. LoadsAreSound'
  BY DEF ThreadInv, LoadsAreSound
<1>14. shown' = t
  BY <1>1, <1>2
<1> QED
  BY <1>11, <1>12, <1>13, <1>14 DEF ThreadInv

LEMMA SendFailedKeeps ==
  ASSUME ThreadInv, NEW k \in ClientKeys, SendFailed(k)
  PROVE  ThreadInv'
<1>1. PICK next : next = IF send[k] = "asked" THEN "unheard" ELSE "over"
  OBVIOUS
<1>2. next \in {"asked", "unheard", "over"} /\ send' = [send EXCEPT ![k] = next]
  BY <1>1 DEF SendFailed
<1> QED
  BY <1>2, BubblesAreMarked DEF SendFailed

(* A bubble that failed is of a request that was sent.                     *)
LEMMA RetryStartedKeeps ==
  ASSUME ThreadInv, NEW k \in ClientKeys, RetryStarted(k)
  PROVE  ThreadInv'
<1>1. PICK j \in DOMAIN shown : shown[j].key = k
  BY DEF RetryStarted
<1>2. send[k] # "none"
  BY <1>1, ShownFacts, ThreadAssumption DEF SoundBubble
<1> QED
  BY <1>2, BubblesAreMarked DEF RetryStarted
-----------------------------------------------------------------------------
LEMMA RowFacts ==
  ASSUME NEW m \in 1 .. MaxThread
  PROVE  /\ Row(m) \in Bubbles /\ Row(m).id = m /\ Row(m).key = NoKey
         /\ m \notin ClientKeys /\ m \in Nat
BY ThreadAssumption DEF Row, Bubbles

LEMMA RowsFacts ==
  ASSUME NEW first \in Nat \ {0}, NEW last \in Nat, first <= last + 1, last <= MaxThread
  PROVE  /\ Rows(first, last) \in Seq(Bubbles)
         /\ \A n \in DOMAIN Rows(first, last) :
              /\ n \in Nat /\ first + n - 1 \in first .. last
              /\ Rows(first, last)[n] = Row(first + n - 1)
              /\ Rows(first, last)[n].id = first + n - 1 /\ Rows(first, last)[n].key = NoKey
<1>1. PICK t : t = Rows(first, last)
  OBVIOUS
<1>2. PICK l : l = last - first + 1
  OBVIOUS
<1>3. l \in Nat /\ t = [n \in 1 .. l |-> Row(first + n - 1)]
  BY <1>1, <1>2 DEF Rows
<1>4. ASSUME NEW n \in 1 .. l
      PROVE  /\ n \in Nat /\ first + n - 1 \in first .. last
             /\ t[n] = Row(first + n - 1) /\ t[n] \in Bubbles
             /\ t[n].id = first + n - 1 /\ t[n].key = NoKey
  <2>1. PICK m : m = first + n - 1
    OBVIOUS
  <2>2. n \in Nat /\ m \in first .. last /\ m \in 1 .. MaxThread
    BY <1>2, <1>3, <2>1, ThreadAssumption
  <2>3. t[n] = Row(m)
    BY <1>3, <2>1
  <2> QED
    BY <2>1, <2>2, <2>3, RowFacts
<1>5. t \in Seq(Bubbles) /\ DOMAIN t = 1 .. l
  <2>1. t = [n \in 1 .. l |-> t[n]] /\ DOMAIN t = 1 .. l
    BY <1>3
  <2>2. \A n \in 1 .. l : t[n] \in Bubbles
    BY <1>4
  <2> QED
    BY <1>3, <2>1, <2>2
<1> QED
  BY <1>1, <1>4, <1>5

LEMMA OldestFacts ==
  ASSUME NEW last \in Nat
  PROVE  /\ Oldest(last) \in Nat \ {0} /\ Oldest(last) <= last + 1
         /\ Oldest(last) > 1 => Oldest(last) <= last
BY ThreadAssumption DEF Oldest

LEMMA LoadNewestSucceededKeeps ==
  ASSUME ThreadInv, NEW j \in DOMAIN newest, LoadNewestSucceeded(j)
  PROVE  ThreadInv'
<1>1. PICK last : last = newest[j]
  OBVIOUS
<1>2. PICK first : first = Oldest(last)
  OBVIOUS
<1>3. PICK t : t = Rows(first, last)
  OBVIOUS
<1>4. /\ shown' = t /\ cursor' = (IF first > 1 THEN first ELSE 0)
      /\ newest' = RemoveAt(newest, j) /\ UNCHANGED <<stored, older, send>>
  BY <1>1, <1>2, <1>3 DEF LoadNewestSucceeded
<1>5. /\ last \in Nat /\ last <= Len(stored) /\ last <= MaxThread /\ Len(stored) \in Nat
      /\ first \in Nat \ {0} /\ first <= last + 1 /\ (first > 1 => first <= last)
  <2>1. last \in 0 .. MaxThread /\ last <= Len(stored) /\ MaxThread \in Nat /\ Len(stored) \in Nat
    BY <1>1, ThreadTypes DEF ThreadInv, LoadsAreSound
  <2> QED
    BY <1>2, <2>1, OldestFacts
<1>6. /\ t \in Seq(Bubbles)
      /\ \A n \in DOMAIN t : /\ n \in Nat /\ first + n - 1 \in first .. last
                             /\ t[n].id = first + n - 1 /\ t[n].key = NoKey
  BY <1>3, <1>5, RowsFacts
<1>7. ASSUME NEW x \in Bubbles, x.key = NoKey, x.id \in 1 .. Len(stored) PROVE SoundBubble(x)'
  <2>1. x.id \notin ClientKeys /\ stored' = stored
    BY <1>4, <1>7, ThreadAssumption
  <2> QED
    BY <1>5, <1>7, <2>1 DEF SoundBubble
<1>8. ASSUME NEW x, NEW y, x.id \in Nat, y.id \in Nat, x.id # y.id PROVE Apart(x, y)'
  BY <1>8, ThreadAssumption DEF Apart
<1>9. \A n \in DOMAIN t : t[n] \in Bubbles /\ SoundBubble(t[n])'
  <2>1. \A n \in DOMAIN t : t[n] \in Bubbles /\ t[n].key = NoKey /\ t[n].id \in 1 .. Len(stored)
    BY <1>5, <1>6
  <2> QED
    BY <1>7, <2>1
<1>10. \A m, n \in DOMAIN t : m # n => Apart(t[m], t[n])'
  <2>1. first \in Nat /\ DOMAIN t \in SUBSET Nat
    BY <1>5, <1>6
  <2>2. \A n \in DOMAIN t : t[n].id = first + n - 1 /\ t[n].id \in Nat
    BY <1>5, <1>6
  <2>3. \A m, n \in DOMAIN t : m # n => t[m].id # t[n].id
    BY <2>1, <2>2
  <2> QED
    BY <1>8, <2>2, <2>3
<1>11. SoundBubbles(t)'
  BY <1>6, <1>9, <1>10 DEF SoundBubbles
<1>12. SendsAreSound'
  BY <1>4, SendsStay
<1>13. LoadsAreSound'
  <2>1. cursor' \in 0 .. Len(stored)
    BY <1>4, <1>5
  <2> QED
    BY <1>4, <2>1, NewestTaken DEF ThreadInv, LoadsAreSound
<1> QED
  BY <1>4, <1>11, <1>12, <1>13 DEF ThreadInv

(* The rows of an older page are older than every message a request that   *)
(* is shown has been kept as.                                              *)
LEMMA OlderPageIsSound ==
  ASSUME ThreadInv, NEW first \in Nat \ {0}, NEW last \in Nat, first <= last + 1,
         last < older
  PROVE  SoundBubbles(MergeThreadMessages(shown, Rows(first, last), "prepend"))
<1>1. PICK s : s = shown
  OBVIOUS
<1>2. PICK in : in = Rows(first, last)
  OBVIOUS
<1>3. PICK t : t = MergeThreadMessages(s, in, "prepend")
  OBVIOUS
<1>4. Len(stored) \in Nat /\ older \in Nat /\ older <= Len(stored) /\ Len(stored) <= MaxThread
      /\ MaxThread \in Nat
  BY ThreadTypes
<1>5. /\ in \in Seq(Bubbles)
      /\ \A n \in DOMAIN in : /\ n \in Nat /\ first + n - 1 \in first .. last
                              /\ in[n].id = first + n - 1 /\ in[n].key = NoKey
  <2>1. last <= MaxThread
    BY <1>4
  <2> QED
    BY <1>2, <2>1, RowsFacts
<1>6. /\ s \in Seq(Bubbles) /\ \A j \in DOMAIN s : s[j] \in Bubbles /\ SoundBubble(s[j])
      /\ \A i, j \in DOMAIN s : i # j => Apart(s[i], s[j])
  BY <1>1, ShownFacts
<1>7. \A n \in DOMAIN in : /\ in[n] \in Bubbles /\ in[n].id \in Nat /\ in[n].id < older
                           /\ in[n].id <= Len(stored) /\ in[n].key = NoKey
  BY <1>4, <1>5
<1>8. \A n \in DOMAIN in : SoundBubble(in[n])
  BY <1>7, ThreadAssumption DEF SoundBubble
<1>9. PutsBefore(s, in, t)
  <2>1. \A i \in DOMAIN in : in[i].key = NoKey
    BY <1>5
  <2> QED
    BY <1>3, <1>5, <1>6, <2>1, MergeRows
<1>10. PICK merged, additions \in Seq(Bubbles) :
           t = additions \o merged /\ PutsInPlace(s, in, merged) /\ Adds(s, in, additions)
  BY <1>9 DEF PutsBefore
<1>a. /\ DOMAIN merged = DOMAIN s
      /\ \A j \in DOMAIN merged :
           merged[j] = s[j] \/ \E i \in DOMAIN in : merged[j] = in[i] /\ in[i].id = s[j].id
  BY <1>10 DEF PutsInPlace
<1>11. PICK from \in [DOMAIN additions -> DOMAIN in] :
                /\ \A a, b \in DOMAIN additions : from[a] = from[b] => a = b
                /\ \A a \in DOMAIN additions :
                     /\ additions[a] = in[from[a]]
                     /\ \A j \in DOMAIN s : s[j].id # additions[a].id
  BY <1>10 DEF Adds
<1>12. \A j \in DOMAIN merged : SoundBubble(merged[j]) /\ merged[j].id = s[j].id
  BY <1>6, <1>8, <1>a
<1>13. \A a \in DOMAIN additions : /\ SoundBubble(additions[a]) /\ additions[a].id \in Nat
                                   /\ additions[a].id < older
  BY <1>7, <1>8, <1>11
<1>14. \A i, j \in DOMAIN merged : i # j => Apart(merged[i], merged[j])
  <2> SUFFICES ASSUME NEW i \in DOMAIN merged, NEW j \in DOMAIN merged, i # j
               PROVE  Apart(merged[i], merged[j])
    OBVIOUS
  <2>1. i \in DOMAIN s /\ j \in DOMAIN s
    BY <1>a
  <2>2. Apart(s[i], s[j])
    BY <1>6, <2>1
  <2>3. merged[i].id = s[i].id /\ merged[j].id = s[j].id
    BY <1>12
  <2> QED
    BY <2>2, <2>3 DEF Apart
<1>15. \A a, b \in DOMAIN additions : a # b => additions[a].id # additions[b].id
  <2> SUFFICES ASSUME NEW a \in DOMAIN additions, NEW b \in DOMAIN additions, a # b
               PROVE  additions[a].id # additions[b].id
    OBVIOUS
  <2>1. from[a] # from[b] /\ from[a] \in DOMAIN in /\ from[b] \in DOMAIN in
    BY <1>11
  <2>2. additions[a].id = first + from[a] - 1 /\ additions[b].id = first + from[b] - 1
    BY <1>5, <1>11, <2>1
  <2>3. first \in Nat /\ from[a] \in Nat /\ from[b] \in Nat
    BY <1>5, <2>1
  <2> QED
    BY <2>1, <2>2, <2>3
<1>16. \A a, b \in DOMAIN additions : a # b => Apart(additions[a], additions[b])
  BY <1>13, <1>15, ThreadAssumption DEF Apart
<1>17. ASSUME NEW a \in DOMAIN additions, NEW j \in DOMAIN merged
       PROVE  Apart(additions[a], merged[j]) /\ Apart(merged[j], additions[a])
  <2>1. PICK x : x = additions[a]
    OBVIOUS
  <2>2. PICK y : y = s[j]
    OBVIOUS
  <2>3. merged[j].id = y.id /\ y \in Bubbles /\ SoundBubble(y) /\ y.id # x.id
    BY <1>6, <1>a, <1>11, <1>12, <2>1, <2>2
  <2>4. x.id \in Nat /\ x.id < older /\ x.id \notin ClientKeys /\ x.id # 0
    <3>1. x \in Bubbles
      BY <1>a, <2>1
    <3> QED
      BY <1>13, <2>1, <3>1, BubbleFacts, ThreadAssumption
  <2>5. y.id \in ClientKeys => x.id # MessageOf(y.id)
    <3> SUFFICES ASSUME y.id \in ClientKeys, x.id = MessageOf(y.id) PROVE FALSE
      OBVIOUS
    <3>1. older <= x.id
      BY <2>3, <2>4 DEF SoundBubble
    <3> QED
      BY <1>4, <2>4, <3>1
  <2> QED
    BY <2>1, <2>3, <2>4, <2>5 DEF Apart
<1>18. /\ t = additions \o merged /\ t \in Seq(Bubbles) /\ Len(additions) \in Nat
       /\ Len(t) = Len(additions) + Len(merged)
       /\ \A n \in 1 .. Len(t) : t[n] = IF n <= Len(additions) THEN additions[n]
                                       ELSE merged[n - Len(additions)]
  <2>1. t = additions \o merged
    BY <1>3, <1>10
  <2>2. /\ additions \o merged \in Seq(Bubbles)
        /\ Len(additions \o merged) = Len(additions) + Len(merged)
        /\ \A n \in 1 .. Len(additions) + Len(merged) :
             (additions \o merged)[n] = IF n <= Len(additions) THEN additions[n]
                                        ELSE merged[n - Len(additions)]
    BY ConcatProperties
  <2> QED
    BY <2>1, <2>2
<1>19. \A n \in DOMAIN t : \/ n \in DOMAIN additions /\ t[n] = additions[n]
                           \/ /\ n \notin DOMAIN additions /\ n - Len(additions) \in DOMAIN merged
                              /\ t[n] = merged[n - Len(additions)]
  BY <1>10, <1>18
<1>20. \A n \in DOMAIN t : SoundBubble(t[n])
  BY <1>12, <1>13, <1>19
<1>21. \A m, n \in DOMAIN t : m # n => Apart(t[m], t[n])
  <2> SUFFICES ASSUME NEW m \in DOMAIN t, NEW n \in DOMAIN t, m # n PROVE Apart(t[m], t[n])
    OBVIOUS
  <2>1. m \in Nat /\ n \in Nat
    BY <1>18
  <2>2. m - Len(additions) # n - Len(additions)
    BY <1>18, <2>1
  <2> QED
    BY <1>14, <1>16, <1>17, <1>19, <2>2
<1>22. SoundBubbles(t)
  BY <1>18, <1>20, <1>21 DEF SoundBubbles
<1> QED
  BY <1>1, <1>2, <1>3, <1>22

LEMMA LoadOlderSucceededKeeps == ThreadInv /\ LoadOlderSucceeded => ThreadInv'
<1> SUFFICES ASSUME ThreadInv, LoadOlderSucceeded PROVE ThreadInv'
  OBVIOUS
<1>1. PICK last : last = older - 1
  OBVIOUS
<1>2. PICK first : first = Oldest(last)
  OBVIOUS
<1>3. PICK t : t = MergeThreadMessages(shown, Rows(first, last), "prepend")
  OBVIOUS
<1>4. /\ older # 0 /\ shown' = t /\ cursor' = (IF first > 1 THEN first ELSE 0) /\ older' = 0
      /\ UNCHANGED <<stored, newest, send>>
  BY <1>1, <1>2, <1>3 DEF LoadOlderSucceeded
<1>5. /\ last \in Nat /\ last < older /\ older <= Len(stored) /\ Len(stored) \in Nat /\ older \in Nat
      /\ first \in Nat \ {0} /\ first <= last + 1 /\ (first > 1 => first <= last)
  <2>1. last \in Nat /\ last < older /\ older <= Len(stored) /\ Len(stored) \in Nat /\ older \in Nat
    BY <1>1, <1>4, ThreadTypes
  <2> QED
    BY <1>2, <2>1, OldestFacts
<1>6. SoundBubbles(t)
  BY <1>3, <1>5, OlderPageIsSound
<1>7. SendsAreSound' /\ \A k : MessageOf(k)' = MessageOf(k)
  BY <1>4, SendsStay
<1>8. cursor' \in Nat /\ cursor' <= older /\ cursor' <= Len(stored)
  BY <1>4, <1>5
<1>9. GrowsOn
  BY <1>4, <1>5, <1>7, <1>8 DEF GrowsOn
<1>10. SoundBubbles(t)'
  BY <1>6, <1>9, BubblesStay
<1>11. LoadsAreSound'
  BY <1>4, <1>5, <1>8 DEF ThreadInv, LoadsAreSound
<1> QED
  BY <1>4, <1>7, <1>10, <1>11 DEF ThreadInv
-----------------------------------------------------------------------------
LEMMA SendStartedKeeps ==
  ASSUME ThreadInv, NEW k \in ClientKeys, SendStarted(k)
  PROVE  ThreadInv'
<1>1. PICK b : b = [id |-> k, key |-> k, state |-> "sending"]
  OBVIOUS
<1>2. PICK s : s = shown
  OBVIOUS
<1>3. /\ send[k] = "none" /\ UNCHANGED <<stored, cursor, newest, older>>
      /\ shown' = MergeThreadMessages(s, <<b>>, "append") /\ send' = [send EXCEPT ![k] = "asked"]
  BY <1>1, <1>2 DEF SendStarted
<1>4. b \in Bubbles /\ b.id = k /\ b.key = k /\ k \notin Nat /\ k # NoKey
  BY <1>1, ThreadAssumption DEF Bubbles
<1>5. /\ s \in Seq(Bubbles) /\ SoundBubbles(s) /\ DOMAIN s = 1 .. Len(s) /\ Len(s) \in Nat
      /\ \A j \in DOMAIN s : s[j] \in Bubbles /\ SoundBubble(s[j])
      /\ \A i, j \in DOMAIN s : i # j => Apart(s[i], s[j])
  BY <1>2, ShownFacts
<1>6. MessageOf(k) = 0
  BY <1>3 DEF ThreadInv, SendsAreSound
<1>7. \A j \in DOMAIN s : s[j].key # k /\ s[j].id # k /\ s[j].id # 0
  <2> SUFFICES ASSUME NEW j \in DOMAIN s PROVE s[j].key # k /\ s[j].id # k /\ s[j].id # 0
    OBVIOUS
  <2>1. SoundBubble(s[j]) /\ s[j] \in Bubbles
    BY <1>5
  <2>2. s[j].key # k
    BY <1>3, <1>4, <2>1 DEF SoundBubble
  <2>3. s[j].id # k
    BY <2>1, <2>2 DEF SoundBubble
  <2>4. s[j].id # 0
    BY <2>1, BubbleFacts, ThreadAssumption
  <2> QED
    BY <2>2, <2>3, <2>4
<1>8. PICK m : m = MatchingIndex(s, b)
  OBVIOUS
<1>9. m = 0
  <2>1. /\ m \in 0 .. Len(s)
        /\ m # 0 => s[m].key = k \/ s[m].id = k
    BY <1>4, <1>5, <1>8, MatchingFacts
  <2> QED
    BY <1>5, <1>7, <2>1
<1>10. PICK t : t = Append(s, b)
  OBVIOUS
<1>11. shown' = t
  BY <1>3, <1>4, <1>5, <1>8, <1>9, <1>10, MergeOne
<1>12. /\ t \in Seq(Bubbles) /\ Len(t) = Len(s) + 1 /\ t[Len(s) + 1] = b
       /\ \A j \in 1 .. Len(s) : t[j] = s[j]
  BY <1>4, <1>5, <1>10, AppendProperties
<1>13. /\ send' \in [ClientKeys -> SendStates] /\ send'[k] = "asked"
       /\ \A l \in ClientKeys : l # k => send'[l] = send[l]
  BY <1>3, ThreadTypes DEF SendStates
<1>14. \A l : MessageOf(l)' = MessageOf(l)
  BY <1>3, MessagesStay
<1>15. GrowsOn
  BY <1>3, <1>13, <1>14, ThreadTypes DEF GrowsOn
<1>16. SoundBubbles(s)'
  BY <1>5, <1>15, BubblesStay
<1>17. /\ \A j \in DOMAIN s : SoundBubble(s[j])'
       /\ \A i, j \in DOMAIN s : i # j => Apart(s[i], s[j])'
  BY <1>16 DEF SoundBubbles
<1>18. SoundBubble(b)'
  BY <1>4, <1>6, <1>13, <1>14 DEF SoundBubble
<1>19. ASSUME NEW j \in DOMAIN s PROVE Apart(s[j], b)' /\ Apart(b, s[j])'
  <2>1. PICK c : c = s[j]
    OBVIOUS
  <2>2. c.id # k /\ c.id # 0
    BY <1>7, <2>1
  <2>3. MessageOf(k)' = 0
    BY <1>6, <1>14
  <2>4. \A l : MessageOf(l)' # k
    <3>1. Len(stored) \in Nat
      BY ThreadTypes
    <3> QED
      BY <1>4, <1>14, <3>1, MessageFacts
  <2>5. Apart(c, b)' /\ Apart(b, c)'
    BY <1>4, <2>2, <2>3, <2>4 DEF Apart
  <2> QED
    BY <2>1, <2>5
<1>20. \A n \in DOMAIN t : \/ n \in DOMAIN s /\ t[n] = s[n]
                           \/ n = Len(s) + 1 /\ t[n] = b
  BY <1>5, <1>12
<1>21. \A n \in DOMAIN t : SoundBubble(t[n])'
  BY <1>17, <1>18, <1>20
<1>22. \A i, j \in DOMAIN t : i # j => Apart(t[i], t[j])'
  BY <1>17, <1>19, <1>20
<1>23. SoundBubbles(t)'
  BY <1>12, <1>21, <1>22 DEF SoundBubbles
<1>24. SendsAreSound'
  BY <1>3, <1>13, <1>14 DEF ThreadInv, SendsAreSound
<1>25. LoadsAreSound'
  BY <1>3 DEF ThreadInv, LoadsAreSound
<1> QED
  BY <1>11, <1>23, <1>24, <1>25 DEF ThreadInv

(* The answer finds the bubble of its key, or else the row of its message. *)
LEMMA AnswerIsSound ==
  ASSUME ThreadInv, NEW k \in ClientKeys, send[k] = "kept", NEW b,
         b = [id |-> MessageOf(k), key |-> k, state |-> "none"]
  PROVE  SoundBubbles(MergeThreadMessages(shown, <<b>>, "append"))
<1>1. PICK s : s = shown
  OBVIOUS
<1>2. PICK id : id = MessageOf(k)
  OBVIOUS
<1>3. /\ id \in 1 .. Len(stored) /\ stored[id] = k /\ id \in 1 .. MaxThread /\ id \in Nat
  <2>1. MessageOf(k) # 0 /\ MessageOf(k) \in 0 .. Len(stored) /\ stored[MessageOf(k)] = k
    BY MessageFacts DEF ThreadInv, SendsAreSound
  <2> QED
    BY <1>2, <2>1, ThreadTypes
<1>4. b \in Bubbles /\ b.id = id /\ b.key = k /\ k # NoKey /\ id \notin ClientKeys /\ k \notin Nat
  BY <1>2, <1>3, ThreadAssumption DEF Bubbles
<1>5. SoundBubble(b)
  BY <1>2, <1>3, <1>4 DEF SoundBubble
<1>6. /\ s \in Seq(Bubbles) /\ DOMAIN s = 1 .. Len(s) /\ Len(s) \in Nat
      /\ \A j \in DOMAIN s : s[j] \in Bubbles /\ SoundBubble(s[j])
      /\ \A i, j \in DOMAIN s : i # j => Apart(s[i], s[j])
  BY <1>1, ShownFacts
<1>7. PICK m : m = MatchingIndex(s, b)
  OBVIOUS
<1>8. /\ m \in 0 .. Len(s)
      /\ m = 0 => \A j \in 1 .. Len(s) : s[j].id # id /\ s[j].key # k
      /\ m # 0 => \/ s[m].key = k
                  \/ s[m].id = id /\ \A j \in 1 .. Len(s) : s[j].key # k
  BY <1>4, <1>6, <1>7, MatchingFacts
<1>9. \A c \in Bubbles : SoundBubble(c) /\ c.key = k => c.id = k \/ c.id = id
  BY <1>2, <1>4 DEF SoundBubble
<1>10. \A c \in Bubbles : c.id \in ClientKeys /\ MessageOf(c.id) = id => c.id = k
  BY <1>3, MessageFacts
<1>11. ASSUME NEW j \in DOMAIN s, j # m
       PROVE  s[j].id # id /\ (s[j].id \in ClientKeys => MessageOf(s[j].id) # id)
  <2>1. PICK c : c = s[j]
    OBVIOUS
  <2>2. c \in Bubbles /\ SoundBubble(c)
    BY <1>6, <2>1
  <2>3. CASE m = 0
    <3>1. c.id # id /\ c.key # k
      BY <1>6, <1>8, <2>1, <2>3
    <3>2. c.id # k
      BY <2>2, <3>1 DEF SoundBubble
    <3> QED
      BY <1>10, <2>1, <2>2, <3>1, <3>2
  <2>4. CASE m # 0
    <3>1. PICK d : d = s[m]
      OBVIOUS
    <3>2. d \in Bubbles /\ SoundBubble(d) /\ Apart(d, c)
      BY <1>6, <1>8, <1>11, <2>1, <2>4, <3>1
    <3>3. d.id = k \/ d.id = id
      BY <1>8, <1>9, <2>4, <3>1, <3>2
    <3>4. CASE d.id = id
      <4>1. c.id # id /\ (c.id \in ClientKeys => id # MessageOf(c.id))
        BY <3>2, <3>4 DEF Apart
      <4> QED
        BY <2>1, <4>1
    <3>5. CASE d.id = k
      <4>1. c.id # id /\ c.id # k
        BY <1>2, <3>2, <3>5 DEF Apart
      <4> QED
        BY <1>10, <2>1, <2>2, <4>1
    <3> QED
      BY <3>3, <3>4, <3>5
  <2> QED
    BY <2>3, <2>4
<1>12. ASSUME NEW j \in DOMAIN s, j # m PROVE Apart(s[j], b) /\ Apart(b, s[j])
  BY <1>4, <1>11, <1>12 DEF Apart
<1>13. PICK t : t = MergeThreadMessages(s, <<b>>, "append")
  OBVIOUS
<1>14. t = IF m = 0 THEN Append(s, b) ELSE [s EXCEPT ![m] = b]
  BY <1>4, <1>6, <1>7, <1>13, MergeOne
<1>15. /\ t \in Seq(Bubbles)
       /\ \A n \in DOMAIN t : \/ t[n] = b
                              \/ n \in DOMAIN s /\ n # m /\ t[n] = s[n]
       /\ \A i, j \in DOMAIN t : i # j => \/ i \in DOMAIN s /\ i # m /\ t[i] = s[i]
                                          \/ j \in DOMAIN s /\ j # m /\ t[j] = s[j]
  <2>1. CASE m = 0
    <3>1. /\ t \in Seq(Bubbles) /\ Len(t) = Len(s) + 1 /\ t[Len(s) + 1] = b
          /\ \A j \in 1 .. Len(s) : t[j] = s[j]
      BY <1>4, <1>6, <1>14, <2>1, AppendProperties
    <3>2. \A n \in DOMAIN t : \/ n \in DOMAIN s /\ n # m /\ t[n] = s[n]
                              \/ n = Len(s) + 1 /\ t[n] = b
      BY <1>6, <2>1, <3>1
    <3> QED
      BY <3>1, <3>2
  <2>2. CASE m # 0
    <3>1. DOMAIN t = DOMAIN s /\ \A n \in DOMAIN s : t[n] = IF n = m THEN b ELSE s[n]
      BY <1>6, <1>8, <1>14, <2>2
    <3>2. t \in Seq(Bubbles)
      BY <1>4, <1>6, <1>8, <1>14, <2>2
    <3> QED
      BY <3>1, <3>2
  <2> QED
    BY <2>1, <2>2
<1>16. \A n \in DOMAIN t : SoundBubble(t[n])
  BY <1>5, <1>6, <1>15
<1>17. \A i, j \in DOMAIN t : i # j => Apart(t[i], t[j])
  BY <1>6, <1>12, <1>15
<1>18. SoundBubbles(t)
  BY <1>15, <1>16, <1>17 DEF SoundBubbles
<1> QED
  BY <1>1, <1>13, <1>18

LEMMA SendSucceededKeeps ==
  ASSUME ThreadInv, NEW k \in ClientKeys, SendSucceeded(k)
  PROVE  ThreadInv'
<1>1. PICK b : b = [id |-> MessageOf(k), key |-> k, state |-> "none"]
  OBVIOUS
<1>2. PICK t : t = MergeThreadMessages(shown, <<b>>, "append")
  OBVIOUS
<1>3. /\ send[k] = "kept" /\ shown' = t /\ send' = [send EXCEPT ![k] = "over"]
      /\ UNCHANGED <<stored, cursor, newest, older>>
  BY <1>1, <1>2 DEF SendSucceeded
<1>4. SoundBubbles(t)
  BY <1>1, <1>2, <1>3, AnswerIsSound
<1>5. /\ send' \in [ClientKeys -> SendStates] /\ send'[k] = "over"
      /\ \A l \in ClientKeys : l # k => send'[l] = send[l]
  BY <1>3, ThreadTypes DEF SendStates
<1>6. \A l : MessageOf(l)' = MessageOf(l)
  BY <1>3, MessagesStay
<1>7. GrowsOn
  BY <1>3, <1>5, <1>6, ThreadTypes DEF GrowsOn
<1>8. SoundBubbles(t)'
  BY <1>4, <1>7, BubblesStay
<1>9. SendsAreSound'
  BY <1>3, <1>5, <1>6 DEF ThreadInv, SendsAreSound
<1>10. LoadsAreSound'
  BY <1>3 DEF ThreadInv, LoadsAreSound
<1> QED
  BY <1>3, <1>8, <1>9, <1>10 DEF ThreadInv

LEMMA StepThreadInv == ThreadInv /\ [ThreadNext]_threadVars => ThreadInv'
<1> SUFFICES ASSUME ThreadInv, [ThreadNext]_threadVars PROVE ThreadInv'
  OBVIOUS
<1>1. CASE MessageArrives \/ ReadNewest \/ LoadOlder \/ LoadOlderSucceeded \/ LoadOlderFailed
  BY <1>1, MessageArrivesKeeps, ReadNewestKeeps, LoadOlderKeeps, LoadOlderSucceededKeeps
<1>2. ASSUME NEW j \in DOMAIN newest, LoadNewestSucceeded(j) \/ LoadNewestFailed(j)
      PROVE  ThreadInv'
  BY <1>2, LoadNewestSucceededKeeps, LoadNewestFailedKeeps
<1>3. ASSUME NEW k \in ClientKeys,
             SendStarted(k) \/ SendIsKept(k) \/ SendSucceeded(k) \/ SendFailed(k) \/ RetryStarted(k)
      PROVE  ThreadInv'
  BY <1>3, SendStartedKeeps, SendIsKeptKeeps, SendSucceededKeeps, SendFailedKeeps,
     RetryStartedKeeps
<1>4. CASE UNCHANGED threadVars
  <2>1. UNCHANGED <<stored, shown, cursor, newest, older, send>>
    BY <1>4 DEF threadVars
  <2>2. SendsAreSound' /\ \A k : MessageOf(k)' = MessageOf(k)
    BY <2>1, SendsStay
  <2>3. GrowsOn
    BY <2>1, <2>2, ThreadTypes DEF GrowsOn
  <2>4. \A s : SoundBubbles(s) => SoundBubbles(s)'
    BY <2>3, BubblesStay
  <2>5. LoadsAreSound'
    BY <2>1 DEF ThreadInv, LoadsAreSound
  <2> QED
    BY <2>1, <2>2, <2>4, <2>5, ShownFacts DEF ThreadInv
<1> QED
  BY <1>1, <1>2, <1>3, <1>4 DEF ThreadNext

(* The inductive invariant of the thread: a bubble that stands for a       *)
(* request stands beside no row of the message it was kept as, and no page *)
(* of older messages under way can bring that row (thread.ts, ChatPane).   *)
THEOREM ThreadInvariant == ThreadSpec => []ThreadInv
<1>1. ThreadInit => ThreadInv
  BY InitThreadInv
<1>2. ThreadInv /\ [ThreadNext]_threadVars => ThreadInv'
  BY StepThreadInv
<1> QED
  BY <1>1, <1>2, PTL DEF ThreadSpec

-----------------------------------------------------------------------------
(***************************************************************************)
(* The five parts together.                                                *)
(***************************************************************************)
ClientInv == CardInv /\ WriteInv /\ PagesInv /\ ItemInv /\ ThreadInv

LEMMA EachPartMoves ==
  ASSUME [ClientNext]_ClientVars
  PROVE  /\ [CardNext]_cardVars /\ [WriteNext]_writeVars /\ [ListNext]_listVars
         /\ [ItemNext]_itemVars /\ [ThreadNext]_threadVars
BY DEF ClientNext, ClientVars

(* The five inductive invariants hold together, a step of one part leaving *)
(* the others as they are.                                                 *)
THEOREM ClientInvariant == ClientSpec => []ClientInv
<1>1. ClientInit => ClientInv
  BY InitCardInv, InitWriteInv, InitPagesInv, InitItemInv, InitThreadInv DEF ClientInit, ClientInv
<1>2. ClientInv /\ [ClientNext]_ClientVars => ClientInv'
  BY EachPartMoves, StepCardInv, StepWriteInv, StepPagesInv, StepItemInv, StepThreadInv
     DEF ClientInv
<1> QED
  BY <1>1, <1>2, PTL DEF ClientSpec

(* All that the clients show and ask for stays in its type: in particular  *)
(* a column of a card is never without a value, however drafts are rebased *)
(* (customerCardModel.ts), and no request is under way without an author.  *)
THEOREM ClientTypeCorrect == ClientSpec => []ClientTypeOK
<1>1. ClientInv => ClientTypeOK
  BY CardInvSays, ItemInvSays, ThreadInvSays
     DEF ClientInv, ClientTypeOK, WriteInv, PagesInv
<1> QED
  BY <1>1, ClientInvariant, PTL

(* No item and no message is on a screen twice, however answers, reloads   *)
(* and failures cross (replaceByRequestItem, mergeThreadMessages).         *)
THEOREM ShownOnce == ClientSpec => []NothingIsShownTwice
<1>1. ClientInv => NothingIsShownTwice
  BY ItemInvSays, ThreadInvSays DEF ClientInv, NothingIsShownTwice
<1> QED
  BY <1>1, ClientInvariant, PTL
=============================================================================
