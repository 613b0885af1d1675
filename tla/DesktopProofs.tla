--------------------------- MODULE DesktopProofs ---------------------------
(***************************************************************************)
(* The desktop's selection, its palette and its body field, for any number *)
(* of maps, nodes, others and gestures.                                    *)
(***************************************************************************)
EXTENDS Desktop, TLAPS

(* Requests, as a bag. *)

LEMMA AskAdds ==
    ASSUME NEW r, Ask(r)
    PROVE  BagToSet(asked') = BagToSet(asked) \cup {r}
BY DEF Ask, SetToBag, BagToSet, (+)

LEMMA AnsweredTakes ==
    ASSUME NEW r, Answered(r)
    PROVE  BagToSet(asked') \subseteq BagToSet(asked)
BY DEF Answered, SetToBag, BagToSet, (-)

LEMMA FurtherAdds ==
    ASSUME NEW r, NEW s, asked' = asked (-) SetToBag({r}) (+) SetToBag({s})
    PROVE  BagToSet(asked') \subseteq BagToSet(asked) \cup {s}
BY DEF SetToBag, BagToSet, (+), (-)

-----------------------------------------------------------------------------
(* What is on the screen, and selected. *)

Screen ==
    /\ cards \subseteq Node /\ group \subseteq Node
    /\ selectedId \in Node \cup {Nil}
    /\ multiSelected \subseteq Node
    /\ editingId \in Node \cup {Nil}

\* A request names the nodes its answer will show; what was typed for a node is
\* written to that node.
Fit(r) ==
    /\ r.do \in {"insert", "upload", "patch"} => r.node \in Node
    /\ r.do = "bulk" => r.nodes \subseteq Node
    /\ r.do = "patch" => r.node = r.typedFor
Requests == \A r \in BagToSet(asked) : Fit(r)

\* A step leaves nodes on the screen, and the selection sound unless the card
\* of something selected may have gone.
Settled == cards \subseteq cards' /\ \A r \in BagToSet(asked) : ~Unsettling(r)
Keeps   == Screen' /\ (Sound /\ Settled => Sound')

LEMMA CaretIsEditor ==
    ASSUME Caret \in Node
    PROVE  Caret \in cards /\ editingId = Caret
BY FieldsAssumption DEF Caret, Card

LEMMA StillKeeps ==
    ASSUME Screen, UNCHANGED <<cards, group, selection>>
    PROVE  Keeps
BY DEF Keeps, Screen, Sound, selection

LEMMA SelectKeeps ==
    ASSUME Screen, NEW n \in cards \cup {Nil}, Select(n), UNCHANGED <<cards, group>>
    PROVE  Keeps
BY NilAssumption DEF Keeps, Screen, Sound, Select, Chosen

LEMMA SetSelectionKeeps ==
    ASSUME Screen, NEW ids \in SUBSET Node, SetSelection(ids), UNCHANGED <<cards, group>>,
           Sound => ids \subseteq cards
    PROVE  Keeps
BY NilAssumption DEF Keeps, Screen, Sound, SetSelection, Select, Chosen

LEMMA ToggleKeeps ==
    ASSUME Screen, NEW n \in cards, ToggleSelected(n), UNCHANGED <<cards, group>>
    PROVE  Keeps
<1>1. CASE selectedId = n /\ SetSelection(multiSelected)
  BY <1>1, SetSelectionKeeps DEF Screen, Sound
<1>2. CASE Select(n)
  BY <1>2, SelectKeeps
<1>3. CASE /\ selectedId \notin {n, Nil}
           /\ Chosen(selectedId, (multiSelected \ {n}) \cup ({n} \ multiSelected), Nil)
  BY <1>3, NilAssumption DEF Keeps, Screen, Sound, Chosen
<1> QED
  BY <1>1, <1>2, <1>3 DEF ToggleSelected

LEMMA EditKeeps ==
    ASSUME Screen, UNCHANGED <<cards, group>>,
           \/ BeginEdit(selectedId) /\ selectedId \in cards
           \/ CancelEdit
           \/ CommitTitle(Caret) /\ Caret \in Node
    PROVE  Keeps
<1>1. CASE BeginEdit(selectedId) /\ selectedId \in cards
  BY <1>1, NilAssumption DEF Keeps, Screen, Sound, BeginEdit, Chosen
<1>2. CASE CancelEdit
  BY <1>2, NilAssumption DEF Keeps, Screen, Sound, CancelEdit, Chosen
<1>3. CASE CommitTitle(Caret) /\ Caret \in Node
  <2>1. Caret \in cards /\ editingId = Caret /\ Caret # Nil
    BY <1>3, CaretIsEditor, NilAssumption
  <2> QED
    BY <1>3, <2>1, NilAssumption DEF Keeps, Screen, Sound, CommitTitle, Chosen
<1> QED
  BY <1>1, <1>2, <1>3

LEMMA LeavingKeeps ==
    ASSUME Screen, Left, UNCHANGED <<cards, group>>
    PROVE  Keeps
<1>1. CASE Caret \in Node /\ CommitTitle(Caret)
  BY <1>1, EditKeeps
<1>2. CASE UNCHANGED selection
  BY <1>2, StillKeeps
<1> QED
  BY <1>1, <1>2 DEF Left

LEMMA KeyboardKeeps ==
    ASSUME Screen, Keyboard
    PROVE  Keeps
<1>1. CASE KeyCreate \/ KeyRemove \/ KeyGroup
  BY <1>1, StillKeeps DEF KeyCreate, KeyRemove, KeyGroup, GroupSelection, Sending, world
<1>2. CASE KeyEdit
  BY <1>2, EditKeeps DEF KeyEdit, Card, Selecting, world
<1>3. CASE KeySelect
  <2>1. UNCHANGED <<cards, group>>
    BY <1>3 DEF KeySelect, Selecting, world
  <2>2. CASE \E n \in cards \ {selectedId} : Select(n)
    BY <2>1, <2>2, SelectKeeps
  <2>3. CASE \E visible \in SUBSET cards : SetSelection(visible)
    BY <2>1, <2>3, SetSelectionKeeps DEF Screen
  <2> QED
    BY <1>3, <2>2, <2>3 DEF KeySelect
<1>4. CASE KeyEscape
  <2>1. UNCHANGED <<cards, group>>
    BY <1>4 DEF KeyEscape, world
  <2>2. UNCHANGED selection \/ Select(Nil)
    BY <1>4 DEF KeyEscape
  <2> QED
    BY <2>1, <2>2, StillKeeps, SelectKeeps
<1>5. CASE KeyUndo
  <2>1. UNCHANGED <<cards, group>>
    BY <1>5 DEF KeyUndo, world
  <2>2. UNCHANGED selection \/ (Caret \in Node /\ CommitTitle(Caret))
    BY <1>5 DEF KeyUndo
  <2> QED
    BY <2>1, <2>2, StillKeeps, EditKeeps
<1> QED
  BY <1>1, <1>2, <1>3, <1>4, <1>5 DEF Keyboard

LEMMA PointerKeeps ==
    ASSUME Screen, Pointer
    PROVE  Keeps
<1>1. CASE Click
  <2>1. UNCHANGED <<cards, group>>
    BY <1>1 DEF Click, world
  <2>2. Select(Nil) \/ \E n \in cards : Select(n) \/ ToggleSelected(n)
    BY <1>1 DEF Click
  <2> QED
    BY <2>1, <2>2, SelectKeeps, ToggleKeeps
<1>2. CASE Marquee
  <2>1. UNCHANGED <<cards, group>>
    BY <1>2 DEF Marquee, Selecting, world
  <2>2. \E ids \in SUBSET Node : SetSelection(ids) /\ (Sound => ids \subseteq cards)
    BY <1>2 DEF Marquee, Screen, Sound
  <2> QED
    BY <2>1, <2>2, SetSelectionKeeps
<1>3. CASE PickMap \/ \E p \in Peer : Roster(p)
  BY <1>3, StillKeeps DEF PickMap, Roster, world
<1> QED
  BY <1>1, <1>2, <1>3 DEF Pointer

LEMMA DetailsKeep ==
    ASSUME Screen, Details
    PROVE  Keeps
<1>1. CASE PanelOfNode
  <2>1. UNCHANGED <<cards, group>>
    BY <1>1 DEF PanelOfNode, Sending, Selecting, world
  <2>2. UNCHANGED selection \/ \E n \in cards : Select(n)
    BY <1>1 DEF PanelOfNode, Sending
  <2> QED
    BY <2>1, <2>2, StillKeeps, SelectKeeps
<1>2. CASE TypeBody
  BY <1>2, StillKeeps DEF TypeBody, world
<1>3. CASE PanelOfSeveral
  <2>1. UNCHANGED <<cards, group>>
    BY <1>3 DEF PanelOfSeveral, GroupSelection, Sending, Selecting, world
  <2>2. UNCHANGED selection \/ Select(Nil)
    BY <1>3 DEF PanelOfSeveral, GroupSelection, Sending
  <2> QED
    BY <2>1, <2>2, StillKeeps, SelectKeeps
<1> QED
  BY <1>1, <1>2, <1>3 DEF Details

LEMMA TypingKeeps ==
    ASSUME Screen, Typing
    PROVE  Keeps
<1>1. CASE Blur \/ TakeCaret
  BY <1>1, LeavingKeeps DEF Blur, TakeCaret, CaretTo, world
<1>2. CASE TitleEscape
  BY <1>2, EditKeeps DEF TitleEscape, Selecting, world
<1> QED
  BY <1>1, <1>2 DEF Typing

LEMMA SearchKeeps ==
    ASSUME Screen, Search
    PROVE  Keeps
<1>1. CASE InPalette \/ Insert \/ ClosePalette \/ SearchStep \/ SearchFailure
  BY <1>1, StillKeeps DEF InPalette, Insert, ClosePalette, SearchStep, SearchFailure, world
<1>2. CASE Jump
  <2>1. UNCHANGED <<cards, group>>
    BY <1>2 DEF Jump, world
  <2>2. UNCHANGED selection \/ \E n \in cards : Select(n)
    BY <1>2 DEF Jump, Card
  <2> QED
    BY <2>1, <2>2, StillKeeps, SelectKeeps
<1> QED
  BY <1>1, <1>2 DEF Search

LEMMA EffectKeeps ==
    ASSUME Screen, Effect
    PROVE  Keeps
<1>1. CASE FollowEffect \/ BodyEffect
  BY <1>1, StillKeeps DEF FollowEffect, BodyEffect, world
<1>2. CASE JumpEffect
  BY <1>2, SelectKeeps DEF JumpEffect, JumpDue, Card, world
<1>3. CASE SearchEffect /\ UNCHANGED <<world, selection, asked, panels, follow, jump, spent>>
  BY <1>3, StillKeeps DEF world
<1> QED
  BY <1>1, <1>2, <1>3 DEF Effect

LEMMA WorldKeeps ==
    ASSUME Screen, World
    PROVE  Keeps
<1>1. CASE \E m \in Map, n \in Node \ Unborn : OthersAdd(m, n)
  <2>1. PICK m \in Map, n \in Node \ Unborn : OthersAdd(m, n)
    BY <1>1
  <2>2. cards' \in {cards, cards \cup {n}} /\ UNCHANGED <<group, selection>>
    BY <2>1 DEF OthersAdd
  <2> QED
    BY <2>2 DEF Keeps, Screen, Sound, selection
<1>2. CASE \E m \in Map, n \in Node \ Unborn : OthersRemove(m, n)
  <2>1. PICK m \in Map, n \in Node \ Unborn : OthersRemove(m, n)
    BY <1>2
  <2>2. DropNode(n) /\ group' = group
    BY <2>1 DEF OthersRemove
  <2> QED
    BY <2>2, NilAssumption DEF Keeps, Settled, Screen, Sound, DropNode, Chosen
<1>3. CASE OthersRewrite \/ Invalidated \/ \E p \in Peer : PeerMoves(p)
  BY <1>3, StillKeeps DEF OthersRewrite, Invalidated, PeerMoves, world
<1> QED
  BY <1>1, <1>2, <1>3 DEF World

LEMMA AnswersKeep ==
    ASSUME Screen, Requests, Replies
    PROVE  Keeps
<1>1. PICK r \in BagToSet(asked) : Answer(r) \/ Fail(r)
  BY DEF Replies
<1>2. Fit(r)
  BY DEF Requests
<1>3. CASE Fail(r) \/ FurtherAsk(r)
  BY <1>3, StillKeeps DEF Fail, FurtherAsk
<1>4. CASE OpenAnswer(r)
  <2>1. ~Settled
    BY <1>4 DEF Settled, Unsettling
  <2>2. Screen'
    BY <1>4 DEF OpenAnswer, ShowMap, Chosen, Screen, On
  <2> QED
    BY <2>1, <2>2 DEF Keeps
<1>5. CASE ReloadAnswer(r)
  <2>1. Refetched(r.map)
    BY <1>5 DEF ReloadAnswer
  <2> QED
    BY <2>1, NilAssumption DEF Keeps, Settled, Screen, Sound, Refetched, Chosen, On
<1>6. CASE NodeAnswer(r) /\ r.do = "create"
  <2>1. PICK n \in Unborn : cards' = cards \cup {n} /\ SelectNew(n)
    BY <1>6 DEF NodeAnswer
  <2>2. n \in Node /\ n \notin cards /\ group' = group
    BY <1>6, <2>1 DEF Unborn, NodeAnswer
  <2> QED
    BY <2>1, <2>2, NilAssumption DEF Keeps, Screen, Sound, SelectNew, Chosen
<1>7. CASE NodeAnswer(r) /\ r.do = "insert"
  <2>1. cards' = cards \cup {r.node} /\ SelectInserted(r.node) /\ group' = group
    BY <1>7 DEF NodeAnswer
  <2>2. r.node \in Node /\ (Settled => r.node \notin cards)
    BY <1>2, <1>7 DEF Fit, Settled, Unsettling, Card
  <2> QED
    BY <2>1, <2>2, NilAssumption DEF Keeps, Screen, Sound, SelectInserted, Chosen
<1>8. CASE NodeAnswer(r) /\ r.do = "remove"
  <2>1. DropNode(r.node) /\ group' = group
    BY <1>8 DEF NodeAnswer
  <2> QED
    BY <2>1, NilAssumption DEF Keeps, Settled, Screen, Sound, DropNode, Chosen
<1>9. CASE NodeAnswer(r) /\ r.do \in {"patch", "bulk"}
  <2>1. PICK ns \in SUBSET Node : cards' = cards \cup ns
    BY <1>2, <1>9 DEF NodeAnswer, Fit
  <2>2. UNCHANGED <<group, selection>>
    BY <1>9 DEF NodeAnswer
  <2> QED
    BY <2>1, <2>2 DEF Keeps, Screen, Sound, selection
<1> QED
  BY <1>1, <1>3, <1>4, <1>5, <1>6, <1>7, <1>8, <1>9 DEF Answer, NodeAnswer

LEMMA NextKeeps ==
    ASSUME Screen, Requests, [Next]_vars
    PROVE  Keeps
<1>1. CASE Panels
  BY <1>1, StillKeeps DEF Panels, world
<1>2. CASE UNCHANGED vars
  BY <1>2, StillKeeps DEF vars, world
<1> QED
  BY <1>1, <1>2, KeyboardKeeps, PointerKeeps, DetailsKeep, TypingKeeps, SearchKeeps,
     EffectKeeps, WorldKeeps, AnswersKeep DEF Next

-----------------------------------------------------------------------------
(* The palette. *)

\* What is being searched for and was not called off is what was last searched
\* for; the rows answer that, or such a search is under way, or it was lost.
Searching ==
    /\ q \in Query
    /\ \A s \in searches : /\ s \in [q : Query, at : {"timer", "flight"}, cancelled : BOOLEAN]
                           /\ ~s.cancelled => s.q = searched[1]
    /\ searched[2] # Nil =>
          \/ rows.of = searched[1] \/ searchLost
          \/ \E s \in searches : s.q = searched[1] /\ ~s.cancelled
Highlit ==
    /\ rows.hits \in Seq(Node)
    /\ cursor \in Int
    /\ rows.hits # <<>> => cursor + 1 \in DOMAIN rows.hits
PaletteInv == Searching /\ Highlit

LEMMA CallingOff ==
    ASSUME Searching, NEW s \in CalledOff(searches)
    PROVE  s \in [q : Query, at : {"timer", "flight"}, cancelled : BOOLEAN] /\ s.cancelled
<1>1. PICK t \in searches : s = [t EXCEPT !.cancelled = TRUE]
  BY DEF CalledOff
<1>2. t \in [q : Query, at : {"timer", "flight"}, cancelled : BOOLEAN]
  BY <1>1 DEF Searching
<1> QED
  BY <1>1, <1>2

LEMMA PaletteSet ==
    ASSUME PaletteInv, NEW v, SetPalette(v)
    PROVE  PaletteInv'
<1>1. CASE UNCHANGED palette
  BY <1>1 DEF PaletteInv, Searching, Highlit, palette
<1>2. CASE /\ searches' = CalledOff(searches)
           /\ searched' = <<Nil, Nil>>
           /\ q' = NoText /\ cursor' = 0 /\ rows' = NoRows
  <2>1. Searching'
    BY <1>2, CallingOff, PaletteAssumption DEF PaletteInv, Searching
  <2>2. Highlit'
    BY <1>2 DEF Highlit, NoRows
  <2> QED
    BY <2>1, <2>2 DEF PaletteInv
<1> QED
  BY <1>1, <1>2 DEF SetPalette

LEMMA SearchBegun ==
    ASSUME PaletteInv, SearchEffect
    PROVE  PaletteInv'
<1> DEFINE new == [q |-> q, at |-> "timer", cancelled |-> FALSE]
<1>1. searches' = CalledOff(searches) \cup {new} /\ searched' = <<q, mapId>>
  BY DEF SearchEffect
<1>2. new \in [q : Query, at : {"timer", "flight"}, cancelled : BOOLEAN] /\ new.q = q /\ ~new.cancelled
  BY DEF PaletteInv, Searching
<1>3. UNCHANGED <<q, rows, cursor>>
  BY DEF SearchEffect
<1> HIDE DEF new
<1>4. Searching'
  BY <1>1, <1>2, <1>3, CallingOff DEF PaletteInv, Searching
<1> QED
  BY <1>3, <1>4 DEF PaletteInv, Highlit

LEMMA HighlightMoves ==
    ASSUME PaletteInv, Highlight
    PROVE  PaletteInv'
<1>1. Searching'
  BY DEF Highlight, PaletteInv, Searching
<1>2. Highlit'
  <2> DEFINE n == Len(rows.hits)
  <2>1. n \in Nat /\ DOMAIN rows.hits = 1..n /\ (rows.hits # <<>> => n >= 1)
    BY DEF PaletteInv, Highlit
  <2>2. cursor \in Int /\ (rows.hits # <<>> => cursor + 1 \in 1..n)
    BY <2>1 DEF PaletteInv, Highlit
  <2>3. /\ rows' = rows
        /\ \/ cursor' = IF cursor + 1 < n THEN cursor + 1 ELSE n - 1
           \/ cursor' = IF cursor > 0 THEN cursor - 1 ELSE 0
           \/ \E i \in 1..n : cursor' = i - 1
    BY <2>1 DEF Highlight
  <2> HIDE DEF n
  <2>4. cursor' \in Int /\ (rows.hits # <<>> => cursor' + 1 \in 1..n)
    BY <2>1, <2>2, <2>3
  <2> QED
    BY <2>1, <2>3, <2>4 DEF PaletteInv, Highlit
<1> QED
  BY <1>1, <1>2 DEF PaletteInv

LEMMA SearchMoves ==
    ASSUME PaletteInv, NEW s \in searches, SearchSent(s) \/ SearchAnswered(s) \/ SearchFails(s)
    PROVE  PaletteInv'
<1>1. s \in [q : Query, at : {"timer", "flight"}, cancelled : BOOLEAN] /\ (~s.cancelled => s.q = searched[1])
  BY DEF PaletteInv, Searching
<1>2. CASE SearchSent(s)
  <2> DEFINE t == [s EXCEPT !.at = "flight"]
  <2>1. /\ t \in [q : Query, at : {"timer", "flight"}, cancelled : BOOLEAN]
        /\ t.q = s.q /\ t.cancelled = s.cancelled
    BY <1>1
  <2>2. searches' = (searches \ {s}) \cup {t} /\ UNCHANGED <<q, rows, cursor, searched, searchLost>>
    BY <1>2 DEF SearchSent
  <2> HIDE DEF t
  <2> QED
    BY <1>1, <2>1, <2>2 DEF PaletteInv, Searching, Highlit
<1>3. CASE SearchAnswered(s) /\ s.cancelled
  BY <1>3 DEF SearchAnswered, PaletteInv, Searching, Highlit
<1>4. CASE SearchAnswered(s) /\ ~s.cancelled
  <2>1. /\ searches' = searches \ {s} /\ UNCHANGED <<q, searched, searchLost>>
        /\ rows' = Found(s.q) /\ cursor' = 0
    BY <1>4 DEF SearchAnswered
  <2>2. rows'.of = searched'[1]
    BY <1>1, <1>4, <2>1 DEF Found
  <2>3. rows'.hits \in Seq(Node)
    BY <1>1, <2>1, PaletteAssumption DEF Found
  <2>4. Searching'
    BY <2>1, <2>2 DEF PaletteInv, Searching
  <2>5. Highlit'
    BY <2>1, <2>3 DEF Highlit
  <2> QED
    BY <2>4, <2>5 DEF PaletteInv
<1>5. CASE SearchFails(s)
  <2>1. /\ searches' = searches \ {s} /\ UNCHANGED <<q, rows, cursor, searched>>
        /\ searchLost' = (searchLost \/ ~s.cancelled)
    BY <1>5 DEF SearchFails
  <2> QED
    BY <1>1, <2>1 DEF PaletteInv, Searching, Highlit
<1> QED
  BY <1>2, <1>3, <1>4, <1>5

\* What a step may do to the palette.
PaletteStep ==
    \/ UNCHANGED palette
    \/ \E v \in BOOLEAN : SetPalette(v)
    \/ SearchEffect \/ Highlight
    \/ \E text \in Query : Type(text)
    \/ \E s \in searches : SearchSent(s) \/ SearchAnswered(s) \/ SearchFails(s)

LEMMA PaletteSteps ==
    ASSUME [Next]_vars
    PROVE  PaletteStep
<1>1. CASE Keyboard
  BY <1>1 DEF Keyboard, KeyCreate, KeyEdit, KeyRemove, KeySelect, KeyGroup, GroupSelection, KeyEscape,
              KeyUndo, Sending, Selecting, PaletteStep
<1>2. CASE Pointer
  BY <1>2 DEF Pointer, Click, Marquee, PickMap, Roster, Selecting, PaletteStep
<1>3. CASE Details
  BY <1>3 DEF Details, PanelOfNode, TypeBody, PanelOfSeveral, GroupSelection, Sending, Selecting,
              PaletteStep
<1>4. CASE Typing
  BY <1>4 DEF Typing, Blur, TakeCaret, TitleEscape, Selecting, PaletteStep
<1>5. CASE Search
  BY <1>5 DEF Search, InPalette, Jump, Insert, ClosePalette, SearchStep, SearchFailure, PaletteStep
<1>6. CASE Effect
  BY <1>6 DEF Effect, FollowEffect, JumpEffect, BodyEffect, PaletteStep
<1>7. CASE World
  BY <1>7 DEF World, OthersAdd, OthersRemove, OthersRewrite, Invalidated, PeerMoves, Others, PaletteStep,
              palette
<1>8. CASE Replies
  BY <1>8 DEF Replies, Answer, Fail, PaletteStep
<1>9. CASE Panels
  BY <1>9 DEF Panels, PaletteStep
<1>10. CASE UNCHANGED vars
  BY <1>10 DEF vars, PaletteStep
<1> QED
  BY <1>1, <1>2, <1>3, <1>4, <1>5, <1>6, <1>7, <1>8, <1>9, <1>10 DEF Next

LEMMA PaletteKept ==
    ASSUME PaletteInv, [Next]_vars
    PROVE  PaletteInv'
<1>1. CASE UNCHANGED palette
  BY <1>1 DEF palette, PaletteInv, Searching, Highlit
<1>2. CASE \E text \in Query : Type(text)
  BY <1>2 DEF Type, PaletteInv, Searching, Highlit
<1> QED
  BY <1>1, <1>2, PaletteSteps, PaletteSet, SearchBegun, HighlightMoves, SearchMoves DEF PaletteStep

LEMMA PaletteAtFirst == Init => PaletteInv
BY PaletteAssumption DEF Init, PaletteInv, Searching, Highlit, NoRows

LEMMA PaletteAnswers == PaletteInv => RowsAnswerTheQuery
BY DEF PaletteInv, Searching, Highlit, RowsAnswerTheQuery, SearchDue

\* RowsAnswerTheQuery: in whatever order searches are sent, answered, lost or
\* called off while the query and the map change, the palette's rows are never
\* another query's without a search that will replace them.
THEOREM RowsAnswer == Spec => []RowsAnswerTheQuery
<1>1. PaletteInv /\ [Next]_vars => PaletteInv'
  BY PaletteKept
<1> QED
  BY <1>1, PaletteAtFirst, PaletteAnswers, PTL DEF Spec

-----------------------------------------------------------------------------
(* The body field, and what is asked of the server. *)

\* The field holds what was typed for the node it is of.
BodyInv ==
    /\ body \in [of : Node \cup {Nil}, typed : Node \cup {Nil}]
    /\ body.typed # Nil => body.typed = body.of

DesktopInv == Screen /\ Requests /\ PaletteInv /\ BodyInv

LEMMA Asking ==
    ASSUME Requests, NEW r, Fit(r), Ask(r)
    PROVE  Requests'
BY AskAdds DEF Requests

LEMMA StillAsked ==
    ASSUME Requests, UNCHANGED asked
    PROVE  Requests'
BY DEF Requests

LEMMA OtherCallsFit ==
    /\ \A m, n : Fit(OpenCall(m, n)) /\ Fit(CreateCall(m, n)) /\ Fit(RemoveCall(m, n))
    /\ \A m, ns : Fit(GroupCall(m, ns))
    /\ Fit(UndoCall)
    /\ \A m : Fit([do |-> "reload", map |-> m])
BY DEF Fit, OpenCall, CreateCall, RemoveCall, GroupCall, UndoCall

LEMMA CallsOnNodesFit ==
    /\ \A m, n \in Node : Fit(PatchCall(n, n)) /\ Fit(UploadCall(n))
    /\ \A m : \A n \in Node : Fit(InsertCall(m, n))
    /\ \A ns \in SUBSET Node : Fit(BulkCall(ns))
BY DEF Fit, PatchCall, UploadCall, InsertCall, BulkCall

LEMMA PanelHasNode ==
    ASSUME Screen, PanelShown = "node"
    PROVE  selectedId \in cards /\ selectedId \in Node /\ selectedId # Nil
BY NilAssumption DEF PanelShown, Card, Screen

LEMMA SelectedAreNodes ==
    ASSUME Screen
    PROVE  selectedIds \subseteq Node
BY DEF Screen, selectedIds

LEMMA BodyIsFielded ==
    ASSUME Caret = "body"
    PROVE  PanelShown = "node"
BY FieldsAssumption DEF Caret

\* Leaving the field with no effect due: it is of the node of the panel.
LEMMA LeavingAsks ==
    ASSUME Screen, Requests, BodyInv, Calm, Left
    PROVE  Requests' /\ BodyInv'
<1>1. CASE UNCHANGED <<asked, body>>
  BY <1>1, StillAsked DEF BodyInv
<1>2. CASE /\ Caret = "body"
           /\ IF body.typed = Nil THEN Unasked ELSE Ask(PatchCall(selectedId, body.typed))
           /\ body' = [body EXCEPT !.typed = Nil]
  <2>1. selectedId \in Node /\ body.of = selectedId
    BY <1>2, BodyIsFielded, PanelHasNode DEF Calm, BodyStale
  <2>2. Requests'
    <3>1. CASE body.typed = Nil
      BY <1>2, <3>1, StillAsked DEF Unasked
    <3>2. CASE body.typed # Nil
      <4>1. body.typed = selectedId /\ Ask(PatchCall(selectedId, body.typed))
        BY <1>2, <2>1, <3>2 DEF BodyInv
      <4> QED
        BY <2>1, <4>1, Asking, CallsOnNodesFit
    <3> QED
      BY <3>1, <3>2
  <2> QED
    BY <1>2, <2>2 DEF BodyInv
<1> QED
  BY <1>1, <1>2 DEF Left

LEMMA OpeningAsks ==
    ASSUME Requests, NEW m, NEW n, OpenMap(m, n)
    PROVE  Requests'
BY Asking, OtherCallsFit DEF OpenMap

LEMMA KeyboardAsks ==
    ASSUME DesktopInv, Keyboard
    PROVE  Requests' /\ BodyInv'
<1> USE DEF DesktopInv
<1>1. body' = body
  BY DEF Keyboard, KeyCreate, KeyEdit, KeyRemove, KeySelect, KeyGroup, GroupSelection, KeyEscape, KeyUndo,
         Sending, Selecting, panels
<1>2. BodyInv'
  BY <1>1 DEF BodyInv
<1>3. CASE KeyEdit \/ KeySelect \/ KeyEscape
  BY <1>2, <1>3, StillAsked DEF KeyEdit, KeySelect, KeyEscape, Selecting
<1>4. CASE KeyCreate \/ KeyRemove \/ KeyGroup \/ KeyUndo
  BY <1>2, <1>4, Asking, OtherCallsFit DEF KeyCreate, KeyRemove, KeyGroup, GroupSelection, KeyUndo
<1> QED
  BY <1>2, <1>3, <1>4 DEF Keyboard

LEMMA PointerAsks ==
    ASSUME DesktopInv, Pointer
    PROVE  Requests' /\ BodyInv'
<1> USE DEF DesktopInv
<1>1. body' = body
  BY DEF Pointer, Click, Marquee, PickMap, Roster, Selecting, panels
<1>2. BodyInv'
  BY <1>1 DEF BodyInv
<1>3. CASE Click \/ Marquee \/ \E p \in Peer : Roster(p)
  BY <1>2, <1>3, StillAsked DEF Click, Marquee, Roster, Selecting
<1>4. CASE PickMap
  BY <1>2, <1>4, OpeningAsks DEF PickMap
<1> QED
  BY <1>2, <1>3, <1>4 DEF Pointer

LEMMA DetailsAsk ==
    ASSUME DesktopInv, Details
    PROVE  Requests' /\ BodyInv'
<1> USE DEF DesktopInv
<1>1. CASE PanelOfNode
  <2>1. selectedId \in Node /\ body' = body
    BY <1>1, PanelHasNode DEF PanelOfNode, Sending, Selecting, panels
  <2>2. \/ UNCHANGED asked
        \/ \E r : Fit(r) /\ Ask(r)
    BY <1>1, <2>1, OtherCallsFit, CallsOnNodesFit DEF PanelOfNode, Selecting
  <2>3. Requests'
    BY <2>2, Asking, StillAsked
  <2> QED
    BY <2>1, <2>3 DEF BodyInv
<1>2. CASE TypeBody
  <2>1. /\ selectedId \in Node /\ body.of = selectedId /\ UNCHANGED asked
        /\ body' = [body EXCEPT !.typed = selectedId]
    BY <1>2, PanelHasNode DEF TypeBody, Gesture, Calm, BodyStale
  <2>2. BodyInv'
    BY <2>1 DEF BodyInv
  <2> QED
    BY <2>1, <2>2, StillAsked
<1>3. CASE PanelOfSeveral
  <2>1. body' = body
    BY <1>3 DEF PanelOfSeveral, GroupSelection, Sending, Selecting, panels
  <2>2. UNCHANGED asked \/ \E r : Fit(r) /\ Ask(r)
    BY <1>3, OtherCallsFit, CallsOnNodesFit, SelectedAreNodes
       DEF PanelOfSeveral, GroupSelection, Selecting
  <2>3. Requests'
    BY <2>2, Asking, StillAsked
  <2> QED
    BY <2>1, <2>3 DEF BodyInv
<1> QED
  BY <1>1, <1>2, <1>3 DEF Details

LEMMA TypingAsks ==
    ASSUME DesktopInv, Typing
    PROVE  Requests' /\ BodyInv'
<1> USE DEF DesktopInv
<1>1. CASE Blur \/ TakeCaret
  BY <1>1, LeavingAsks DEF Blur, TakeCaret, CaretTo
<1>2. CASE TitleEscape
  BY <1>2, StillAsked DEF TitleEscape, Selecting, panels, BodyInv
<1> QED
  BY <1>1, <1>2 DEF Typing

LEMMA RowIsNode ==
    ASSUME PaletteInv, NEW n \in Row
    PROVE  n \in Node
BY DEF PaletteInv, Highlit, Row

LEMMA SearchAsks ==
    ASSUME DesktopInv, Search
    PROVE  Requests' /\ BodyInv'
<1> USE DEF DesktopInv
<1>1. body' = body
  BY DEF Search, InPalette, Jump, Insert, ClosePalette, SearchStep, SearchFailure, StillPanels, panels
<1>2. BodyInv'
  BY <1>1 DEF BodyInv
<1>3. CASE InPalette \/ ClosePalette \/ SearchStep \/ SearchFailure
  BY <1>2, <1>3, StillAsked DEF InPalette, ClosePalette, SearchStep, SearchFailure
<1>4. CASE Jump
  <2>1. UNCHANGED asked \/ \E m, n : OpenMap(m, n)
    BY <1>4 DEF Jump
  <2> QED
    BY <1>2, <2>1, StillAsked, OpeningAsks
<1>5. CASE Insert
  <2>1. \E n \in Row : Ask(InsertCall(mapId, n))
    BY <1>5 DEF Insert
  <2> QED
    BY <1>2, <2>1, RowIsNode, Asking, CallsOnNodesFit
<1> QED
  BY <1>2, <1>3, <1>4, <1>5 DEF Search

LEMMA EffectAsks ==
    ASSUME DesktopInv, Effect
    PROVE  Requests' /\ BodyInv'
<1> USE DEF DesktopInv
<1>1. CASE FollowEffect
  <2>1. UNCHANGED asked \/ \E m, n : OpenMap(m, n)
    BY <1>1 DEF FollowEffect
  <2>2. body' = body
    BY <1>1 DEF FollowEffect, panels
  <2> QED
    BY <2>1, <2>2, StillAsked, OpeningAsks DEF BodyInv
<1>2. CASE BodyEffect
  BY <1>2, StillAsked DEF BodyEffect, BodyInv, Screen
<1>3. CASE JumpEffect \/ (SearchEffect /\ UNCHANGED <<world, selection, asked, panels, follow, jump, spent>>)
  BY <1>3, StillAsked DEF JumpEffect, panels, BodyInv
<1> QED
  BY <1>1, <1>2, <1>3 DEF Effect

LEMMA WorldAsks ==
    ASSUME DesktopInv, World
    PROVE  Requests' /\ BodyInv'
<1> USE DEF DesktopInv
<1>1. CASE \E m \in Map, n \in Node \ Unborn : OthersAdd(m, n) \/ OthersRemove(m, n)
  BY <1>1, StillAsked DEF OthersAdd, OthersRemove, BodyInv
<1>2. CASE OthersRewrite
  BY <1>2, StillAsked DEF OthersRewrite, BodyInv
<1>3. CASE Invalidated
  BY <1>3, Asking, OtherCallsFit DEF Invalidated, BodyInv
<1>4. CASE \E p \in Peer : PeerMoves(p)
  BY <1>4, StillAsked DEF PeerMoves, BodyInv
<1> QED
  BY <1>1, <1>2, <1>3, <1>4 DEF World

LEMMA RepliesAsk ==
    ASSUME DesktopInv, Replies
    PROVE  Requests' /\ BodyInv'
<1> USE DEF DesktopInv
<1>1. PICK r \in BagToSet(asked) : Answer(r) \/ Fail(r)
  BY DEF Replies
<1>2. body' = body
  BY <1>1 DEF Answer, Fail, panels
<1>3. CASE OpenAnswer(r) \/ ReloadAnswer(r) \/ NodeAnswer(r) \/ Fail(r)
  <2>1. Answered(r)
    BY <1>3 DEF OpenAnswer, ReloadAnswer, NodeAnswer, Fail
  <2> QED
    BY <1>2, <2>1, AnsweredTakes DEF Requests, BodyInv
<1>4. CASE FurtherAsk(r)
  <2>1. Fit(r)
    BY DEF Requests
  <2>2. PICK s : Fit(s) /\ asked' = asked (-) SetToBag({r}) (+) SetToBag({s})
    <3>1. CASE r.do \in {"undo", "group"}
      BY <1>4, <3>1, OtherCallsFit DEF FurtherAsk
    <3>2. CASE r.do = "upload"
      BY <1>4, <2>1, <3>2, CallsOnNodesFit DEF FurtherAsk, Fit
    <3> QED
      BY <1>4, <3>1, <3>2 DEF FurtherAsk
  <2> QED
    BY <1>2, <2>2, FurtherAdds DEF Requests, BodyInv
<1> QED
  BY <1>1, <1>3, <1>4 DEF Answer

LEMMA DesktopInvStep ==
    ASSUME DesktopInv, [Next]_vars
    PROVE  DesktopInv'
<1>1. Screen'
  BY NextKeeps DEF DesktopInv, Keeps
<1>2. PaletteInv'
  BY PaletteKept DEF DesktopInv
<1>3. Requests' /\ BodyInv'
  <2>1. CASE Panels
    BY <2>1, StillAsked DEF Panels, DesktopInv, BodyInv
  <2>2. CASE UNCHANGED vars
    BY <2>2, StillAsked DEF vars, panels, DesktopInv, BodyInv
  <2> QED
    BY <2>1, <2>2, KeyboardAsks, PointerAsks, DetailsAsk, TypingAsks, SearchAsks, EffectAsks,
       WorldAsks, RepliesAsk DEF Next
<1> QED
  BY <1>1, <1>2, <1>3 DEF DesktopInv

LEMMA DesktopInvAtFirst == Init => DesktopInv
<1> SUFFICES ASSUME Init PROVE DesktopInv
  OBVIOUS
<1>1. Screen /\ BodyInv
  BY DEF Init, Screen, BodyInv
<1>2. Requests
  BY OtherCallsFit DEF Init, Requests, SetToBag, BagToSet
<1> QED
  BY <1>1, <1>2, PaletteAtFirst DEF DesktopInv

LEMMA DesktopInvHolds == Spec => []DesktopInv
<1>1. DesktopInv /\ [Next]_vars => DesktopInv'
  BY DesktopInvStep
<1> QED
  BY <1>1, DesktopInvAtFirst, PTL DEF Spec

\* BodyGoesToItsNode: whatever is selected, answered or removed between the
\* typing and the leaving of the field, what is written goes to the node it was
\* typed for.
THEOREM BodyGoesHome == Spec => []BodyGoesToItsNode
<1>1. DesktopInv => BodyGoesToItsNode
  BY DEF DesktopInv, Requests, Fit, BodyGoesToItsNode
<1> QED
  BY <1>1, DesktopInvHolds, PTL

\* SelectionStaysSound: once one card is the anchor, beside it only others that
\* are on the screen, and what is open for typing none of these, every gesture,
\* answer, effect and change by others that keeps the cards keeps it so.
THEOREM SelectionSound == Spec => SelectionStaysSound
<1>1. DesktopInv /\ [Next]_vars
      => [Sound /\ cards \subseteq cards' /\ (\A r \in BagToSet(asked) : ~Unsettling(r)) => Sound']_vars
  BY NextKeeps DEF DesktopInv, Keeps, Settled
<1> QED
  BY <1>1, DesktopInvHolds, PTL DEF Spec, SelectionStaysSound
=============================================================================
