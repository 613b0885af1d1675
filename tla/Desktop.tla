------------------------------ MODULE Desktop ------------------------------
(***************************************************************************)
(* The desktop surface: the keyboard (useKeyboard.ts), the canvas          *)
(* (Canvas.tsx, NodeCard.tsx, GroupBox.tsx), the details panel             *)
(* (Sidebar.tsx, MultiSelectPanel.tsx), the toolbar (Toolbar.tsx) and the  *)
(* palette, acting on one selection while requests are answered, others    *)
(* change the map, and the canvas follows somebody or lands a jump.        *)
(*                                                                         *)
(* What a gesture writes is Client's; the view, the filter and the layout  *)
(* are Views'.  An update of the store is rendered, and its effects run,   *)
(* before the next event: nothing else happens while an effect is due.     *)
(***************************************************************************)
EXTENDS Palette

CONSTANTS
    Peer,               \* the others on the roster
    TypeOf, AnswerOf,   \* the type of a node, and the latest idea that answers it
    OnMap,              \* which node is on which map at first
    Start,              \* the map bootstrap opens
    Budget              \* bounds what users and others do, and what fails

ASSUME FieldsAssumption == Node \cap {"body", "palette", "none"} = {}

VARIABLES
    sidebarOpen, helpOpen,
    caret,          \* a node whose title field has it, "body", "palette" or "none"
    body,           \* the body field: the node it is of, whether it was typed in
    following, pendingJump,
    roster,         \* where the others are: [map, focus, editing]
    stirred,        \* what the follow effect depends on has changed
    spent,
    missed          \* for JumpArrives: the map came without the node, or not at all

panels == <<sidebarOpen, helpOpen, caret, body>>
follow == <<following, roster, stirred>>
jump   == <<pendingJump, missed>>
vars == <<world, selection, asked, palette, panels, follow, jump, spent>>

-----------------------------------------------------------------------------
(* Where the caret is, and what the panel shows.                           *)

Card(id) == id \in cards

PanelShown ==
    LET many == Cardinality(selectedIds \cap cards) > 1
    IN CASE ~sidebarOpen       -> "closed"
         [] sidebarOpen /\ many -> "several"
         [] sidebarOpen /\ ~many /\ Card(selectedId) -> "node"
         [] OTHER -> "nothing"

\* A field that is taken off the screen loses the caret, and is not left.
Caret ==
    CASE caret \in Node /\ Mounted /\ Card(caret) /\ editingId = caret -> caret
      [] caret = "body" /\ PanelShown = "node" -> "body"
      [] caret = "palette" /\ paletteOpen -> "palette"
      [] OTHER -> "none"

\* Leaving a title commits it; leaving a body that was typed in writes it to
\* the node of the panel.
Left ==
    \/ Caret \in Node /\ CommitTitle(Caret) /\ UNCHANGED <<asked, body>>
    \/ /\ Caret = "body"
       /\ IF body.typed = Nil THEN Unasked ELSE Ask(PatchCall(selectedId, body.typed))
       /\ body' = [body EXCEPT !.typed = Nil]
       /\ UNCHANGED selection
    \/ Caret \in {"palette", "none"} /\ UNCHANGED <<selection, asked, body>>

CaretTo(c) ==
    /\ Caret # c
    /\ Left
    /\ caret' = c

\* The effects that are due.
\* Mutant of JumpDue: it is looked for while the map is being opened, once.
JumpTooEarly == loading /\ pendingJump # Nil /\ Card(pendingJump)
JumpDue   == Mounted /\ pendingJump # Nil /\ Card(pendingJump)
FollowDue == Mounted /\ stirred /\ ~JumpDue   \* both run before the next paint
\* Mutant of BodyStale: the field is filled again when its text changes, not
\* when another node is selected.
BodyFresh == FALSE
BodyStale == body.of # selectedId
Calm == ~JumpDue /\ ~FollowDue /\ ~BodyStale /\ ~SearchDue

Stir == stirred' = (following' # Nil)
LockedBy(id) == {p \in DOMAIN roster : roster[p].editing = id}

-----------------------------------------------------------------------------
(* What the user does.                                                     *)

Spend == spent < Budget /\ spent' = spent + 1
Gesture == Calm /\ Spend

StillPanels == UNCHANGED <<sidebarOpen, helpOpen, caret, body>>

\* A gesture that only selects, and tells the roster so.
Selecting == UNCHANGED <<world, asked, palette, panels, jump, following, roster>> /\ Stir
\* One that only sends a request.
Sending == UNCHANGED <<world, selection, palette, panels, jump, follow>>

\* Window shortcuts: nobody types, and no editor is open, focused or not.
Key == Gesture /\ Mounted /\ Caret = "none" /\ editingId = Nil

\* `+` and `-` on a question go to the idea that answers it.
argumentAnchor ==
    IF TypeOf[selectedId] # "question" THEN {selectedId} ELSE {AnswerOf[selectedId]} \cap cards

\* n and q: under the selection; i: under a question; + and -: under an idea.
Parents ==
    IF Card(selectedId)
    THEN {selectedId} \cup argumentAnchor
         \cup (IF TypeOf[selectedId] = "question" THEN {} ELSE {Nil})
    ELSE {Nil}

\* The nodes there can still be (a bound): each creation on its way takes one.
Unborn == {n \in Node : n \notin cards /\ \A m \in Map : <<m, n>> \notin where}
Creating == {r \in BagToSet(asked) : r.do = "create"}

KeyCreate ==
    /\ Key
    /\ Cardinality(Unborn) > BagCardinality([r \in Creating |-> asked[r]])
    /\ \E p \in Parents : Ask(CreateCall(mapId, p))
    /\ Sending

\* Enter and F2: refused when somebody else has the node open.
KeyEdit ==
    /\ Key
    /\ Card(selectedId)
    /\ LockedBy(selectedId) = {}
    /\ BeginEdit(selectedId)
    /\ Selecting

KeyRemove == Key /\ Card(selectedId) /\ Ask(RemoveCall(mapId, selectedId)) /\ Sending

\* Arrows, and everything that passes the filter.
KeySelect ==
    /\ Key
    /\ \/ \E n \in cards \ {selectedId} : Select(n)
       \/ \E visible \in SUBSET cards : SetSelection(visible)
    /\ Selecting

GroupSelection == Cardinality(selectedIds) > 1 /\ Ask(GroupCall(mapId, selectedIds)) /\ Sending
KeyGroup == Key /\ GroupSelection

\* Escape undoes one thing: what moves the canvas first, the selection last.
KeyEscape ==
    /\ Key
    /\ UNCHANGED <<world, asked, caret, body, jump, roster>>
    /\ \/ /\ following # Nil /\ following' = Nil /\ Stir
          /\ UNCHANGED <<selection, palette, sidebarOpen, helpOpen>>
       \/ /\ following = Nil /\ paletteOpen /\ SetPalette(FALSE)
          /\ UNCHANGED <<selection, sidebarOpen, helpOpen, following, stirred>>
       \/ /\ following = Nil /\ ~paletteOpen /\ helpOpen /\ helpOpen' = FALSE
          /\ UNCHANGED <<selection, palette, sidebarOpen, following, stirred>>
       \/ /\ following = Nil /\ ~paletteOpen /\ ~helpOpen /\ sidebarOpen /\ sidebarOpen' = FALSE
          /\ UNCHANGED <<selection, palette, helpOpen, following, stirred>>
       \/ /\ following = Nil /\ ~paletteOpen /\ ~helpOpen /\ ~sidebarOpen
          /\ Select(Nil)
          /\ UNCHANGED <<palette, sidebarOpen, helpOpen, following, stirred>>

\* Before every guard but the palette's own: the field is left, then undo.
KeyUndo ==
    /\ Gesture /\ Mounted
    /\ \/ Caret \in Node /\ CommitTitle(Caret) /\ Ask(UndoCall) /\ UNCHANGED body
       \/ Caret = "none" /\ Ask(UndoCall) /\ UNCHANGED <<selection, body>>
    /\ UNCHANGED <<world, palette, sidebarOpen, helpOpen, jump, follow>>
    /\ caret' = "none"

\* Tab, the toolbar and a double click; `/` and `?`.
Panels ==
    /\ Key \/ (Gesture /\ Caret = "none" /\ ~paletteOpen /\ ~helpOpen)
    /\ \/ sidebarOpen' = ~sidebarOpen /\ UNCHANGED <<helpOpen, palette>>
       \/ helpOpen' = ~helpOpen /\ UNCHANGED <<sidebarOpen, palette>>
       \/ ~paletteOpen /\ SetPalette(TRUE) /\ UNCHANGED <<sidebarOpen, helpOpen>>
    /\ UNCHANGED <<world, selection, asked, caret, body, follow, jump>>

\* The mouse.  What is pressed takes the caret from where it was; the palette
\* and the help cover the rest.
Blur ==
    /\ Calm
    /\ Caret # "none" /\ CaretTo("none")
    /\ UNCHANGED <<world, palette, sidebarOpen, helpOpen, follow, jump, spent>>

Mouse == Gesture /\ Caret = "none" /\ ~paletteOpen /\ ~helpOpen

Click ==
    /\ Mouse /\ Mounted
    /\ Select(Nil) \/ \E n \in cards : Select(n) \/ ToggleSelected(n)
    /\ following' = Nil /\ Stir
    /\ UNCHANGED <<world, asked, palette, panels, jump, roster>>

\* A selection box; "select every node in this group".
Marquee ==
    /\ Mouse /\ Mounted
    /\ \/ \E ids \in SUBSET cards : SetSelection(ids)
       \/ group \cap cards # {} /\ SetSelection(group)
    /\ Selecting

PickMap ==
    /\ Mouse
    /\ \E m \in Map : OpenMap(m, Nil)
    /\ UNCHANGED <<where, shown, cards, group, selection, palette, panels, following, roster, jump>>
    /\ Stir

\* A click jumps, or stops following; a double click follows.
Roster(p) ==
    /\ Mouse
    /\ p \in DOMAIN roster
    /\ following' = IF following = p THEN Nil ELSE p
    /\ UNCHANGED <<world, selection, asked, palette, panels, roster, jump>>
    /\ Stir

\* The panel of one node: its fields, its relations, its dangerous buttons.
PanelOfNode ==
    /\ Gesture
    /\ PanelShown = "node" /\ Caret = "none" /\ ~paletteOpen /\ ~helpOpen
    /\ \/ Ask(PatchCall(selectedId, selectedId)) /\ Sending
       \/ Ask(UploadCall(selectedId)) /\ Sending
       \/ Ask(RemoveCall(mapId, selectedId)) /\ Sending
       \/ \E n \in cards : Select(n) /\ Selecting

TypeBody ==
    /\ Gesture
    /\ PanelShown = "node" /\ ~paletteOpen /\ ~helpOpen
    /\ Caret \in {"none", "body"}
    /\ caret' = "body"
    /\ body' = [body EXCEPT !.typed = selectedId]
    /\ UNCHANGED <<world, selection, asked, palette, sidebarOpen, helpOpen, follow, jump>>

\* The panel of several: one change for all of them, one at a time.
PanelOfSeveral ==
    /\ Gesture
    /\ PanelShown = "several" /\ Caret = "none" /\ ~paletteOpen /\ ~helpOpen
    /\ \/ /\ \A r \in BagToSet(asked) : r.do # "bulk"
          /\ Ask(BulkCall(selectedIds)) /\ Sending
       \/ GroupSelection
       \/ Select(Nil) /\ Selecting

\* The title field, once it is measured; the palette's, once it is open.
TakeCaret ==
    /\ Calm
    /\ \/ editingId # Nil /\ Mounted /\ Card(editingId) /\ CaretTo(editingId)
       \/ paletteOpen /\ CaretTo("palette")
    /\ UNCHANGED <<world, palette, sidebarOpen, helpOpen, follow, jump, spent>>

TitleEscape ==
    /\ Gesture
    /\ Caret \in Node
    /\ CancelEdit
    /\ Selecting

-----------------------------------------------------------------------------
(* The palette.                                                            *)

InPalette ==
    /\ Gesture
    /\ (\E text \in Query : Type(text)) \/ Highlight
    /\ UNCHANGED <<world, selection, asked, panels, follow, jump>>

\* Enter: to the node, opening its map first when it is on another one.
Jump ==
    /\ Gesture
    /\ \E n \in Row :
          \/ /\ Card(n) /\ Select(n)
             /\ UNCHANGED <<world, asked, following, roster, jump>>
             /\ Stir
          \/ /\ ~Card(n)
             /\ \E m \in HomesOf(n) : OpenMap(m, n)
             /\ pendingJump' = n /\ missed' = FALSE
             /\ UNCHANGED <<where, shown, cards, group, selection, following, roster>>
             /\ Stir
    /\ SetPalette(FALSE)
    /\ StillPanels

\* Alt-Enter, and the button of the row: onto this map.
Insert ==
    /\ Gesture /\ mapId # Nil
    /\ \E n \in Row : ~Card(n) /\ Ask(InsertCall(mapId, n))
    /\ SetPalette(FALSE)
    /\ UNCHANGED <<world, selection, panels, follow, jump>>

\* Escape in it, and a click beside it.
ClosePalette ==
    /\ Gesture
    /\ paletteOpen /\ SetPalette(FALSE)
    /\ UNCHANGED <<world, selection, asked, panels, follow, jump>>

-----------------------------------------------------------------------------
(* Effects.                                                                *)

\* Who has left is not followed; who went to another map is followed there.
\* Mutant of FollowEffect: it waits for those who have left.
FollowOn ==
    /\ FollowDue
    /\ stirred' = FALSE
    /\ \/ /\ following \in DOMAIN roster
          /\ roster[following].map \notin {Nil, mapId} /\ OpenMap(roster[following].map, Nil)
       \/ /\ following \in DOMAIN roster => roster[following].map \in {Nil, mapId}
          /\ UNCHANGED <<mapId, loading, asked>>
    /\ UNCHANGED <<where, shown, cards, group, selection, palette, panels, following, roster, jump, spent>>
FollowEffect ==
    /\ FollowDue
    /\ stirred' = FALSE
    /\ \/ /\ following \notin DOMAIN roster /\ following' = Nil
          /\ UNCHANGED <<mapId, loading, asked>>
       \/ /\ following \in DOMAIN roster /\ roster[following].map \notin {Nil, mapId}
          /\ OpenMap(roster[following].map, Nil) /\ UNCHANGED following
       \/ /\ following \in DOMAIN roster /\ roster[following].map \in {Nil, mapId}
          /\ UNCHANGED <<mapId, loading, asked, following>>
    /\ UNCHANGED <<where, shown, cards, group, selection, palette, panels, roster, jump, spent>>

JumpEffect ==
    /\ JumpDue
    /\ Select(pendingJump)
    /\ pendingJump' = Nil
    /\ UNCHANGED <<world, asked, palette, panels, following, roster, missed, spent>>
    /\ Stir

BodyEffect ==
    /\ BodyStale
    /\ body' = [of |-> selectedId, typed |-> Nil]
    /\ UNCHANGED <<world, selection, asked, palette, sidebarOpen, helpOpen, caret, follow, jump, spent>>

Effect ==
    \/ FollowEffect \/ JumpEffect \/ BodyEffect
    \/ SearchEffect /\ UNCHANGED <<world, selection, asked, panels, follow, jump, spent>>

-----------------------------------------------------------------------------
(* Answers.                                                                *)

\* The graph comes, and with it the canvas.
OpenAnswer(r) ==
    /\ r.do = "open"
    /\ ShowMap(r.map) /\ loading' = FALSE
    /\ Answered(r)
    /\ missed' = (missed \/ (r.node # Nil /\ r.node \notin On(r.map)))
    /\ UNCHANGED <<where, mapId>>

ReloadAnswer(r) ==
    /\ r.do = "reload"
    /\ Refetched(r.map)
    /\ Answered(r)
    /\ UNCHANGED <<where, mapId, loading, missed>>

\* What was made or inserted goes to the screen, whatever map is open.
NodeAnswer(r) ==
    /\ \/ r.do = "create" /\ \E n \in Unborn :
             /\ where' = where \cup {<<r.map, n>>}
             /\ cards' = cards \cup {n} /\ SelectNew(n)
       \/ /\ r.do = "insert"
          /\ where' = where \cup {<<r.map, r.node>>}
          /\ cards' = cards \cup {r.node} /\ SelectInserted(r.node)
       \/ /\ r.do = "remove"
          /\ where' = where \ {<<r.map, r.node>>}
          /\ DropNode(r.node)
       \/ r.do = "patch" /\ cards' = cards \cup {r.node} /\ UNCHANGED <<where, selection>>
       \/ r.do = "bulk" /\ cards' = cards \cup r.nodes /\ UNCHANGED <<where, selection>>
    /\ Answered(r)
    /\ UNCHANGED <<mapId, shown, loading, group, missed>>

\* Undo puts a node on a map or takes one off, and the map is fetched again;
\* so it is after grouping.  What was uploaded is then attached.
FurtherAsk(r) ==
    /\ \/ /\ r.do = "undo"
          /\ \E p \in Map \X (Node \ Unborn) :
                where' = IF p \in where THEN where \ {p} ELSE where \cup {p}
          /\ asked' = asked (-) SetToBag({r}) (+) SetToBag({[do |-> "reload", map |-> mapId]})
       \/ /\ r.do = "group" /\ UNCHANGED where
          /\ asked' = asked (-) SetToBag({r}) (+) SetToBag({[do |-> "reload", map |-> mapId]})
       \/ /\ r.do = "upload" /\ UNCHANGED where
          /\ asked' = asked (-) SetToBag({r}) (+) SetToBag({PatchCall(r.node, r.node)})
    /\ UNCHANGED <<mapId, shown, loading, cards, group, selection, missed>>

Answer(r) ==
    /\ Calm
    /\ OpenAnswer(r) \/ ReloadAnswer(r) \/ NodeAnswer(r) \/ FurtherAsk(r)
    /\ UNCHANGED <<palette, panels, following, roster, pendingJump, spent>>
    /\ Stir

\* The server refuses, or the network fails: a toast.
Fail(r) ==
    /\ Calm /\ Spend
    /\ Answered(r)
    /\ loading' = (loading /\ r.do # "open")
    /\ missed' = (missed \/ (r.do = "open" /\ r.node # Nil))
    /\ UNCHANGED <<where, mapId, shown, cards, group, selection, palette, panels, following, roster, pendingJump>>
    /\ Stir

SearchStep ==
    /\ Calm
    /\ \E s \in searches : SearchSent(s) \/ SearchAnswered(s)
    /\ UNCHANGED <<world, selection, asked, panels, follow, jump, spent>>

SearchFailure ==
    /\ Calm /\ Spend
    /\ \E s \in searches : SearchFails(s)
    /\ UNCHANGED <<world, selection, asked, panels, follow, jump>>

-----------------------------------------------------------------------------
(* Others.                                                                 *)

Others == Calm /\ Spend /\ UNCHANGED <<palette, sidebarOpen, helpOpen, caret, jump>>

OthersAdd(m, n) ==
    /\ Others
    /\ <<m, n>> \notin where
    /\ where' = where \cup {<<m, n>>}
    /\ cards' = IF m = mapId THEN cards \cup {n} ELSE cards
    /\ UNCHANGED <<mapId, shown, loading, group, selection, asked, body, follow>>

\* The event is applied whatever map it is about.
OthersRemove(m, n) ==
    /\ Others
    /\ <<m, n>> \in where
    /\ where' = where \ {<<m, n>>}
    /\ DropNode(n)
    /\ UNCHANGED <<mapId, shown, loading, group, asked, body, follow>>

\* The text of the node in the panel changes: the field is filled again.
OthersRewrite ==
    /\ Others
    /\ body.typed # Nil /\ body' = [body EXCEPT !.typed = Nil]
    /\ UNCHANGED <<world, selection, asked, follow>>

Invalidated ==
    /\ Others
    /\ mapId # Nil /\ Ask([do |-> "reload", map |-> mapId])
    /\ UNCHANGED <<world, selection, body, follow>>

Somewhere == [map : Map \cup {Nil}, focus : Node \cup {Nil}, editing : Node \cup {Nil}]

PeerMoves(p) ==
    /\ Others
    /\ \/ \E at \in Somewhere :
             /\ at.editing \in {Nil, at.focus} /\ (at.focus = Nil \/ <<at.map, at.focus>> \in where)
             /\ roster' = (p :> at) @@ roster
       \/ roster' = [x \in DOMAIN roster \ {p} |-> roster[x]]
    /\ roster' # roster
    /\ UNCHANGED <<world, selection, asked, body, following>>
    /\ Stir

-----------------------------------------------------------------------------
\* Bootstrap has asked for the first map.
Init ==
    /\ where = OnMap
    /\ mapId = Start /\ shown = Nil /\ loading = TRUE /\ cards = {} /\ group = {}
    /\ selectedId = Nil /\ multiSelected = {} /\ editingId = Nil
    /\ asked = SetToBag({OpenCall(Start, Nil)})
    /\ paletteOpen = FALSE /\ q = NoText /\ rows = NoRows /\ cursor = 0
    /\ searches = {} /\ searched = <<Nil, Nil>> /\ searchLost = FALSE
    /\ sidebarOpen = FALSE /\ helpOpen = FALSE /\ caret = "none"
    /\ body = [of |-> Nil, typed |-> Nil]
    /\ following = Nil /\ roster = <<>> /\ stirred = FALSE
    /\ pendingJump = Nil /\ missed = FALSE
    /\ spent = 0

Keyboard == KeyCreate \/ KeyEdit \/ KeyRemove \/ KeySelect \/ KeyGroup \/ KeyEscape \/ KeyUndo
Pointer  == Click \/ Marquee \/ PickMap \/ \E p \in Peer : Roster(p)
Details  == PanelOfNode \/ TypeBody \/ PanelOfSeveral
Typing   == Blur \/ TakeCaret \/ TitleEscape
Search   == InPalette \/ Jump \/ Insert \/ ClosePalette \/ SearchStep \/ SearchFailure
World ==
    \/ \E m \in Map, n \in Node \ Unborn : OthersAdd(m, n) \/ OthersRemove(m, n)
    \/ OthersRewrite \/ Invalidated
    \/ \E p \in Peer : PeerMoves(p)
Replies == \E r \in BagToSet(asked) : Answer(r) \/ Fail(r)

Next == Keyboard \/ Panels \/ Pointer \/ Details \/ Typing \/ Search \/ Effect \/ World \/ Replies

\* React runs the effects of what it has rendered, and fetches are answered.
Fairness ==
    /\ WF_vars(Effect)
    /\ WF_vars(\E r \in BagToSet(asked) : Answer(r))
    /\ WF_vars(SearchStep)

Spec == Init /\ [][Next]_vars /\ Fairness

-----------------------------------------------------------------------------
\* One anchor, and neither it nor the card that is open for typing is among the
\* others; and all of them and the members of the group are on the screen.
Sound ==
    /\ selectedId \in cards \cup {Nil}
    /\ multiSelected \subseteq cards \ {selectedId}
    /\ multiSelected # {} => selectedId # Nil
    /\ editingId \in (cards \cup {Nil}) \ multiSelected
    /\ group \subseteq cards

\* "Exactly one, always", "selectedId is always the anchor and is never in this
\* set" (useGraph.ts:41): no gesture, answer or effect breaks that, as long as
\* the screen loses no card, no map is opened, and what is inserted was not
\* here.  (Then, what was selected beside the anchor and what is open for
\* typing is not let go.)
Unsettling(r) == OpenAnswer(r) \/ (r.do = "insert" /\ Card(r.node) /\ NodeAnswer(r))
SelectionStaysSound ==
    [][Sound /\ cards \subseteq cards' /\ (\A r \in BagToSet(asked) : ~Unsettling(r)) => Sound']_vars

\* What is typed for a node is written to that node, whatever has been selected
\* by the time the field is left.
BodyGoesToItsNode == \A r \in BagToSet(asked) : r.do = "patch" => r.node = r.typedFor

\* "Staying in the mode would leave a banner naming somebody who is not here"
\* (Canvas.tsx:319): with a map to show, following ends when they leave.
FollowingEnds ==
    (following # Nil /\ following \notin DOMAIN roster /\ shown # Nil)
        ~> (following = Nil \/ following \in DOMAIN roster)

\* A jump to another map lands when that map has loaded (Canvas.tsx:342): it is
\* not forgotten, unless the map cannot be opened or no longer has the node.
JumpArrives == pendingJump # Nil ~> (pendingJump = Nil \/ missed)
=============================================================================
