# Verification of DialogMapper

TLA+ models of DialogMapper (a local-first IBIS dialogue mapper: a Go server and
CLI over one SQLite file, and a React client for desktop and phone), the TLC
configurations that check them on small instances, and TLAPS proofs of what holds
for every instance. Paths below are relative to the repository's root (`src/` here).

## 1. The system and its parts

| Part | Code | State it keeps | Operations |
|---|---|---|---|
| IBIS grammar | `internal/ibis/rules.go`, `web/src/grammar.ts` | none (a table) | which relationship may join which types; the default one; which are hierarchical; what a card can be retyped to |
| Store | `internal/store/queries.go`, `schema.sql` | tables `maps`, `nodes`, `map_nodes`, `edges`, `groups` | create / edit / retype / tag / move / place / remove / delete, each one SQLite transaction |
| Undo journal | `internal/store/undo.go`, and the recording in `queries.go` | table `undo_log` | record, fold into the last entry, undo, redo, discard the redo tail |
| HTTP handlers | `internal/server/api.go` | none | call one store operation as an actor, then publish an event |
| Presence | `internal/server/presence.go`, `hub.go` | participants, the node each holds open, since when | join, leave, select, lock, unlock, expire |
| Hub | `internal/server/hub.go` | connected clients, a bounded event buffer, a bounded buffer per client | register, unregister, fan out, drop a slow client |
| Watcher | `internal/server/server.go` | the last `data_version` seen | poll, invalidate everybody's view when another process wrote |
| Browser store | `web/src/store/useGraph.ts`, `api.ts` | the open map, its graph, requests under way | optimistic change, rollback, merge an answer, apply an event, reload |
| Desktop surface | `web/src/desktop/*`, `store/useUI.ts` | selection, editor, panels, palette, filter, layout mode, whom it follows | keys, clicks, fields, search, jump, follow, drag, tidy |
| Phone surface | `web/src/mobile/MobileApp.tsx`, `ws.ts` | one map's feed, a baseline of what is new, a search, a reply | refetch, search, reply, post, follow |
| Trees and layout | `web/src/graph.ts`, `filter.ts`, `layout/autoLayout.ts`, `mobile/threads.ts`, `search.ts` | none | break circles, scope, threads, place cards, read a query |
| Migration, batches, upgrade, ids, export, assets, CLI, website | | files, text | see section 7 |

How they interact: a browser shows a change, then (or first) sends a request; the
handler runs one store operation (one transaction, with its journal entry) and
publishes the result to the hub, which fans it out to every socket; each client
applies the event to its own view. A CLI run writes to the same file from another
process, which the watcher notices. Presence travels over the same sockets.

### What is hard about it

* **One store, many writers.** Within a transaction the code relies on checks it
  makes by hand: no foreign key ties an edge to its ends' placements, no
  constraint keeps an argument tree acyclic. One operation reads before its transaction.
* **Undo after others have moved on.** An entry stores pieces of the tables as
  they were; undo writes them into tables that are no longer like that.
* **Entries that fold.** Typing and dragging fold into the previous entry, and the
  redo tail must go when history branches.
* **Retyping a node** relabels its edges; two edges can come to say the same, a
  weak link can become hierarchical and close a loop.
* **Sockets of one client overlap**, and locks expire while their holder types.
* **Commit, then publish**, with nothing that keeps two publishers in order.
* **Optimistic changes** race their own answers, their rollbacks, reloads and the
  events of others.
* **One selection, many hands**: keys, clicks, answers, effects and other people's
  deletions all move the anchor, the set beside it and the open editor.
* **Debounced and effect-driven code**: searches answered late, jumps that wait for
  a map, a followed participant who leaves while the map is loading.
* **Graphs with circles** read as trees by four different pieces of code.

`PROJECT.json` lists the hazards at their lines, with the properties that would
catch them.

## 2. The modules

| Module | Models | State, and what it is in the code |
|---|---|---|
| `Ibis` | `internal/ibis/rules.go` | none; `Rules` is the table, `ValidateEdge` and `DefaultRelationship` the functions of those names |
| `Store` | `queries.go`, `schema.sql` | `maps`, `nodes`, `places` (table `map_nodes`), `edges`, `groups`; one action per exported operation of `Store` that changes them |
| `Processes` | an edit in the presence of other processes (`UpdateNode`, `store.go:80`) | `Store`'s tables and `read`: the node and the row that a process's edit has read, and not yet written |
| `Journal` | `undo.go`, and what each operation records | `Processes`' tables, `read`, and `log` (table `undo_log`, by entry id), `issued` (its AUTOINCREMENT); an action per operation *with* its entry, `Undo` and `Redo` |
| `History`, `SoloHistory` | what undo and redo promise one actor; the refinement mapping from `Journal` | `past`, `present`, `future`, `made` |
| `Hub` | `internal/server/hub.go` | `stage` of a socket, `clients`, `dropped` (pending `go c.close()`), `events`, `send` |
| `Sync` | `publish`, `WatchExternalChanges`, `ws.ts`, a watching tab | `Hub`'s, the database's version, `known` (`knownVersion`), what a handler has committed and not published, a tab's view |
| `Presence` | `presence.go`, `hub.go: handle, readLoop`, `ws.ts` | `here` (`byID`), `editing`, `fresh` (`lockedAt` within `LockIdle`), sockets, frames under way, `last` |
| `Client` | `useGraph.ts`, `api.ts`, the handlers' answers and events | `Store`'s tables, `list`, `mapId`, `screen` (nodes, edges, groups), `loading`, `inflight` requests, `inbox` of events |
| `Selection` | the selection half of `useGraph.ts` | `selectedId`, `multiSelected`, `editingId`, the cards on the screen, the requests whose answers move them |
| `Palette` | `SearchPalette.tsx` | whether it is open, the query, its rows and highlight, searches at their timer or in flight |
| `Desktop` | `useKeyboard.ts`, `Canvas.tsx`, `NodeCard.tsx`, `Sidebar.tsx`, `MultiSelectPanel.tsx`, `Toolbar.tsx` | `Selection`'s and `Palette`'s, panels, the caret, the body field, `following`, `pendingJump`, the roster |
| `Outline` | `graph.ts`, `filter.ts` (scope), `threads.ts` | none |
| `Layout` | `autoLayout.ts`, the guess of `createChild` | none |
| `Search` | `search.ts`, `filter.ts: matchesTerms` | none |
| `Grammar` | `grammar.ts` | none |
| `Views` | `useUI.ts`, `filter.ts`, the drags of `Canvas.tsx` and `GroupBox.tsx` | the graph, saved placements, `layoutMode`, the filter, cards under the pointer |
| `Phone` | `MobileApp.tsx`, `ws.ts` | map, feed, baseline (`seen`), GETs under way, socket, roster, `following`, query, results, the reply and its POST; a small database |
| `StoreProofs`, `PresenceProofs`, `PhoneProofs`, `SyncProofs`, `DesktopProofs`, `ClientProofs`, `ViewsProofs` (with `Grammar`'s) | theorems about those modules | |
| `JournalProofs` | theorems about `Journal`: what holds of its states, and what undo restores | |
| `MC*` | instances for TLC | |

`Processes` extends `Store` by the one step that lies outside a transaction. All
operations read and write within theirs, and transactions exclude one another, but for
`UpdateNode`: it reads the node first (`queries.go:435`) and begins after that (476), and
`writeMu`, which it holds throughout, is of its own process. A command line (`ops.go:366`)
can write in between; so `ReadNode` and `WriteNode` are two steps, between which anything
may happen. `Journal` extends `Processes`: each of its actions is the store's action of that
operation conjoined with what the same transaction writes to the log. `Sync` extends
`Hub` and knows the database by a version number only. `Client` extends `Store`:
what the server does with a request is the store's own action. `Desktop` extends
`Palette`, which extends `Selection`; `Views` extends `Layout` (and so `Outline`),
`Search` and `Grammar`.

### What is abstracted

* Text, colours, sizes and times are left out; a title is a model value, a tag set a
  set, a position a small integer (in `Layout`, pixels). A node's type matters
  throughout, for the grammar decides by it.
* An id is a model value not in use. `NewID` never returns an id twice; `Journal`
  therefore asks that a new id occurs in no entry either.
* `retypeEdgesTx` scans the edges of a node in no particular order. `RetypeInto`
  gives the set of its possible results at once.
* An entry is a record of the pieces of tables in its two JSON payloads.
* In `Sync` tabs only watch, and there is one node. Roster events are left out.
* In `Client` an edit reads and writes in one step: no command line writes between the two
  (`Processes` says what happens when one does). Layout puts every card at `Tidy` and a new one at `Beside` (`Layout`
  says where), undo is any change that `Reverts` names (`Journal` says which), no
  socket loses an event (`Sync` says when), and echoes of the tab's own writes, which
  `applyEvent` drops in its first line, are not sent.
* In `Desktop` an update is rendered and its effects run before the next event: while
  an effect is due, nothing else happens. `Selection` keeps requests by what their
  answers do to the selection; what they write is `Client`'s.
* In `Search` characters are kept: its property is about where a quote or a marker
  falls. In `Layout` the numbers are the code's.
* In `Phone` a row is a node with the type it had when it was read, because that is what is
  replied to; others may retype a node to any of `Retypes`, and its edges are left out. The
  module counts commits, and remembers whether the feed is one that an overtaken answer
  wrote, or a GET has failed since (`crossed`), and whether the baseline is an overtaken
  answer's (`tainted`): the properties of the feed and its marks are about the rest.
* `Grammar` sees the edges of one map, which is what the browser sees. The server looks at
  those of all maps (section 6).

## 3. Runs

Passing:

| Run | Instance | Shows |
|---|---|---|
| `store` | 2 maps, 2 nodes, 3 edges, 1 group, 4 types, 1 edit that others come in between of, a symmetry | `SharedTypeOK`, `ForeignKeys`, `EdgesStayLegal`, `ArgumentTrees` |
| `journal` | from an empty or a filled database: two actors on one map with 3 entries, an edit under way among them, or one actor with 2 entries of any kind on 2 maps with groups | `JournalTypeOK`, `EndpointsPlaced`, `OneEdgePerClaim`, `UndoInverts`, `UndoSparesNotes` |
| `journal_history` | 1 actor, 2 nodes, 1 edge, 1 group, 1 tag, 2 positions, 3 entries | `ImplementsHistory` |
| `sync` | 1 phone, 2 sockets, 2 commits, a client's buffer of 1, the hub's of 2 | `SyncTypeOK`, `PhonesHearOfEverything`, `DroppedComeBack` |
| `presence` | 2 tabs with 2 sockets each, 2 nodes, 1 frame under way per socket | `TypeOK`, `OneHolder`, `NobodyLingers`, `ClosedTabFreesLock` |
| `client` | 3 maps, 3 nodes (two at first), 2 edges, 2 groups; 2 gestures, changes by others or faults, out of every call of the tab, 31 of others and 5 that undo brings about | `ScreenInStep`, `PickerInStep`, `RefusalAddsNothing`, `LoadingEnds` |
| `desktop` | 2 maps, 4 nodes (one not made yet), 1 group, 1 other participant, 2 queries; 4 gestures, changes by others or faults | `RowsAnswerTheQuery`, `BodyGoesToItsNode`, `SelectionStaysSound`, `FollowingEnds`, `JumpArrives` |
| `phone` | 2 maps, 3 nodes (one on both), 1 post, 1 query, 1 type that others give, 1 other participant, with or without a map; 2 gestures, changes by others or faults, from the start or with a reply begun | `PhoneTypeOK`, `FeedInStep`, `NewMeansArrivedSince`, `ResultsAreAsked`, `PostsAreLegal`, `FollowedMapIsOpen`, `FeedLoads` |
| `views` | maps of 3 cards with up to 2 edges in any order (1 gesture), every map of a question and 3 cards with 2 or 3 edges (none), a map of 5, and a debate with 2 gestures or any filter text of up to 4 characters | `OutlineIsForest`, `ThreadsHoldEveryCard`, `ScopeIsTheLiveBranches`, `CardsStandApart`, `MenuAgreesWithTheServer`, `CriteriaOnlyNarrow`, `HandoffMovesNothing` |

Violations, each a place where a comment of the code says something else than
the code does (`PROJECT.json` "findings" quotes the comment):

| Run | What the counterexample does |
|---|---|
| `rejoin_loses_roster` (`ConnectedIsHere`) | a tab's second socket joins, then the first is found dead and takes the tab off the roster |
| `reconnect_without_refetch` (`ReconnectingRefetches`) | a desktop tab loses its socket, something is published, it connects again and shows the old |
| `removed_elsewhere` (`RemovalIsOfOneMap`) | a node that two maps share is taken off the one, and its card goes from the tab that shows the other |

### What the larger properties say

* `ScreenInStep` compares the whole screen with the database whenever nothing is
  under way, over every action of the store: every optimistic change, merged answer,
  event, rollback and reload has to come to what the server did. The variable `off`
  is no part of the program; it names the parts not bound to agree, each for a reason
  written beside it: changes that overlapped, reads that failed, and changes that
  nobody announces (`Untold`). A graph that nothing overtakes clears it.
* `SelectionStaysSound` is an action property because soundness is not invariant: the
  code lets go of neither the set nor the editor when a card is removed or a map
  opened (section 6). It says that every other step keeps a sound selection sound.
* `ScopeIsTheLiveBranches` and `ThreadsHoldEveryCard` state the outcome from the
  parent links alone, in other words than the code's walks.
* `MenuAgreesWithTheServer` holds the browser's advice to the server's relabelling: what is
  granted is offered, and what is offered is granted or would turn a note and close a circle.
  The second half is what the code keeps; `grammar.ts:10` promises more (section 6).
* `EdgesStayLegal` is an action property for the same reason as `SelectionStaysSound`: an
  edit that writes an older row puts a type back, and the edges relabelled for the newer one
  stay as they are. It says that no other step leaves or adds an illegal edge, and that this
  one does at the edited node alone. `UndoInverts` exempts the same step (`Overwrites`).
* `PostsAreLegal` says what a reply that is sent is, and why one can be refused: the row
  that was tapped keeps the type it was read with while others retype the node.
* `FeedInStep` and `NewMeansArrivedSince` are not about overtaken answers. The code shows
  those as any other, and what they leave behind stays until the next change (section 6).

### Bounds, and why they are enough

* *Two nodes and two or three edges* let a loop of two close and be prepared from both sides,
  two edges come to say the same, a retype relabel and drop; longer loops, more maps
  and more groups are covered by the theorems of section 5, which need no bound.
  In `store` an edit is under way with one map and no group only (`Few`), and after it has
  written over a newer type only nodes, edges and placements change (`InOrder`,
  `Meanwhile`). Tags, which
  no property of `store` is about, are left to `journal_history`.
* *Two or three entries* let an actor undo past another's change and redo after it,
  and let an edit fold into an entry that is then undone. `MaxEntries` bounds
  `issued`, and `Budget` the gestures of the other modules; the model stops there, so
  those runs allow it to (`CHECK_DEADLOCK FALSE`).
* *Filled databases* give a question, an idea beneath it, a group around both and a
  node on two maps, so that two gestures reach what would otherwise take six.
* *Two things in `client`*: every race of the store is of one change with another,
  with an answer, an event or a failure, and answers, events and reloads are not
  counted. *Asides, Away, Reverts* are what others ask for, what is done without a tab,
  and what undo brings about: each kind of call, on shown and on other maps.
* *A budget of four in `desktop`* is a selection, a field, a change by others and one
  more. *Start with a reply begun* in `phone` saves two gestures of its two.
* *A client's buffer of 1* fills at once, and *the hub's of 2* overflows with a greeting
  and two commits; the theorem of section 5 is about buffers of any size.
* *Two sockets per tab* is what overlap takes; *one frame under way per socket* is
  enough for a frame of the old socket to be read after the new one's
  (`rejoin_loses_roster` has room for two).
* *Five cards* give a branch with an arguing branch beside a bare one; *four
  characters* a quote, a marker, a space and one more; `MaxTerms` of 2 and `MaxIndent`
  of 1 bring the caps within reach.

### Fairness

`Store`, `Journal` and `Views` have none, and no liveness is asked of them. Elsewhere
there is weak fairness, and no more, of what the Go runtime, the browser or a deadline
brings about: the hub's loop, a socket's loops, the watcher's ticker, a handler that
has committed and goes on to publish, the reconnection timer; a request that is
answered or fails and the code that waits for it; React's effects, a debounce timer, a
search that is sent. There is none of commits, gestures, failures or the expiry of a
lock. Every answer is assumed to come or fail, as the browser makes sure in the end:
the code sets no timeout of its own.

## 4. What the type invariants are left for

`Store`, `Journal`, `Sync`, `Presence` and `Phone` have one each, with the relations a
deeper property needs (entries that name what exists, a lock only of somebody present,
a kind of reply that is on offer). `Client`, `Desktop` and `Views` have none: what is on
the screen is compared with the database, the selection with the screen and each
outline with its map, and a value of the wrong type fails those.

## 5. Proofs

| Theorem | States | Rests on |
|---|---|---|
| `StoreProofs!TypeCorrect` | `SpecShared => []SharedTypeOK` | itself inductive |
| `StoreProofs!ReferentialIntegrity`, `NoDanglingEdges` | `[]ForeignKeys`, `[]EndpointsPlaced` | both together, with `TypeOK` |
| `StoreProofs!ClaimsAreUnique` | `[]OneEdgePerClaim` | `TypeOK` |
| `StoreProofs!GrammarHolds` | `SpecShared => EdgesStayLegal` | `TypeOK`, referential integrity |
| `StoreProofs!NoCircularArgument` | `[]ArgumentTrees` | `TypeOK` |
| `PresenceProofs!PresenceTyped`, `AtMostOneHolder`, `RosterIsServed` | `Spec => []TypeOK`, `[]OneHolder`, `[]NobodyLingers` | their conjunction |
| `ViewsProofs!ConnectsIffInferable` | browser and server agree on which types can be joined | the table of rules |
| `ViewsProofs!MenuAgrees` | on legal edges the browser offers what the server grants, and else only what turns a note and closes a circle | `ConnectsIffInferable`, `OnlyNotesTurn` |
| `ViewsProofs!MenuStaysRight` | `Spec => []MenuAgreesWithTheServer` | `MenuAgrees`, and that the map stays a map (`IsMap`) |
| `ViewsProofs!HandoffStays` | `Spec => HandoffMovesNothing` | the layout places every card it positions |
| `ViewsProofs!OutlineStaysForest` | `Spec => []OutlineIsForest` | `PrunedIsForest`, with `IsMap` |
| `ViewsProofs!ScopeStaysLive` | `Spec => []ScopeIsTheLiveBranches` | `AboveIsAnOrder`, with `IsMap` |
| `PhoneProofs!PhoneTyped`, `ResultsFollowTheQuery`, `RepliesAreLegal` | `Spec => []PhoneTypeOK`, `[]ResultsAreAsked`, `PostsAreLegal` | `PhoneInv` |
| `PhoneProofs!FollowingIsBeingThere` | `[]FollowedMapIsOpen` | itself, with `PhoneInv` |
| `PhoneProofs!FeedFollows`, `NewIsNew` | `[]FeedInStep`, `[]NewMeansArrivedSince` | `Shown`, with `PhoneInv` |
| `SyncProofs!SyncTyped`, `PhonesHear` | `Spec => []SyncTypeOK`, `[]PhonesHearOfEverything` | `SyncInv` |
| `JournalProofs!JournalTyped`, `UndoKeepsEnds`, `UndoKeepsClaims` | `Spec => []JournalTypeOK`, `[]EndpointsPlaced`, `[]OneEdgePerClaim`, undo and redo included | `JournalInv` |
| `JournalProofs!UndoSpares` | `Spec => UndoSparesNotes` | `Spared`, with `JournalInv` |
| `JournalProofs!UndoIsInverse` | `Spec => UndoInverts` | `JournalInv`, `ReadOK`, and a lemma per operation |
| `DesktopProofs!RowsAnswer`, `BodyGoesHome` | `Spec => []RowsAnswerTheQuery`, `[]BodyGoesToItsNode` | `PaletteInv`, `BodyInv` |
| `DesktopProofs!SelectionSound` | `Spec => SelectionStaysSound` | itself |
| `ClientProofs!PickerRight` | `Spec => []PickerInStep` | `PickerInv` |
| `ClientProofs!RefusalsAddNothing` | `Spec => RefusalAddsNothing` | `FramedInv` |
| `ClientProofs!ScreenFollows` | `Spec => []ScreenInStep` | `ScreenInv` |

They hold for all values of the constants that satisfy the named assumptions:
the initial maps are among the maps; `Nil` is no node, map or type; a tab may open a
socket; each buffer of the hub holds at least one event (the code's are 256 and 64);
`MaxEntries` and `MaxCommits` are numbers; no node is called like a field of the screen;
`Keep`, which stands for a field that a call leaves out, is no title; the database that
`Client` begins with satisfies the invariants of `Store` (`TypeOK`, `ForeignKeys`,
`EndpointsPlaced`, `OneEdgePerClaim`, the very ones `StoreProofs` shows the store keeps);
on the phone, the maps hold nodes that exist at first, and a participant reports a map and a
node, or either or neither. `SpecShared` is the store's tables, with every operation of
`Store` and any number of processes that have read a node and not yet written it; the theorems of `JournalProofs` are about the same tables with undo and redo.
Legality and acyclicity are not among the latter, for those undo can break (section 6).

*Store.* `ForeignKeys` is not inductive alone: deleting a node removes the edges
that touch it, but taking a node off a map must also remove its edges there, and
only `EndpointsPlaced` says that a deleted placement left none. `EdgesStayLegal`
needs that an edge's ends exist, for a type is looked up by node; of a write by an edit
that has read a row it asks whether the row's type is still the node's, and if it is not,
whether the edit asked for another type itself, in which case the edges were relabelled for it. `ArgumentTrees`
is stated with reachability, which `Store` defines by closed sets of nodes (a
node reaches another if every set that holds the one and is closed under the
edges holds the other), so that no recursion and no induction is needed: an edge
is on no loop when some set *separates* it, being closed and holding its target
and not its source. Edges that are new, or relabelled, all touch one node *n* and passed
the check. An older edge had a set *C* that separated it; with *P* the nodes that do
not reach *n* now, and *Q* those that *n* reaches, one of `C \cap P`, `C \cup Q` and
`(C \cap Q) \cup (P \cap Q)` separates it still, according to where its ends lie.
`StillATree` is that argument; `FewerEdges` and `OneMoreEdge` are the plainer
steps in which edges are only removed, or one is added.

*Journal.* `JournalInv` is `TypeOK`, the two integrity conditions that undo keeps (edges
end on their map, one edge per claim) and `Logged`: every entry lies under an id that was
handed out, and both its payloads are pieces of well-typed tables. It has to say that of
a payload because undo writes it into tables that have moved on: `Sound` (the same
conditions, of any five tables) is shown closed under each operator undo is made of, with
nothing assumed about how payload and tables go together. That is the theorem's
content: the checks of `restoreEdgesTx` alone are enough, whatever happened in
between. Recording and folding go once through `Writes`, which each kind of change shares.
The entry undo takes is the greatest of a finite set of ids, and redo's the least; that
there is one comes from well-founded induction over the naturals. `UndoSpares` needs
`Spared`: no two entries of the log that create notes create the same one, for a new
id occurs in no entry.

*Undo.* `TakenThenPut`, `PutThenTaken`, `ChangedThenRewritten` and their like say when
rows that were taken, put or changed come back by the operators of undo. For each operation one
lemma then computes the recorded inverse applied to the tables it left, field by field.
The hard ones are those with cascades: a deleted map's placements and edges must come
back after its groups, a group that a change of members emptied before the placements
that belong to it, and a retype has to bring back each label with the edges it dropped. The proof also
settled what `UndoInverts` needs to assume: that groups keep to their map before the
change, and the entry to its group's map; that they do afterwards, which the property
once assumed as well, is not used and was taken out.

*Sync.* `SyncInv` has three parts: types, in which no message and no answer tells of a
version that is not committed yet; `Ahead`, a socket that its tab has not come to is
untouched; and `Informed`, which lists for each phone what may stand between it and the
newest version, from a handler that has committed and not published to the request it has
sent. Each step moves the news from one place of the list to a later one. Where a full
buffer drops an event, the fact that the buffer is full is what keeps `Informed`:
every event makes a phone fetch, so that any one that is left will do. A desktop merges
what the event says, and there is no such theorem (`reconnect_without_refetch`).

*Presence.* The invariant is `TypeOK /\ OneHolder /\ NobodyLingers`. `TypeOK`
carries the two facts the rest need: only somebody on the roster holds a node,
and only a lock has an age. `OneHolder` then follows from the check that `Lock`
makes under the mutex, whichever socket the frame came from; `NobodyLingers` from
`Leave` removing the id whatever other sockets it has, the very thing that
`rejoin_loses_roster` is about.

*Grammar.* `DefaultRelationship` tries the relationships in one order of preference.
`EveryRuleIsPreferred` says that every rule's relationship occurs in it, so the server
infers one exactly when some rule joins the types, which is what `canConnect` asks.
`MenuAgrees` is that, edge by edge: an edge that keeps its label is legal before and
after, and one that does not needs another that can be inferred. What is left is the loop:
only an associative edge can come to close one, and `OnlyNotesTurn` finds, in the table of rules,
that such an edge becomes illegal and another, hierarchical one is inferred for it only
when the card that is retyped was a note. `MenuStaysRight` puts it to
use on a map that changes: `IsMap` says that the map is well formed and its edges legal. The
label that the server infers for a new card keeps that, and so do cutting an edge and setting a
status. `HandoffStays` is about taking hold of cards in auto layout: the layout's positions become the
saved ones, and are drawn as such, because the layout leaves no card without one. The map a tab opens is assumed to have
legal edges; `GrammarHolds` says which of the store's own operations can leave others, and
section 6 how undo of a retype can.

*Outline.* The walks up the links and the fold that orphans cards are recursive functions, so
that these proofs begin with the recursion: `WalkExists` and `PrunedExists` show that there
are functions as the definitions describe, by induction over a set of naturals
(`EveryNatural`, from the least number outside it), and `ClimbStep` and `StepByStep` are all the
rest needs to know of them. `ForEver` is the heart: a walk that is still on linked cards after
as many steps as there are links has been twice at some card, by the pigeonhole principle, and
so goes on for ever. A card that was looked at early must not come round after others have lost
their links, and one that was left out must come round in the links first chosen:
`RoundByFewer` says both, since what comes round by some of the links comes round by all.
`OutlineStaysForest` then follows along the fold, whatever the order of the cards.
`ScopeStaysLive` compares two ways to say which branches are open. In a forest what is above a
card is in line, and nothing is above what is above it (`AboveIsAnOrder`), so that the question
with no question above it is the one that all other questions on the path are below. It was for
this proof that `IsQuestionOpen` was restated over the set of cards: of `SelectSeq`, with which
it had listed the children in their order, the prover knows nothing.

*Phone.* `PhoneInv` has five parts. What the phone holds are rows of nodes that are there, with a type;
`TypesOnlyGrow` (a node that has a type keeps one, if another) carries each part over every change of the database. `Socket` ties
frames to a socket and a socket to a map, so that a refetch is always of some map.
`Searching` says that a request that was not called off is about what is typed, which
makes an answer that arrives a result of the present query. `Replying` says that the
kind is the one chosen for the row that is replied to (`ChoiceIsOffered`: what is chosen is
always on offer and legal), which a change of either keeps and others' retypes do not reach:
a row keeps the type it was read with. That a post is refused only if the database has
moved on follows, for what the server checks is what was checked here. `Shown` adds, for
the feed, that of two answers the later read holds nothing the earlier lacks but what
has arrived since (`Readings`), that a feed which is behind has a request, a greeting or a
frame to come (`Awaited`), and that whatever the map holds, is shown or
will be shown in time was in the baseline or has been put on the map since (`Marked`); reading and answering are two steps, so each is a statement about the database
when the answer was read, which later commits may not disturb.

*Desktop.* `PaletteInv` says that every search that is not called off is for what
`searched` names, and that the rows answer it unless such a search is under way or lost;
with no effect due, what `searched` names is what is typed. `BodyInv` says that the field
belongs to the node in the panel whenever no effect is due, so that it is left in time.
`SelectionStaysSound` was first stated without its last conjunct, that the card open for
typing is not also among the others selected: TLC found no counterexample within four
gestures, and the proof did. A node selected beside the anchor is removed by somebody,
inserted again (now both anchor and beside it), opened, and a second insertion answered:
that state has an anchor, and the others without it, and closing the editor breaks it.
The sentence is right once the editor is part of it.

*Client.* `PickerInv` says three things while `off` does not name the list. `Fresh`: a list
that has been answered and not merged is the one there is now, for maps are made and
deleted by their own calls alone (`MapsKept`) and whoever does that while a list is under
way overlaps it. `AloneInMaking`: while this tab makes a map, nothing else is under way
about maps, which is why its second request cannot overtake another's answer. `Coming`: the
picker is right, or a list is asked for, or word of a map is in the inbox. Requests
are a bag and events a sequence, so that each step says which requests are left
(`Swapped`) and which events (`InboxSeq`). `Labelled` ties who asked to what was asked.
`RefusalsAddNothing` needs of the screen only that it has its four parts, in every graph
that is still to be painted as well: what it says is the guard of the rollback, of a
request that may have waited any time.

`ScreenInStep` was found not to be what the code keeps when its proof was planned: others take
some of a group's nodes into another group, the tab is not told what the first lost, and
dragging the first moves more cards here than in the database. The instance of `client` was
too small, for it takes three nodes and two groups; with those TLC shows it. Now such a drag
parts the places (`DragGroup`), for the reason given in section 6.

`ScreenFollows` proves what is left. `ScreenInv` says what the screen is on the way:
`Database`, what the proof needs of the tables (who is placed where, that an edge's ends are
on its map, that ids are used once), kept by the tab's calls and everybody else's;
`FramedInv`; and, while the graph has not been left behind, that one of three things is
going on. Either cards have been moved (`Moving`): any number of moves, or none, may be
under way, and each card is where the tables have it or where a move that waits will put it.
Or there is one request (`Pending`): it waits, and there is a screen that mirrors the tables
from which the present one follows by showing what is asked for, which is the screen itself
for those that ask first (`AsksFirst`, `AsksAfter`); or it has been answered, and what
painting the answer gives mirrors the tables, or else everything is asked for again; or it
has failed, and what putting back gives mirrors them; or it reads the graph, and whatever it
was told is what there is. Or others have made a change (`Hearing`): one event, or the two
that an insertion is told in, is in the inbox, and the screen will be right when it is read.
The proof has a lemma for each change of the tables that says what the screen has to gain,
lose or rewrite to mirror them again (`AddedIsPainted` to `LaidOutIsPainted`), and the
answers, the events and the optimistic drawings are each shown to do that; no two of them do
it in the same way, which is what makes this the longest of the proofs. `ScreenInv` speaks
of any screen, which TLC cannot enumerate; with the screens bounded to the present one and
those it can have come from, TLC found it to hold in all 680,803 states of the instance of
`client` before it was proved.

### Only model-checked

* Liveness: `DroppedComeBack`, `ClosedTabFreesLock`, `LoadingEnds`, `FollowingEnds`,
  `JumpArrives`, `FeedLoads`. The prover has neither ENABLED nor fairness.
* Of `Journal`, that it implements `History`. `UndoIsInverse` is half of what it takes; the
  other half would be, for each operation and each fold of two changes into one entry, that redo
  brings back the very tables that undo left behind.
* Of `Views`, that the threads hold every card (`ThreadsHoldEveryCard`), that the tidy tree keeps
  cards apart (`CardsStandApart`) and what a longer query matches (`CriteriaOnlyNarrow`). The
  first two order cards by `SortSeq` and list them by `SelectSeq`, which the prover takes as
  they stand and can say nothing of; the last is by recursion over the text.

## 6. Observed, and not a run

Each of these was met while modelling; the model shows it, or leaves the step
out, and says so where it does.

Server and store:

* *Redo drifts from undo.* When a retype drops an edge because another says the same,
  the entry's forward does not say that the edge went (`queries.go:870`); redo puts the
  other label on and drops nothing, against `undo.go:259-260` ("the two can never drift
  apart").
* *A change can keep the redo tail.* `UpdateNode` clears it only when the edit did not
  merge (`queries.go:509`; `SetPlacement` and `MoveGroup` alike), and `DeleteMap`
  (`queries.go:154`) records without clearing, against `README.md:176-178`.
* *Undo can close a loop.* `restoreEdgesTx` (`undo.go:519`) has no cycle check: one actor
  takes a question off the map, another puts it back under its own idea, the first
  undoes. `rules.go:69` wants the tree acyclic.
* *An entry that cannot be applied blocks those beneath it.* `SetGroupMembers` with no
  members deletes the group and records a forward without one (`queries.go:1872`); redo
  of it is refused (`undo.go:364-373`, `HasPayload`). `SoloHistory!Complete` leaves such
  entries out.
* *Undo by map, redo by id.* Redo takes the oldest undone entry in scope
  (`undo.go:204`), not "the most recently undone" (`undo.go:196`).
* *Undoing a retype* writes the type back (`undo.go:318`): an edge drawn since may be
  illegal for the old type. *Undoing a creation* deletes the edges that others have
  attached (`undo.go:276`); notes are spared (`UndoSparesNotes`).
* *A group and a map that is not its own.* `SetGroupMembers` takes the map from the
  request; for a change that names another, undo would not give the tables back.
  `UndoInverts` says that it assumes they match before the change (`GroupsKeepToTheirMap`,
  `KeepsToItsMap`), and its proof that this is all it needs.
* *An edit writes what it read.* `UpdateNode` reads the node before its transaction
  (`queries.go:435`, 476). When a command line writes it in between, the server's edit of the
  title puts back the old type, body and tags (494), and the edges that were relabelled for
  the new type stay relabelled, some illegal (`EdgesStayLegal` names the step,
  `TakesTypeBack`). Its entry holds the row that was read (525), so that undo restores
  something older than what the edit replaced (`Overwrites`).
* *The baseline swallows a commit* of another process that falls between an own commit
  and `noteOwnWrite` (`server.go:280`), contrary to `server.go:240-246`. Phones refetch
  on the own write; a desktop stays behind.
* *Two handlers may publish in the other order than they committed* (`api.go:396`), and
  *with the hub's buffer full an event is lost to all* (`hub.go:98`): a phone fetches on whichever event is left (`PhonesHear`), a desktop
  misses the change.
* *The lock is checked, then the node written* (`api.go:381`), in two steps.
* *An editor that claims nothing.* `createChild` and `createRoot` open the new node's
  editor without the frame that claims it (`useGraph.ts:352-375`; `README.md:476`), and
  `toggleSelected` (263) closes one without the frame that lets go.
* *Migration to v3.* `DROP TABLE groups` runs with foreign keys on, so that `ON DELETE
  SET NULL` empties `map_nodes.group_id`, while `store.go:171-174` has membership
  "carried across untouched".
* *Batches*: the undo hint counts operations, while entries that fold are fewer
  (`ops.go:182`). *Upgrade*: between the two renames of `install.go:251` there is no
  executable under its name.

Browser store (each is a reason for `off`):

* Two quick `openMap` calls race, and the later answer stays (`useGraph.ts:170`); when
  opening fails, the new map's id is left over the old map's cards (186). An answer to
  `createChild` is merged into whatever map is open by then.
* A refused `deleteGroup` is not put back (584). The answer to `patchNode` re-adds a card
  that has gone, and overwrites a title being typed.
* A map that others delete stays open; a retype by others leaves the labels of edges
  stale; `graph.invalidated` does not refresh the list of maps.
* `node.transcluded` without coordinates is not laid out; laying out after such a
  card came moves cards without saving, or overwrites positions chosen by hand, which
  the comment at `Canvas.tsx:135` rules out. `node.moved` without coordinates sends null
  (`api.go:310`).
* `createGroup` and `setGroupMembers` publish the group that gained a node alone (`api.go:496`,
  566), so that another tab shows it in the old group as well, against "a node belongs to one
  group per map, so regrouping moves it rather than leaving it in two" (`README.md:149`);
  dragging the old group there moves a card that the server leaves where it is.
* A tab ignores its own echo, so an older foreign event that comes late overwrites its
  newer title (728); a reload overwrites what was edited while it waited (208).

Desktop:

* When a card goes while its editor is open, `editingId` keeps its id and every shortcut
  is ignored until a click (`useKeyboard.ts:62`). `multiSelected` keeps cards that
  `dropNode` and `openMap` take away; a group's selection includes members that are gone.
* The answer to a creation moves the editor while another title is being typed, and
  commits nothing. A change by others to the body drops the draft in the panel.
* A failed search leaves the rows of the query before. A pending jump is never given up
  if its map cannot be opened, and the follow effect does not run again when the card
  arrives later. Two tabs that follow each other can alternate.
* Arrow keys go by saved placements, not by what auto layout shows
  (`useKeyboard.ts:279-307`). A pinned zoom is read stale for half a second
  (`Canvas.tsx:529-535`). The undo button's label is not refreshed on a map switch.

Trees, filter, phone:

* A circle that is broken orphans a card depending on the order of the edges, and the
  server's search matches in the JSON of a node and lets `%` and `_` through as wildcards
  (`queries.go`, around 1247), while the browser's filter does neither. An opening quote
  glues to the word before it.
* *The menu offers what is refused.* Where a question asks a note and the note relates to the
  question, the panel offers to make the note an idea; the link back would become
  `responds_to` and close a loop, so the server refuses (`queries.go:836-849`). `canRetype`
  does not look for loops, and sees the open map only, while the server reads the edges of
  all maps (`queries.go:778-784`): against `grammar.ts:10`, "an impossible type change is
  visibly unavailable rather than something you discover by clicking it". `Views` shows the
  first and exempts it by name.
* An overtaken answer, or one of the map before, stays on the phone, with nothing under way to
  replace it, and may become the baseline (`MobileApp.tsx:97-98`): when a GET of the old map is
  answered after the switch, all of the new map but what the two share is marked new, which
  the comment at 107-108 says is prevented.
* What is replied to is the row as it was tapped (`MobileApp.tsx:47`, 565). When the node is
  retyped before the reply is sent, the phone offers and sends what its old type allows, and
  the server may refuse it, against `MobileApp.tsx:547` ("a phone user cannot construct an
  invalid map by accident", which the refusal keeps true).
* Who has just joined, or come back after being dropped, reports no map (`presence.go:77`), and
  a phone none until its first row is tapped: its first "viewing" is sent before there is a
  socket (`MobileApp.tsx:111`). Following one of those leaves the phone where it is.
* Replying to a search result on another map is always
  refused (`queries.go`, around 1521; the comments at 339 and 547 promise otherwise).
* What is typed while a post is under way is cleared by its answer; a lost answer to an
  accepted post invites a second. While following, a map picked by hand is switched back.

## 7. Not modelled, and why

* *The composition of `Client` with `Hub`.* Either alone fills TLC's time; `Sync` states
  which events are lost, `Client` what a tab makes of those that come.
* *`CanEdit` and the write as two steps; roster snapshots out of order; closing the
  server.* Small races with no comment of the code, and no state, to hold them to.
* *Migration, batches, self-upgrade, the update notice, seeding.* Straight-line code over
  SQL, text or two files, whose surprises are in section 6; no state is shared with the
  rest.
* *The server's query parser and `NewID`.* The first is kept in step with `Search` by a
  table of tests that both read; the second's property is that of any id here.
* *Arrow keys, zoom, images, folded threads, toasts; exports, QR codes, assets, flags,
  rendering, the website.* Nothing here depends on them. `RenameMap` and `RecordAsset`
  write columns no property mentions.
