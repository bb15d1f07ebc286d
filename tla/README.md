# reac-stageboxes, modelled

`reac-stageboxes` is a PipeWire client that shows the REAC stageboxes of a
session and sets their preamps. The daemon `reac-pw` publishes one or two nodes
for each REAC segment; the program finds them, merges their properties into one
box per segment, shows the boxes in a window or prints them with `--list`, and
writes a head-amp cell to the node that is the box's door. There is one thread:
GLib's main loop dispatches the PipeWire socket, and every callback runs to its
end. What is hard is not locking but *order*: what the daemon says arrives late,
in pieces and about nodes that may have left, and everything the operator sees
or addresses is derived from it.

Paths below are those of the repository; `rs-walk.c:145` is line 145 of
`src/rs-walk.c`.

## Inventory

| component | state | operations | talks to |
|---|---|---|---|
| `rs-headamp`, `rs-props` | none | `wire_ch`, `param_key`, `sens_dbu`, `sens_value`, `base_parse`, `sens_max_parse`, `asserted_parse`, `cell_lookup`, `caps_has`, `availability`, `rs_props_build_headamp` | called by all |
| `rs-box` | one record per stagebox: door, badge strings, channels, base, ceiling, refusal, readback cells | `rs_box_update_from_dict`, `rs_box_set_door`, getters | owned by `rs-walk` |
| `rs-walk` | `nodes` (id → Node), `segments` (name → Segment with its box and an array of borrowed nodes), `boxes` (array) | `rs_walk_global`, `rs_walk_info`, `rs_walk_remove` | called by `rs-pw`; calls back `added`, `changed`, `removed` |
| `rs-pw` | `nodes` (id → NodeEntry with its proxy), the roundtrip waited for | registry, node, proxy and core events; `rs_pw_sync`, `rs_pw_write_headamp` | the daemon's socket; signals to the window |
| `rs-list` | `rounds_left` | three roundtrips, sort, print, exit status | `rs-pw` |
| `rs-window` | selected box, rows and the channel count they are for, `syncing`, the pending write | gestures, box signals | `rs-pw` signals and writes; GTK |
| `main`, translations, build, packaging | none that matters | – | – |

Hard behaviours, and what makes each component correct:

* **rs-headamp / rs-box.** A wrong address moves another box's preamps in
  silence; a missing answer must not read as zero; a list may be malformed or
  too long; the 200 ms timer must be silent. Correct: what an input shows was
  said by the daemon about that input, and all of it is shown.
* **rs-walk.** Two nodes of one segment say different things; the key that makes
  a node a segment comes late; ids are reused; arrays hold borrowed pointers.
  Correct: the three tables agree, one box per segment, the door is live and the
  best there is, and every change is announced.
* **rs-pw.** Requests and events cross on the way; a node's end is told twice in
  either order; an id is taken over. Correct: an event never reaches the walk as
  if it were about another node, a write reaches the segment it was made for or
  nobody, and the boxes catch up with the graph.
* **rs-list.** It ends, and what it prints is complete and says of each input what
  the daemon asserts of it.
* **rs-window.** A refusal is seen, a control never shows what the daemon did not
  say, a programmatic change is not written back.
* **The whole, over a connection.** Writes, their answers and the graph's changes
  cross on the way; when everything has arrived no row waits any more and the
  operator's last gesture has the last word.

The hazards are listed one by one, at their lines, in `PROJECT.json`.

## Modules

| module | models | role |
|---|---|---|
| `Containers` | GHashTable, GPtrArray, GtkListBox | functions and sequences, `RemoveFast` is `g_ptr_array_remove_fast`, `RemoveInOrder` is `gtk_list_box_remove` |
| `RsHeadamp` | `rs-headamp.c`, `rs-props.c` | operators |
| `RsBox` | `rs-box.c` | the record and its merge, operators |
| `BoxFeed` | one box on its own | state machine: `Publish(d)` |
| `RsWalk` | `rs-walk.c` | state machine: `WalkGlobal`, `WalkInfo`, `WalkRemove` |
| `SegmentDirectory` | the promise of `rs-walk.h` | abstract specification, implemented by `RsWalk` |
| `RsWalkAudit` | `RsWalk` and its two sides | history of what each node said, view of the listener |
| `RsPw` | `rs-pw.c` around `RsWalk`, and the daemon | state machine over two FIFO channels |
| `RsList` | `rs-list.c` around `RsPw` | state machine, liveness |
| `RsWindow` | `rs-window.c` on `RsWalk` | state machine: the walk's callbacks and the operator's gestures |
| `RsSession` | `rs-window.c` on `rs-pw.c`, and the daemon that answers | composition of `RsPw` and `RsWindow`, shown to implement `RsWindow` |
| `RsBoxProofs`, `BoxFeedProofs`, `RsWalkProofs`, `RsDirectoryProofs`, `RsPwProofs`, `RsListProofs`, `RsWindowProofs`, `RsSessionProofs` | – | lemmas and theorems; `RsBoxProofs` also has those of `Containers` and of the list parser, `RsDirectoryProofs` also those of `RsWalkAudit` |
| `MC*` | – | instances for TLC |

`RsWalk` EXTENDS `RsBox` EXTENDS `RsHeadamp`; `RsPw` EXTENDS `RsWalk`; `RsList`
EXTENDS `RsPw`; `RsWindow` EXTENDS `RsWalk`; `RsSession` EXTENDS `RsPw` and
`RsWindow`, which are about one and the same walk. The names are the code's: `update_from_dict`, `pick_door`,
`on_registry_global`.

How state corresponds. A `Node*` is its id; a pointer in a segment's array to a
node that has been freed is an id that is not in `nodes`. A `Segment` and its
`RsBox` are named by the segment's name, which never changes. A property dict is
a record whose DOMAIN is the set of keys that are there. A decimal text is `<<n>>`
and any text `strtol` does not consume to the end is `NotDecimal`; a comma list
is the set of its tokens or the sequence of its cells. The seven strings that
are only shown are one field, `badge`. `signal` is the callback the last entry
point made. The boolean "changed" of `rs_box_update_from_dict` is `Update(b, d) #
b`, because every field is compared before it is replaced.

How actions correspond. An entry point of `rs-walk.c` is one action, split by its
outcome: `InfoOrdinary`, `InfoNewSegment`, `InfoKnownSegment` are the three
returns of `rs_walk_info`, `RemoveOrdinary`, `RemoveMember`, `RemoveLast` those
of `rs_walk_remove`. In `RsPw` one `Dispatch` is one event handled, with the walk's
entry point inside it; `write_headamp` is a write that is sent (the four refusals
of `write_outcome` change nothing). The daemon's side (`NodeAppears`,
`NodePublishes`, `NodeStirs`, `NodeLeaves`, `Serve`) is external: requests are
served in order and later, events come in order and later, and a node's end is
told to its proxy and to the registry in either order. What a daemon makes of a
write is the constant `ANSWERS`: `drop` (it says nothing), `accept` (it publishes
the cell as asserted and no refusal), `refuse` (it publishes a code in
`reac.headamp.refused` and leaves what it asserts). A publication goes to the node
in the server's graph at once and to the client behind every event under way.

In `RsWindow` every action is one turn of the main loop: `GlobalAppears`,
`NodeSpeaks` and `NodeGoes` are an entry point of the walk with the window's
handler of its callback inside (`Hear`), `Select`, `Toggle` and `Slide` are the
operator, and `ProxyGoes` is a node whose proxy has ended before the registry
says so, which is when a write finds no proxy. `sync_content` is one operator,
called inside every handler that calls it in the code and never a step of its
own. A box is named by its segment, which is what the pointers of the sidebar
and of `selected` compare. `pending_param` is left out: the code sets it and never
reads it. A channel count of -1 is the same as the mark of "no rows", in the code
as in the model; both build none. `pending_cell`, `awaited`, `gesture`, `outcome` and
`writes` are history: what the properties need to know of the operator's last
gestures. The window runs directly on the walk, so the infos it hears are those
any node may publish. GTK is external: a slider keeps its value within its travel, a removed
row that was selected selects nothing.

`RsSession` is the same window over the connection. `Dispatched` is one event of the
socket handled to its end: `rs-pw.c`, the walk, and, where the event is one that
reaches the walk (`IsPassedOn`), the window's handler of the walk's callback.
`Gesture` is a control moved, `write_cell` and the request it sends in one step;
`Served` and `Graph` are the daemon. RsWindow's `lost` is no state of its own here: it is
`Lost` at every step, the nodes whose proxy is gone, so that `ProxyGoes` of RsWindow is
the `removed` event.
`WindowOnWalk` says that every step of the session is a step of `WindowSpec` or a
stutter, which is what makes the properties checked of the window on the walk, with
larger boxes and more of them, properties of the application: `RsWindow` lets nodes
say anything at any time, and the session shows that nothing the connection does is
outside of that. `last` is history: what the operator last set each control to,
forgotten where the control's node leaves or publishes something else of its own accord,
and altogether when a write is served to a node that has left.

`RsList` prints a record: `print_box` has the facts of each line (wire channel, on,
off or dash, step and dBu, status), and `PrintList` the rest of `rs_list_run` with the
in-place sort of the array and the exit status; `g_ptr_array_sort` is `Sorted`, every
rearrangement of the array that `by_segment` allows; `printed` is empty until then and
holds that one record after it. Events that arrived behind the last
roundtrip may still be dispatched before, since one `pw_loop_iterate` drains the
socket.

**Quirks.** What a graph may do beyond the usual life of a node is a constant of
`RsWalk`: `restamp` (a live node changes its segment name), `promote` (a node of
a segment becomes known as a sink only later), `demote` (a sink becomes something
else), `overlap` (a segment has two sinks at once). Without quirks a node
publishes one segment name and one class for life, as `reac-pw`'s nodes do. Each
run says which it allows.

## Runs

| run | shows | bounds |
|---|---|---|
| `box` | `BoxType`, `RestampIsSilent`, `ReadbackComplete`, `ShownWasAsserted`, `NearestStep`, `OkIsWritable` | 1 preamp channel, so the array holds 3 cells and lists have up to 4, malformed ones first; an int of 16 values, so 9 wraps |
| `walk` | `TypeOK`, `MembersAgree`, `SegmentsListed`, `OneBoxPerSegment`, `DoorIsBest`, and `WalkIsDirectory`: `RsWalk` implements `SegmentDirectory` | 3 ids, 2 segments, `promote` and `overlap` |
| `audit` | `ListenerIsCurrent`, `ReadsFromItsDoor` | 3 ids, 1 segment; sinks with two bases and every key of a box, a source with a badge of its own, infos with one key |
| `pw` | `PwType`, `BoundIsBound`, `WritesReachTheirSegment`, `LeftHasLeft`, `WalkIsFedInOrder` (`RsPw` implements the `Spec` of `RsWalk` with no quirks), `Settles` | 2 ids, 2 segments, 3 proxies, 3 changes of the graph, 1 write under way |
| `list` | `ListIsComplete`, `ListIsTrue`, `ListReturnsWhileServed` | 2 ids, 2 segments, 2 changes, the connection may be lost; sinks with two inputs, one sink strapped so that the second has no wire channel, with a pad and the step at its ceiling asserted, phantom power not, a cell of a neighbour and one that does not parse, the other sink with no base |
| `window` | `WindowType`, `SelectedIsListed`, `PageFitsBox`, `PageShowsReadback`, `NoEcho`, `WritingIsAwaited` | 2 ids (symmetric), 2 segments; one box with one input that has pad and sensitivity, one with phantom power that grows from one input to two, the second without a wire channel; ceiling 1 |
| `session` | `WindowOnWalk`, `LastGestureCounts`, `NothingWaits` | 2 ids, 2 segments, boxes with one phantom switch, one of which may be dropped, a daemon that accepts; 1 change of the graph, 2 writes under way, a gesture only while fewer than 2 messages are |
| `restamp` | violated: `MembersAgree` (finding) | 2 ids, 2 segments |
| `list_hangs` | violated: `ListReturns` (finding) | as `list`, 1 change |
| `refused_twice` | violated: `NothingWaits` (finding) | as `session`, a daemon that may refuse |
| `refusal_said` | violated: `RefusalIsSaid` (finding) | as `window` |
| `refusal_row` | violated: `RefusalOnItsRow` (finding) | as `window` |

Why the bounds are enough. The walk decides by comparing: is this id known, is
this name known, is this the last node of its segment, is there a sink. Three ids
over two segments make every combination: a segment with three nodes (so
`remove_fast` reorders), one with two and one with one, a segment that is gone
and comes back under another id. In `pw` two
ids are enough for a sink and a source of a segment, or two segments, or an id
that is taken over by a node of another segment; the session the client connects
to is any graph of these nodes, and three changes are a departure, a takeover
and one more while the requests of the first are still on their way. Three
proxies are as many as can be needed at once, so a bind always finds one free:
the model would stop at it otherwise, and `PwType` counts them. `BINDS_FAIL` is
FALSE: with TRUE a bind may return no proxy (memory is out), the walk has been
told of the node already, and `BoundIsBound` fails at once. One preamp channel keeps
the box's array at three cells, so that a list longer than the array is short.
In `window` the two boxes differ in their controls and, for a while, agree in
their number of inputs, so rows kept by mistake show; a ceiling of one step
gives a slider two places for each position of the pad; two ids let a segment
have a second node, and a box go and another take its place, under the selection.
In `session` what matters is the order of messages, not the data: one switch has
two positions, so two gestures on it with two writes under way are enough for an
answer to the first to arrive after the second, and the change of the graph may be
a departure, an arrival, another assertion or an info without properties, before,
between or behind them. `MAX_UNDER_WAY` bounds the operator, not the daemon: while
two messages are on their way no new gesture is made. The properties that are
about rest are stated at rest (`AtRest`: both channels empty), so they need no
fairness; under `PwFairness` the channels do empty once nobody writes.

`audit` assumes `SinksTellAll`, which TLC evaluates of its dicts and the theorem
takes as a hypothesis: an info that names a segment and may make its node a sink
carries every key a box takes (`BoxKeys`), with a channel count that is a number.
`pw_node_info` carries the whole dict and a master's sink publishes its head-amp keys
from the start (`rs-box.h:52-59`). Where a door comes without some of them,
the box keeps those of the door before: with `overlap` among the quirks
`ReadsFromItsDoor` is violated (the door leaves, `rs_box_set_door` changes the id and
nothing else, `rs-walk.c:205`), although `rs-box.h:59` says that "a box reads from its
door and from nothing else"; the same happens to a new sink that does not publish a
readback. What a source leaves in the box never offers a write, since a source is no
control door.

Fairness. `PwFairness` is weak fairness of `Serve` (the daemon answers) and of
`Dispatch` (GLib dispatches a readable descriptor): neither is ever disabled for
good while there is something to read. Nothing is assumed of the graph or the operator.
`ListFairness` adds nothing but that the one thread goes on; `Served` stops when the
connection is lost, which is why `ListReturns` fails and `ListReturnsWhileServed`
holds. CHECK_DEADLOCK is off in the runs of `RsPw`, `RsList` and `RsSession`: a graph that
has used up its changes and a list that has been printed stop.

## Proofs

Checked by TLAPS, for every value of the constants that satisfies the named
assumptions, which TLC evaluates in every run: `HeadampAssumption`, `BoxAssumption`,
`FeedAssumption`, `WalkAssumption`, `WindowAssumption`, `PwAssumption` (among others
that `NULL` is no dict), `ClassAssumption` (a node's class is one a registry global may
carry), `ListAssumption`, `SessionAssumption`.

| module | theorems | under |
|---|---|---|
| `RsBoxProofs` | `WireChannelsDisjoint`, `SensRoundTrip`, `AvailabilityOk` | – |
| `BoxFeedProofs` | `FeedBoxType`, `FeedShownWasAsserted`, `FeedReadbackComplete`, `FeedRestampIsSilent`, `FeedNearestStep`, `FeedOkIsWritable` | – |
| `RsWalkProofs` | `WalkInvariant`, `WalkTypeCorrect`, `WalkMembersAgree`, `WalkSegmentsListed`, `WalkOneBoxPerSegment`, `WalkDoorIsBest` | `SteadyGraph` |
| `RsDirectoryProofs` | `WalkImplementsDirectory` | `SteadyGraph` |
| | `AuditListenerIsCurrent` | – (any `Quirks`) |
| | `AuditReadsFromItsDoor` | `PlainGraph`, `SinksTellAll` |
| `RsPwProofs` | `PwInvariant`, `PwTypeCorrect`, `PwWritesReachTheirSegment`, `PwLeftHasLeft`, `PwFeedsTheWalk`, `PwDoorIsBest` | `SteadyGraph`, `~BINDS_FAIL`, `AnswersPublish({"pad"})` |
| | `PwBoundIsBound` | `~BINDS_FAIL` |
| `RsListProofs` | `ListFindsAll` | `SteadyGraph`, `~BINDS_FAIL` |
| | `ListTellsTheTruth` | the same, and `NamesOnce`, `SinksTellInputs` |
| `RsWindowProofs` | `WindowSelectedIsListed`, `WindowNoEcho`, `WindowWritingIsAwaited` | – (any `Quirks`) |
| | `WindowTypeCorrect` | `SteadyGraph` |
| | `WindowPageFitsBox`, `WindowPageShowsReadback` | `SteadyGraph`, `CapsGoWithCount` |
| `RsSessionProofs` | `SessionInvariant`, `SessionWindowOnWalk` | `SteadyGraph`, `~BINDS_FAIL`, `AnswersPublish(Offered)` |
| | `SessionPage` | the same, and `CapsGoWithCount` |
| | `SessionNothingWaits` | these, and `ANSWERS = {"accept"}`, `NamesOnce` |
| | `SessionLastGestureCounts` | these, and `BaseIsKept` |

The hypotheses.

* `SteadyGraph`: no `restamp` and no `demote`; `promote` and `overlap` are allowed.
  With `restamp` `MembersAgree` is false (run `restamp`); with `demote` a box may stay
  on a node that is no longer its best door (`rs-walk.c:172-179` looks at the door only
  when it is the node that spoke). `PlainGraph` is `SteadyGraph` without `promote` and
  `overlap`.
* `~BINDS_FAIL`: a bind returns a proxy, memory permitting. Where it does not, the
  walk counts a node the client does not hold.
* `AnswersPublish(params)`: what the daemon makes of a write of one of these parameters is
  again a dict of `Dicts`. `RsPw` writes `pad` alone; the session writes what some dict
  offers a control for (`Offered`, the union of the caps). It says nothing of a daemon
  that drops writes, as in the run `pw`; the run `session` meets it, and TLC evaluates it
  there, with `CapsGoWithCount`.
* `CapsGoWithCount`: counts are in the range of an int and not negative, caps come
  with a count, a sink with inputs names its segment and its caps, and one segment's
  caps are the same whenever its count is. The rows are rebuilt when the count
  changes and not when the caps do (`rs-window.c:308`), so without it `PageFitsBox` is
  false; it is a hazard of its own in `PROJECT.json`. TLC evaluates it in the run
  `window`.
* `NamesOnce`: no readback speaks twice of a cell of the wire. What the daemon makes of a
  write is stamped on every cell of that input and parameter, and a readback that
  contradicts itself could hide the answer. `ANSWERS = {"accept"}`: a daemon that
  accepts what it is sent; one that refuses may leave a row waiting, which is the finding
  `refused_twice`. The run `session` has this daemon, and TLC evaluates `NamesOnce` there.
* `BaseIsKept`: the dicts of a segment that publish a base publish the same one. Those
  that publish `none` (a source, a box that was dropped) or nothing are free. A base is a
  strap on the box. Where it moves while a write is under way, the write goes to the cell it
  was addressed to and the row shows another (`rs-pw.c:371`, a hazard in `PROJECT.json`).
  TLC evaluates it in the run `session`.
* `SinksTellInputs`: the sink of a stagebox publishes its count, its base, its readback and
  its ceiling, the count fits an int, and no step it asserts is above the ceiling. Where it
  leaves one of them out the box keeps what another node of the segment said (see the run
  `audit`), and a step above the ceiling is printed with the dBu of the ceiling. The base
  need not parse. TLC evaluates it, with `NamesOnce`, in the run `list`.
* `SinksTellAll`: see the run `audit`.

**One box.** `FeedInv` is that the box is well typed and that its last dict is already
merged; `MergeTwice` goes through the fields. What the list parser returns is proved
without induction: `kth` names the k-th well formed place by its rank, and the ranks of
a finite set of numbers are a bijection to `1..n` because distinct places have
distinct ranks and the two sets have the same cardinality (`PlacesRanked`). From that
`ParseCells` (every cell is one of the list, and all are there if they fit),
`TableFits` (a list that names no cell twice fits the array, by an injection into the
channels and parameters of the wire) and `AllParsed`.

**The walk.** None of the properties is inductive alone. That a removal leaves
`DoorIsBest` needs that the box's door is the one `pick_door` would choose, so
that an info of another node need not look; that needs that the array of the
segment is exactly the live nodes that carry its name (`MembersAgree`), which
needs that a node which knows its segment is in a listed one (`SegmentsListed`).
The invariant is `IInv == TypeOK /\ SegmentsOK /\ SegmentsListed /\
OneBoxPerSegment`, where `SegmentsOK` says for every segment that its array is
not empty, distinct, exactly the carriers of the name, and that the box is on the
picked door and agrees with it on being a sink. Each of the seven actions has a
lemma; `pick_door` enters through `PickDoorBest` (what it returns),
`PickDoorLocal` (it depends on the segment's nodes only) and `PickDoorMoves` (a node
that speaks takes the door or leaves it where it was).

**The directory.** Its `live` is the nodes that carry a segment and its
`door` the id of each box; `CarriersOf` and `DoorsOf` are these maps, and say what an
`Insert` or a `Drop` of the concrete tables does to the abstract ones. `IInv` gives
that a box is on the best door of its segment before and after the step
(`DoorAmongBest`), which is all that the directory asks of `door'`. Each entry point
has a lemma: an ordinary node is a `Quiet` step, an info of a segment's node a
`Report`, a removal `Leave` or `LeaveLast`.

**The two sides of the walk.** The callback of every entry point names all that has
changed in the boxes (`Announced`), so what the listener reads then is everything there
is to read; the walk's invariant is not needed. `ReadsFromItsDoor` needs it:
`AuditInv` adds that a segment has one sink (`OneSinkEach`) and that the box of a
segment with a sink shows what that sink alone would have made of its infos
(`SinkBoxes`). A sink that speaks again merges the same dict into two boxes that are
alike (`AlikeMerge`); one that speaks for the first time tells all, and nothing of what
was there remains (`AlikeFull`); a departure leaves the box on the sink it had or on no
sink.

**The client.** The invariant `PwInv` is about the messages under way. `Tables` is the
shape of the tables and of both queues; `SameNodes`, that the walk and the
client know the same nodes. `Feed` is what the walk is about to hear: a global under
way is of the node that has the id now or one whose departure is further behind
(`GlobalsTell`), a known node that is not leaving is the one in the graph
(`KnownIsThere`), the infos the walk will hear of a node agree with it and come in
order (`HeardFits`, `HeardInOrder`), and before a segment's next sink is heard of, the
end of the one before is (`OneDoorKnown`, `OneDoorHeard`): without the last two the walk
would see two sinks where the graph never has two. `Bindings` is about proxies: each is
of one entry, what the server has bound to it is that entry's node (`BoundIsHeld`), a
bind under way is of a node the walk has yet to hear of (`BindsToCome`), a proxy that
was removed is of a node that is leaving, and a bind that reached a *new* node of an
id while the client still holds the old one stays mute for the walk
(`LateBindIsMute`). `FeedGrows` and `BindingsGrow` say what each conjunct has to fear
of an event put behind the others, `FeedTaken`, `RequestTaken` and `TakenStep` of one
taken from the front. What the daemon stamps on a node is a dict it may publish because what it was
asked for (`Asked`) is: only a write adds to that, and one of a parameter in `params`
only a setting of `Settings(params)` (`WriteAsks`, `OthersAskNothing`).
`PwFeedsTheWalk` follows: every dispatch that reaches the walk is a step of `Spec`.

**--list.** `ListFindsAll` follows a node that is there throughout through the three
roundtrips: a roundtrip is one message through both queues, so whatever was
under way before it has arrived when it is answered. The stages are that the bind is
to come (the global is before the first answer), that it was sent before the second
request, that the info is before the third answer, and that the box shows it; every
step keeps each node at its stage or moves it on. `ListIsComplete` says this of the
moment of printing. Nothing is assumed of how the daemon answers a write, since
`--list` makes none.

`ListTellsTheTruth` goes from the box to the page. `Complete` has that the box of such a sink
is what merging its dict again would leave; so its fields are the dict's, and an input reads
the one value the dict has for its wire channel or none at all (`SaidIsRead`, from `AllParsed`
and `LookupCell`: the array holds the whole list, so a dash is never a cell that found no
room). `LinesSaid` takes that through `print_box`. That each box is there once and in its
place is `ListInOrder`: the sort leaves no two neighbours the wrong way round, and the array
has no box twice (`OneBoxPerSegment`).

**The window.** `WindowInv` adds to its three properties that the sidebar is a sequence
of segments and that the nodes are typed. What the walk's callbacks say of the list of
segments (`Heard`) is proved once for each entry point, and `HearKeeps` follows each
signal through its handler; `SyncPage` is the fact about `sync_content` on which every
handler and every refused gesture ends. `TypeInv` adds the walk's invariant and
that the rows are well typed for the count they are marked with. `FitInv` is why the
page is that of the box: `Shaped` (the rows have the controls of some dict's caps for
that count), `CapsKnown` (the caps and the count of every box come from one dict) and
so, by `CapsGoWithCount`, rows kept for a count are the right ones for any box of that
name and count. `SyncedRows` says that after `sync_content` every control shows the
readback, and `WriteMoves` that a gesture that was sent moves one control only.
`SlidersTravel` adds that a slider moves between the steps of its box's ceiling under the
pad the row shows, so that a step the operator picks is one of the wire's.

**The session.** `DispatchedOnWalk` shows that every event dispatched to its end is a step
of `WindowSpec` or a stutter, with `lost` the nodes whose entry has no proxy. The
invariant `SessionInv` puts the client's and the window's side by side, and each needs
the other: the window's `TypeInv` is kept because the client's steps are steps of
`WindowSpec`, and the client's `PwInv` because a gesture writes what a row of the page
offers (`GestureWrites`, from `RowsOffered` of the window), so that the answer is a dict
the daemon may publish. `SessionPage` then takes the window's theorems over.

`NothingWaits` speaks of rest alone, and is not inductive: what has to be kept is why rest
cannot come. `WaitsForAnswer` says that while a row waits something is under way that will
end the wait (`SomeAnswer`): the departure of the box's door, an info of that door
which makes the box another one, or a write to it that sets a cell to something else than
the box has. A gesture that is sent asks for what the readback does not say (`GestureAsks`,
from `PageShowsReadback`, `SlidersTravel` and `SensRoundTrip`), so its write is of that kind.
The daemon turns such a write into such an info (`ServedIsAnswered`, since the answer shows
in what is parsed of it, `AllParsed`), and the client, reading it, changes the box
(`DoorIsRead`), which ends the wait (`SyncEndsWait`). A write whose proxy the server does not
know would be lost: `HeldIsBound` says that an entry's proxy is bound, that its bind is
ahead of any write to it, or that the node is leaving, which also ends the wait.
`WaitInv` is `SessionInv`, `FitInv`, `HeldIsBound` and `WaitsForAnswer` together.

`LastGestureCounts` speaks of rest too, and its invariant `LastInv` is `WaitInv` and five
facts about what is under way, on the way there and back. `LastSound` is the way there: as
long as every write under way will reach somebody (one that does not empties `last`), each
control in `last` is of a listed box whose door's proxy is bound, and at the place on the
wire where the segment has that input (`OnWire`) the last word has the value set. The place
is the segment's and not the box's, so a box that is dropped, and says of no input where it
is, takes nothing back. The last word is the last write to the cell among the requests or,
where there is none, what the node asserts in the graph. `LastTold` and `BoxSynced` are the
way back: the last info under way of a node is what the graph has of it, and a box whose
sink has no info under way is already what that sink publishes. `SinkIsAlone` says that no
other node's word gets in between, since the walk never knows two sinks of a segment.
`StrapKnown` says that a box's base, if it has one, is that of a dict of its segment, so
that by `BaseIsKept` a cell stays the same input's while a write to it is on its way, and
two controls never share one (`SameControl`). A write that
is served moves the last word from the requests to the graph (`ServedHasWord`, since the
daemon's table with a cell set says it and of the others what it said before,
`ShadowSays`); an event that is dispatched moves the box towards the graph (`SinkTold`) and
leaves `LastSound` as it was (`DispatchedSound`); a gesture becomes the last word itself
(`GestureSound`, since it is made of a box that says where its inputs are, `BoxOnWire`); what other nodes do touches neither
(`GraphSound`). At rest there are no requests and no events, so what was set is asserted,
what is asserted is in the box, and the page shows it, since nothing waits (`RestCounts`),
unless the box has no place on the wire any more.

**What is only model-checked.** Liveness (`Settles`, `ListReturnsWhileServed`) is out of
the prover's reach: it needs ENABLED for the fairness of `Serve`, `Dispatch` and the loop. Every
other property of a passing run is the statement of a theorem. The statements of the five
violated runs are of course not theorems.

## Not modelled

The wording of sentences, subtitles and of the printed list; the layout of the pod;
translations, build and packaging. `main.c` chooses between `--list` and the window,
looks for the catalogues and presents the window it has when it is activated again:
it keeps no state of the graph, and what it starts is `ListInit` or `SessionInit`. A
client that cannot connect is not a behaviour of the models: `--list` ends with
status 1 and the window has no operation. `rs_pw_dispose` and `rs_walk_free` run when
nothing is left that could observe them. Memory running out. The daemon's own gate
on a write beyond `ANSWERS`. A channel count near `INT_MAX`, whose loop over the inputs
(`rs-window.c:221`, `rs-list.c:74`) never ends.

## Findings

Five statements of the repository that the code does not keep; each is a run that
TLC violates, with the lines in `PROJECT.json`.

* `restamp`: a node that changes its segment name stays in the array of the first
  one and enters that of the second; when it leaves, the second keeps a pointer
  to freed memory (`rs-walk.c:145`).
* `list_hangs`: a lost connection leaves `--list` waiting for ever (`rs-pw.c:176`).
* `refused_twice`: a write refused with the code of the one before changes nothing in
  what the node publishes, so no `box-changed` is emitted; the row says "Writing…"
  and the control stays where the operator put it (`rs-window.c:96`).
* `refusal_said`: the sentence of a write refused on the spot is cleared by the
  `sync_content` that follows it (`rs-window.c:93`).
* `refusal_row`: `pending_input` outlives the selection, so another box's earlier
  refusal is shown on a row that was not written to (`rs-window.c:377`).

Two more were met and have no run of their own: the box that keeps the values of a
sink that left (above, under `audit`), and the empty page, which says "No REAC segment
is present" also when boxes are listed and none is selected, though
`rs-window.c:479` promises that it says which of the two it is.

## What could come next

* A daemon that may refuse, for `LastGestureCounts`: the last word is then the last write
  that was accepted, and `last` has to follow the daemon rather than the operator.
* A strap that moves: `BaseIsKept` would become a statement about which writes are refused
  by the daemon's own gate, which is not in this repository.
