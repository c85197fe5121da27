# Models and proofs of rusty-proxy

TLA+ specifications of the concurrent map, the atomic pointers and the
connection handling of this reverse proxy, the TLC configurations that check
them on small instances, and TLAPS proofs about each of them. Paths below are
relative to the repository; `old/` under `src/` is dead code that no cargo
target compiles and is left out.

## The system

| Component | Code | State | Operations |
|---|---|---|---|
| SyncMap | `src/sync_map.rs` | `read` (immutable map and `amended`, behind an atomic pointer), `dirty` (map under a mutex), `misses` | load, store, load_or_store, load_and_delete, delete, keys, values, key_values |
| Entry | `src/sync_map.rs` | one atomic pointer: a box, null, or EXPUNGED | load, try_store, store_locked, unexpunge_locked, try_expunge_locked, try_load_or_store, delete |
| AtomicValue, AtomicValueUnchecked | `src/atomic_value.rs` | an atomic pointer to a box, shared by cloned handles | new, clone, load, store, drop |
| Connection | `src/proxy.rs` | per client: `req_buf`, `bytes_read`, the buffer of `client_write`; per session: the site, the two halves of the server's stream, the favicon channel | handle, handle_http, its `client_fut` and `server_fut`, serve_base and its handlers |
| Requests | `src/proxy.rs` | none: functions on bytes | remove_site_name, write_req, find_body_start, the special headers |
| Routes | `src/proxy.rs` | a SyncMap of servers | load (routing), delete_server; add_server stores nothing yet |
| Home page | `src/proxy.rs` | `home_html_bytes`, written once | serve_home_page |
| Tunnels, TLS | `src/proxy.rs` | none in effect | stubs |

How they interact. `Proxy::run` spawns one task for each client; the tasks share
nothing but `routes` and the home page. A task looks up the server of a
request in `routes` once and then pipes: `client_fut` and `server_fut` run
under one `tokio::select!` and share a channel; whichever ends first has the
other dropped. `SyncMap` calls the methods of `Entry` inside and outside of its
mutex and publishes `read` through `AtomicValueUnchecked`.

What is hard, and the properties that make each part correct:

* **SyncMap.** Lock-free paths that decide on a `read` which may be replaced
  under them; an entry shared by two maps; marking entries EXPUNGED while
  others store into them. Correct when it is linearizable, loses no value,
  `dirty` mirrors `read`, and each box is freed once.
* **Entry.** Retry loops, addresses that are used again, dereferences after the
  fact. Correct when each method is atomic and every box has one owner.
* **AtomicValue.** Readers beside a store; drops of handles. Correct when no
  freed box is read or freed.
* **Connection.** Order of two futures, a session that ends for five reasons,
  what is left in the buffer when it does. Correct when each server gets the
  requests for its site, once and in order, and each client the answers to its
  requests, in order; when deletions of routes are respected; when nobody hangs.
* **Requests.** Index arithmetic, and reads that end anywhere. Correct when the
  site and the request line are those of the reference definition.

PROJECT.json lists the hazards line by line with the properties that cover them.

## Modules

| Module | Models |
|---|---|
| `SyncMap` | the map: one action per access to `read` or to an entry that other threads can see without the mutex |
| `MapSpec` | what the map promises: an abstract map, one atomic effect per call |
| `SyncMapLin` | `SyncMap` with a history variable and the refinement mapping to `MapSpec` |
| `SyncMapProofs` | theorems about `SyncMap`: types, the mutex, and that `dirty` mirrors `read` |
| `SyncMapOwnership` | theorems about `SyncMap`: values are reachable, boxes have one owner, promotions come |
| `SyncMapLinProofs` | theorem: `SyncMapLin` implements `MapSpec` |
| `Entry` | one entry, one action per load or compare_exchange, boxes at reusable addresses |
| `EntrySpec` | an atomic cell: what `SyncMap` takes an entry to be |
| `EntryProofs` | theorems about `Entry`: types, owners, and that it implements `EntrySpec` |
| `AtomicValue` | both pointer types; `FreeAtEveryDrop` selects `AtomicValue` |
| `AtomicValueProofs` | the inductive invariant of `AtomicValue` and the theorems |
| `Connection` | connections, sessions and routes |
| `ConnectionProofs` | theorems about `Connection`: types, routing, deletion |
| `ConnectionOrder` | theorems about `Connection`: order and number of receipts and answers |
| `Request` | the bytes of a request: first reads, parsing, rewriting |
| `RequestProofs` | theorems about `Request`: the buffer, the site name, the proxy header |
| `MC*` | what the runs need: symmetry sets, sequences as constants |

Operators whose comment begins with "Mutant" are changed forms of a definition
that stands after them. No specification uses them: with one in the place of the
original, the property it is listed for in PROJECT.json fails.

### SyncMap

`read`, `dirty` and `misses` are the fields of the struct; `p[e]` is the pointer
of entry `e`. Entries and boxes are named by the number of the call that
allocates them, so a box is identified with the value it holds. `pc[t]` is the
place of thread `t`; `ent`, `iter` and `out` are its local variables. `holder`
is the mutex. What a critical section does to `dirty` and `misses` alone cannot
be seen by others and is joined to the visible access next to it; a section with
two visible accesses (store into a found entry, load_or_store, dirtyLocked) is
two or more actions with the mutex held. The methods of an entry are single
actions; `Entry` is the reason why they may be. keys, values and key_values
differ in what they return of the same visit and are one operation, `range`;
delete is load_and_delete. Clones of a SyncMap share all their fields.

`MapSpec` gives each call one effect between its invocation and its return. A
load, and what a load_or_store or load_and_delete finds, may be any value the
key had since the call began (`seen`), which is what linearizability leaves to a
reader: the effect of a read may be placed at an earlier moment of the call.
`range` is not a snapshot: each key on its own. What a load_or_store answers when it
stored its value is left open: the code answers `Some` of it if the key was absent and
`None` if it was deleted, and no text says which is meant.

All results about the map are conditional on no freed box being dereferenced,
which the code does not ensure (see "Shown without a run").

### Entry

`heap[a]` is the call whose value lives at address `a`. A call that wants to
store has allocated its box (`own`); `Deref` is the clone through a pointer
loaded earlier, and if the address has been freed, or used again, in between,
the behaviour ends with `fault`. `Atomic` says that otherwise the entry is the
cell of `EntrySpec`, with each method at one instant. The `_locked` methods are
called by one thread at a time.

### AtomicValue

`fault` records the first read or second free of a freed box; the model stops
there because what follows is undefined. `Value::drop` runs with the last handle.

### Connection

What a client sends is `stream`, at most `MaxSend` items: requests, and pieces of
them, each known by what the code tells apart, the site it names or the special
case it is. `next` counts those that were read. A read (`Take`) returns one item
or several at once, as pipelined requests and bodies do; like the code, the model
looks at the first of them (`Req`) and treats the read as one request. With
`Polite` a client waits for each answer before it sends again.

`buf` is the last read in `req_buf` and `len` the read whose length `bytes_read`
is, so that a stale `bytes_read` shows. `ses` is the session: `site`, `server` (the
state of the stream), `asked` (requests the server has not answered), `resp`
(answers not yet read), `ico` (the channel) and `flushing` (server_fut waits in the
flush of an answer). `wbuf` is what `client_write` holds unflushed; it outlives the
session whose end drops `server_fut` in a flush. `pc` is `forward` while `client_fut`
has read a request and is writing it.

The actions `Pipe*` are the branches of the two futures together with the branch
of the select that their end leads to. A server that closes its stream is read as
empty answers, whose flush shows only if an earlier session left something unflushed
(`PipeServerEnds`). `Faults` enables what may go wrong: clients
that leave (`client_gone`) or end their stream and go on reading (`half_close`),
servers that cannot be reached, reset or close, requests with a proxy header, a
failed accept. The servers and the clients are external. `received`, `answers`,
`deleted` and `failed` are history for the properties.

No code adds a route (`add_server` ends in a comment), so the initial state has
any set of routes, and they can only be deleted. `routes` is a set with atomic
operations because `SyncMap` is shown to be linearizable.

### Request

`sent` grows byte by byte, up to what the client sends (`Client`: how its request
begins, the bytes it goes on with, its length). `ReadHeader` and `ReadRequest` are
the two reads of a new connection, either of which may return no bytes at the end of
the client's stream, and the functions are evaluated on what is then in the buffer.
Bytes are classes: blank, slash, line ends, other; the name of the proxy header
is one token. Parsing gives "400", a result, or a panic where an index of the code
is out of range.

## Runs

Bounds are those of the `.cfg` files. Each run ends within about two minutes on two cores.

| Run | Shows | Bounds and why they are enough |
|---|---|---|
| `syncmap_lin` | `Linearizable` (refinement of `MapSpec`), `DirtyMirrorsRead`, `MissesBounded`, `NoValueLost`, `BoxOwnership`, types | 2 threads, 2 keys, 5 calls; a cycle amend, promote, delete, rebuild (expunge) takes 4 calls of one thread, the fifth is the other's, at any point of it |
| `syncmap_live` | `EveryCallReturns` | 2 threads, 2 keys, 4 calls: enough to amend, fill and rebuild `dirty` by one thread while the other waits for the mutex |
| `entry` | `Atomic`, `OneOwner`, `EveryCallReturns`, types | 2 threads, 3 addresses, 5 calls: a pointer is loaded, freed, its address used again, and compared |
| `atomic_value` | `BoxesAccounted`, `NoDoubleFree` | `AtomicValueUnchecked` (`FreeAtEveryDrop = FALSE`), 3 threads, 4 boxes: two stores and the drop of the last handle at once |
| `conn` | `RoutedBySite`, `DeliveredInOrder`, `AnsweredOnceInOrder`, `NothingSkipped`, `LeaversEnd`, types | 1 client (connections share only routes), 2 sites of which any may be routed, 3 items of which a read takes one to three: a session, a switch, a switch back; a piece of a body joined to a request or cut from it; all faults of clients and servers; channel of 1 instead of 5, so that it fills |
| `conn_delete` | `DeletedStaysDeleted` | 2 connections, 3 requests each |
| `conn_polite` | `AnswersMatch`, `EveryRequestAnswered` | 3 requests of all kinds that are answered; clients that leave or end their stream, servers that fail with a request pending, a failed accept |
| `request` | `SiteRemoved`, `SiteSurvivesShortRead`, `PathAddedOnce`, types | three clients: `x` and any 8 bytes of a blank, a slash, a line end and a letter (a slash, a slug, a slash, a rest and a line end fit); a request line and any 8 bytes (a header, the blank line and a body fit); nothing, or special headers |

Runs that show a disagreement between the code and what its comments say
(PROJECT.json, `findings`):

| Run | Disagreement |
|---|---|
| `conn_twice` | a failed write to the client has the last request sent to its server again |
| `request_panic` | a chunk whose first line ends before its second blank panics the task |
| `request_begins` | a short first read leaves zero bytes in the request |

### Shown without a run

The modules state four more properties which do not hold of the code, and
`NoDoubleFree` does not hold of one of the two pointer types. No text of the
repository says that they should, so no run is kept for it; each fails when it
is added as an INVARIANT to the run of its module.

* `NoExpungedEntryDropped` (`SyncMap`): a promotion drops an entry marked
  EXPUNGED, and `Value::drop`, which tests for null only, frees the mark.
* `NoUseAfterFree` (`Entry`) and `NoReadOfFreed` (`AtomicValue`): a box is cloned
  after another thread freed it. The other results suppose that it is not.
* `NoDoubleFree` with `FreeAtEveryDrop = TRUE`: every dropped clone of an
  `AtomicValue` frees the shared box. The program uses only `AtomicValueUnchecked`,
  of which the property is checked and proved.
* `PathHeaderExtended` (`Request`): a request that carries `rusty-proxy-path`
  panics the task.

`AnswersMatch` and `EveryRequestAnswered` are checked without two faults, which no
text of the repository rules out: a server that closes its stream (`server_fut`
reads `Ok(0)` for ever and the client is never told: `EveryRequestAnswered` fails)
and one that resets an idle session (a 500 to no request: `AnswersMatch` fails).
They exclude `post` as well: a valid POST to the proxy is never answered. The
theorem about `AnswersMatch` needs only that no idle session is reset.

## Fairness

* Map and entries: weak fairness of the steps inside a call. Threads are
  scheduled; no thread needs to begin another call. The mutex needs no more: the
  number of calls is finite, so it is free for good in the end.
* Connection: weak fairness of each task, since the runtime polls tasks that can
  go on, and reads outside a session time out after 10 s. Strong fairness of
  `client_fut` and weak fairness of `server_fut`, because `select!` polls its
  branches in random order, so one that is ready again and again makes a step.
  Servers that are up answer, and clients that are there read what they are sent.
  Clients need not send.

## Proofs

Every safety invariant, action property and refinement that a passing run checks is
a theorem: the run shows it on its instance, the theorem for every value of the
constants. Where nothing else is said, a theorem assumes only what its module
assumes of its constants. PROJECT.json lists the theorems with their properties.

### SyncMap

`SyncMapProofs`: `TypeCorrect` (`TypeOK`), `MutualExclusion` (`OneHolder`) and
`DirtyMirrors` (`DirtyMirrorsRead`, the promise that lets the lock-free paths ignore
`dirty`), for every set of threads and keys and every number of calls.

`DirtyMirrorsRead` is not inductive. A call that inserts an entry would break it if
that entry were in a map already, so `CallsDistinct` and `EntriesDistinct` say
that calls, and with them new entries, are distinct. A store under the mutex into an
entry would break it if the entry were expunged, so `NotExpunged` keeps entries in
`dirty`, and the one just unexpunged, unmarked. While dirtyLocked is between
two entries, `RebuildOK` says which of them are already done. `IInv` is the conjunction.

The proof of the step is in three layers: types (one lemma per helper of
`SyncMap`), the frame (`StepFrame`: what a step of one thread leaves alone), and
the shared state. There the actions fall into few kinds: those that mark nothing
(`KeepsMarksStep`), publications, unexpunging, insertion, and the
two steps of a rebuild, with one lemma each; `SharedStep` assigns each action to its kind.

`SyncMapOwnership`: `ValuesReachable` (`NoValueLost`), `BoxesHaveOneOwner`
(`BoxOwnership`) and `MissesStayBounded` (`MissesBounded`).
The first two need to know what a thread holds between two steps, while maps are
promoted and rebuilt under it. `OInv` adds to `IInv`: an entry that a thread is
about to use has been inserted, and is under no key but the one it is used for
(`UsesOneKey`); a store is about to go to an entry of `read` or to an expunged one,
where it will fail (`Routed`), so it never revives an entry that is in no map; the
boxes on the heap are those of the entries and of the calls, each once
(`BoxesOwned`); an entry not yet inserted is null (`NullBefore`).
`MissesBounded` is inductive with `OInv`: what shrinks `dirty` is a load_and_delete,
which counts a miss, and promotes if need be, in the same critical section; an insertion
into an empty `dirty` begins with no misses, and one into a full `dirty` adds a key, since
`dirty` mirrors `read`.

`SyncMapLinProofs`: `MapIsLinearizable` (`Linearizable`): initial states of
`SyncMapLin` map to initial states of `MapSpec`, and each step to a step of `MapSpec`
or to none. The steps that answer need the answer to be among the values that the
key had since the call began. So `LInv` adds to `OInv` that `seen` has the present value of
a key from the moment a call asks for it (`SeenOK`), and that an entry at hand is the
one of its key, or else the key has had both the value that the entry still
holds and none since the call began (`UsedTracked`, and `RangeTracked` for `range`): the
entry was current when it was found and was deleted or expunged since. A
load_and_delete empties an entry of `read`, or one that it alone has taken out of `dirty`
(`DeletesRouted`, `OneDetacher`).

### Entry

`EntryProofs`: `TypeCorrect` (`TypeOK`), `EveryBoxOwned` (`OneOwner`) and
`MethodsAtomic` (`Atomic`), for any threads, addresses and number of calls.
`EntryAssumption` says that null and EXPUNGED are two different marks and no
addresses. The invariant has two parts: `Owned`, that an address is
allocated exactly when the entry or one call has it, and `InPlace`, what the place
of a call says about it and its registers. A compare_exchange that
succeeds on an address that was freed and used again finds in the cell whatever the entry
now points to; the refinement holds because it swaps out that value, not the
one that was loaded.

### AtomicValue

`AtomicValueProofs`, of `AtomicValueUnchecked` (`FreeAtEveryDrop = FALSE`), for every
number of threads, handles and stores: `NothingLeaks` (`BoxesAccounted`) and
`FreedOnce` (`NoDoubleFree`). The two need each other and two facts more: a thread
inside a call has a handle, so that the last drop meets no store (`HandlesKept`), and
boxes are numbered, so that the one a store allocates is new (`BoxesNumbered`).

### Connection

`ConnectionProofs`, for every set of connections and of sites, all kinds of
requests and all faults: `TypeCorrect` (`TypeOK`), `ReadsAreRouted` (`RoutedBySite`)
and `DeletionIsFinal` (`DeletedStaysDeleted`).

The last two look at what servers received; they follow from what the place of a
task says about the read in hand (`ReadInHand`): a task that connects holds a request
whose site had a route when it was looked up, and one that forwards within a session
a read that `ForSession` admits. That the site had not been deleted when the request
was sent needs two more facts: a route that is there was not deleted
(`routes \cap deleted = {}`), and what a request found deleted still is (`LateIn`).
A route may be deleted between the look-up and the connection; the request was then
sent before, and `late` does not have the site. Each action is of one of a few kinds
(`EndingStep`, `TakingStep`, `SessionStep`, `ForwardStep`), with one lemma each.

`ConnectionOrder`, under all faults: `RequestsArriveInOrder` (`DeliveredInOrder`),
`RequestsArriveWhole` (`NothingSkipped`) and `AnswersComeInOrder`
(`AnsweredOnceInOrder`). `OrderInv` compares every number a connection has to do with to
`Mark`, the last request that was dealt with: a read is a run of requests that ends
where the reading does (`Numbered`, which has to except a client that is gone and
what is left of its stream); what servers received is in order and up to the mark, and within a
session is followed by what comes next (`Delivered`); what was answered, is
written but unflushed, and is still owed by the server or by the favicon channel
could be sent in its turn (`Answered`, over the concatenation of all four).

`AnswersFollowRequests` (`AnswersMatch`) is about clients that wait for their answers
(`Polite`) and supposes that servers do not reset an idle session
(`"idle_reset" \notin Faults`), because it is false otherwise. `TurnInv` adds to `OrderInv`
that answers came in turn and at most one request more was sent (`Settled`), that this
one is at one place at a time (`Awaited`), and that a server that has reset owes an answer
(`Busy`).

### Request

`RequestProofs`, for buffers, requests and clients of any size: `TypeCorrect`
(`TypeOK`), `SiteTakenOut` (`SiteRemoved`), `SiteOfShortRead`
(`SiteSurvivesShortRead`) and `ProxyHeaderAddedOnce` (`PathAddedOnce`). The
invariant is `Filled`: what the two reads have put where. The rest is about
functions on sequences. The source searches for a byte with iterators, the model with
the least element of a set of indices; that a set of numbers has a least (and a
bounded one a greatest) element comes from the library's theorem on well-founded
relations. From this follow what a search returns (`PositionIs`), how pieces that are cut
out join again (`CutsJoin`, `CutOfCut`), that a proper line splits into method, target and
version (`Splits`), and that the line that is left splits in the same way (`LineLeft`).

`SiteOfShortRead` rests on the zeros of a short read lying before the first blank of
the line. It assumes `HeaderLen <= 4`, the size of the array of the first read in
`Proxy::handle`; with a method of three letters or more, of which the property
speaks, the zeros then follow letters. `ProxyHeaderAddedOnce` locates the first blank line and the end
of the last header, and shows that the code, which counts in the whole request but cuts from the
new line on, and `find_body_start`, which looks for four bytes, agree where they are.

### Only model-checked

Liveness under fairness is out of the prover's reach: `EveryCallReturns` of the map and of
an entry, `LeaversEnd` and `EveryRequestAnswered` of `Connection`. So is ENABLED, with
which absence of deadlock would be stated, and induction over data; no definition
that a theorem is about is recursive. That the models are those of the code is not proved
either: PROJECT.json names the lines of each definition.

## Not modelled

* Memory orderings: the models are sequentially consistent. The code publishes
  pointers with SeqCst exchanges and reads them Relaxed (`TODO: Do Orderings`).
* Writes are complete: they go into buffers of 8 KiB (`BufStream`, `BufWriter`) and
  none is longer than about 1 KiB, so that `write` for `write_all` does no harm.
  Flushes that block because a peer does not read are steps that come later.
* The bytes that an older, longer read left behind a stale `bytes_read`.
* Where a read cuts a request: a piece is an item of `stream` of its own, and what
  it looks like is any of the kinds.
* The content of the home page, JSON parsing, logging, TLS, tunnels (stubs), `old/`.
* Panics that poison the mutex of `dirty`: no operation panics while holding it.

## Plan

1. Done: `SyncMap` with `MapSpec`, `Entry` with `EntrySpec`, `AtomicValue`,
   `Connection`, `Request`; proofs of types, exclusion and `DirtyMirrorsRead`.
2. Done: reads that cut and join requests, unflushed answers, half-closed clients
   and failed accepts in `Connection`; proofs about `AtomicValue` and `Connection`.
3. Done: proofs of every safety property and refinement that a passing run checks,
   for all components.
4. Next: how far the violations reach, as theorems: that `remove_site_name` returns
   whenever the line has both blanks (`RemoveSiteNameReturns`), that nothing is changed
   by a first read that is not short (`BeginsWithBytesRead`).
5. `AtomicValueUnchecked` below `SyncMap`, under a weak memory model.
