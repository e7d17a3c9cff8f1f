# Verification of damas

damas is a static-file HTTP server in Rust: compio (one thread, completion-based
I/O), optional TLS through rustls, a radix tree of locations, two moka caches,
httparse for requests. This directory holds TLA+ models of it, TLC
configurations that check them on small instances, and TLAPS proofs. Paths such
as `src/src/http.rs` are relative to the repository's parent; in the text
below, `http.rs:13` stands for `src/src/http.rs`, line 13.

    tlc -config IndexCacheRaces.cfg MCIndexCache.tla     model-check a run
    tlapm IndexCacheProofs.tla                           check the proofs

`PROJECT.json` lists the runs, the source lines of every definition, the
hazards, the findings and the theorems, and for each property a mutation of the
model that breaks it.

## 1. Inventory

| Component | Source | State | Operations |
|---|---|---|---|
| Router | `router.rs` | a radix tree of `RouterNode`s, built once | `from_config`, `insert`, `split_child`, `search` |
| Connection | `http.rs`, `router.rs:54-148`, `response.rs`, `error/damas_error.rs` | request buffer; open file, position, file buffer; the stream | `handle_connection`, `handle_request`, `RouterHandler::handle_request`, response heads |
| Index cache | `index.rs`, `response.rs:62-76` | moka cache: directory -> (page, mtime) | `render_index`, `index_page_response`, eviction |
| Error registry | `error/error_registry.rs` | moka cache: status -> body | `init_with_config`, `resolve`, eviction |
| Path safety | `util.rs`, `config.rs` validation | none (pure) | `sanitize_path`, `check_path_safety`, `is_pure_filename` |
| Server | `server.rs`, `lib.rs`, `main.rs` | listener, TLS acceptor, the shared `ServerContext`, the tasks | `main`, `from_config`, `run` (accept loop, one task for each connection), `handle_connection` |
| Error type | `error/damas_error.rs` | none | `status_code`, conversions |
| Configuration | `config.rs` | none after start | KDL decoding, validation, reading certificate and key |
| TLS configuration | `cert.rs` | none | `build_rustls_server_config` |

How they interact. `main` decodes the configuration; `Server::from_config`
builds the router, loads the error pages into the registry and makes the TLS
acceptor; `run` binds, then spawns one detached task for every accepted stream.
Each task runs `handle_connection`, which reads ONE request, asks the router for
a location, and lets the location send a file, an index page (through the index
cache) or return an error, which `handle_connection` answers with a page from
the registry. Tasks share the router (never changed), the two caches, and the
file system, which other processes change at any time. Tasks interleave at
every `.await`; the directory scan runs on a thread of a blocking pool.

Behaviours that are hard, and the properties that make a component correct:

- **Index cache.** Several tasks list one directory while it changes; pages are
  stored under an mtime read before the listing; any entry may be evicted; the
  directory may vanish. Correct when no page is outdated with regard to the
  request it answers, and every request is answered.
- **Router.** Each insertion may split an edge and move handlers to new nodes.
  Common prefixes are counted in bytes, edges compared by characters. Correct
  when each location stays at its own path with its own match type whatever is
  inserted later, and `search` finds the longest match.
- **Connection.** Requests arrive in pieces; the peer may close or reset;
  the path, the index files and the file's size change between the calls that
  look at them; reads, writes, flushes fail or are partial; a TLS stream keeps
  what is not flushed. Correct when every connection ends, silence is explained,
  refusals and listings answer to something that was so, and a file is sent
  whole and in order unless something disturbed it.
- **Error registry.** Entries are inserted in the order their files are read,
  which may come, go and fail meanwhile; the capacity of an evicting cache bounds
  what is meant to be permanent; several tasks may want a page that is not
  cached. Correct when a status is answered with a page of its own, a page that
  was read is lost to eviction only, and every call returns.
- **Path safety.** A component stack in the one check, a depth counter in the
  other, both after decoding. Correct when no request names a file outside its
  root, and the two checks accept the same paths.
- **Server.** Certificate and key are read one after the other while they may be
  renewed; each of eight steps of a start may fail; connections share
  descriptors, and a client may keep one for ever. Correct when what fails at
  start stops the server, what fails in a connection does not, and nobody who
  can be served waits for ever.

## 2. Modules

| Module | Role |
|---|---|
| `DirectoryListing` | abstract: what an index page promises, without a cache |
| `IndexCache` | `render_index` by many tasks; implements `DirectoryListing` |
| `RouteTable` | abstract: a table of locations and longest-match lookup |
| `Router` | the radix tree; implements `RouteTable` |
| `Exchange` | abstract: what a client sees of one connection |
| `Connection` | one connection, with its client and the other processes; implements `Exchange` |
| `ErrorPages` | abstract: which page a status has, and when callers get it |
| `ErrorRegistry` | loading, eviction and the single flight; implements `ErrorPages` |
| `PathSafety` | the path of a request and the paths of a configuration, component by component |
| `Server` | start, accept loop and tasks; uses `ErrorPages` for the registry |
| `IndexCacheProofs`, `RouterProofs`, `RouterPanicProofs`, `ConnectionProofs`, `ErrorRegistryProofs`, `PathSafetyProofs`, `ServerProofs` | theorems about these modules (section 4) |
| `WellOrder` | the principle of the least number, for proofs about recursive functions |
| `MCIndexCache`, `MCRouter`, `MCConnection`, `MCErrorRegistry`, `MCPathSafety`, `MCServer` | instances for TLC |

The modules meet where the code does. `Server` takes the error pages from
`ErrorPages`, which `ErrorRegistry` is checked to implement, so a task that
waits for a page waits for what the registry was shown to give. What a task does
between "request" and "away" in `Server` is `Connection`, whose `Ends` is the
fairness `Server` assumes of a task. `Connection` leaves the look-up to `Router`
(its answer is the request's `route`), the path to `PathSafety` (`route =
"unsafe"` is what that refuses) and the index page to `IndexCache`. The four
together would only multiply states: nothing but descriptors, the registry and
the index cache is shared, and each of these has several actors in its module.

### IndexCache

`names`, `present`, `mtime`, `clock` are the file system; `cache` is
`IndexCache.inner`; `pc`, `target`, `view`, `current`, `todo`, `files`,
`heading` are the locals of each task in `render_index` (`dir_path`,
`should_visible_path`, `current_mtime`, the iterator, `files`). One action per
place where another actor can come between: `Metadata` (`index.rs:39`),
`CacheHit`/`CacheMiss` (43-50), `OpenDir` (54), `ReadEntry` once per entry
(57-64), `Insert` (65-89), `Fail` (every `?`), `Respond`. A page is the set of
names it lists, because the code sorts them; `Hidden` are the names it skips.
`always` and `ever` are history variables: the names the directory could show
throughout, and at some moment of, the request.

moka is external: an entry may go at any moment the cache holds more than
`Capacity` entries. The file system is external: a change stamps the directory
with a time that is `t \in Ticks` after the last one. `0 \in Ticks` stands for
a clock so coarse that two changes share a stamp.

### Router

The owned tree is kept as a sequence of nodes that name their children by
position. `BeginInsert` is an iteration of `from_config`; each recursive call of
`insert` is one of `PushChild`, `SplitPanics`, `SetHandler` and `Descend`, the
last three including `split_child` when the edge is longer than the common
prefix. `search` is a recursive function over nodes and positions. Paths are
sequences of `Bytes`; those in `Continuation` continue a UTF-8 character, so that
`chars().next()`, the byte-wise common prefix and the slice that panics are each
what they are in the code. `Utf8Assumption` is what UTF-8 adds: paths that begin
with the same bytes have the same characters there, so that a character ends in
both or in neither (TLC evaluates it for the instance; it holds of any strings
of Rust, since the first byte of a character tells its length).

### Connection

`pc` is the await (or the file system question) the task is at. `request` holds
what the code finds out about a request (method, location, number of index
files, autoindex), how many bytes it must have read to do so, and how many of a
`next` request the client sends behind it. `Send`,
`Close`, `Reset` are the client; `ChangeEntry`, `ChangeIndex`, `Resize` are
other processes; the other actions are the calls of the three functions in
their order. `heads` and `body` are what was written (statuses, file offsets),
`flushed` whether it has left. `blame`, `seen`, `lacked` are history: what
disturbed the exchange, and what the requested path and the index files were
while it was handled. What can go wrong is in `Faults`: a reset by the client,
after which nothing can be written; a read of the stream that fails although it
can still be written ("receive": no TLS record, or a TLS connection not closed
before its stream), which is answered 503; a denied open; a failed read of the
file; a short write; a failed write; a failed shutdown. `From` is the conversion of an I/O error to a
`DamasError`, `status_code` the status of each error; every early return goes
through them (`Throw`).

`Exchange` is what is left when files, faults and buffers are hidden: nothing,
or one response, that may have an error page put into its body at its end, and
nothing afterwards. A second request that came with the first is thus never
answered, neither behind the first nor in its place.

Assumed of libraries: compio's `append` reads into the unused capacity of the
vector and never grows it, so a full buffer reads 0 bytes; `write` may take
part of its buffer, `write_all` takes all or fails; a TLS stream may keep what
is written until it is flushed or shut down (in `tls_test.rs` the client flushes
after its write and the server shuts down after its own, for that reason), and
what it keeps is gone when it is dropped; once a write has failed the later ones fail.

### ErrorRegistry

Each configured entry has a future (`load`, `opened`, `body`): `OpenFile`,
`ReadFile` and `FallBack` are its two awaits and their failures
(`error_registry.rs:31-49`). `InsertPage` is a round of the loop over
`FuturesUnordered` (55-57), for any future that is ready; `Open` the return.
`Resolve`, `Hit`, `Miss` and `Render` are `resolve` (62-65), with moka's
`get_with`: the first caller to miss computes the page, the others wait for it.
Versions of files stand for their text. Two entries may have one status, two
statuses one file. `ErrorPages` has no cache: a status takes one of its
candidates when the server opens, and can fall back to the default later, once.

### PathSafety

A path is a sequence of segments. `components` is what `Path::components` makes
of them, `Decoding` what `urlencoding::decode` makes of one: several segments
when it hides a slash, none when it is not UTF-8. `Component` is one round of
both loops, `sanitize` (`util.rs:8-24`) and `check` (`check_path_safety` of
`config.rs`), each until it returns; `Finish` joins and compares with the base;
`Index` is the join with an index file in `router.rs:76`, guarded by
`is_pure_filename`, which the configuration must have passed. `SanitizeIsNormalForm` compares the
result with a definition that has no stack: a name stays when no later part of
the path goes up past it.

### Server

`pc` is the step of the start: `ParseConfig`, `Decode` of certificate and key,
in the order they are named, `Validate`, `BuildRouter`, `LoadPages`, `BuildTls`,
`Bind`, each with its failure or panic; then "serving". `content`, `issued` and
`taken` are the files and the address as other processes leave them, `Renew` and
`Replace` a renewal, one file at a time, `Restart` the supervisor. `queue` is
the backlog of the listener, `Accept` and `AcceptError` the loop
(`server.rs:97-121`). `conn` says how far a task is; every task holds a
descriptor, one more while it sends a file. `Silent` clients complete neither
handshake nor request. A configuration is a record of the facts that decide on
its start: whether it parses, what it says of TLS, whether the named provider is
compiled in, and whether its locations are good, refused by `validate`, or make
`split_child` panic (the case `Router`'s `PanicPredicted` describes).

External: that rustls compares the key with the certificate, which
`build_rustls_server_config` relies on; that `accept` fails with the connection
left in the backlog when there is no descriptor.

## 3. Runs

| Run | Question | Bounds |
|---|---|---|
| `IndexCacheRaces` | Is a page ever cached as current, or served, that is out of date, or of another directory? | 2 tasks, 2 directories, a listable and a hidden name, capacity 1, 2 changes |
| `IndexCacheLive` | Does every render end, and does the cache implement the promise? | 2 tasks, 1 directory, capacity 0 (everything is evicted), 2 changes |
| `IndexCacheCoarse` | What if two changes share an mtime? (violation) | 1 task |
| `IndexCacheHeading` | Does a page carry its own request's path? (violation) | 1 task, 2 headings |
| `Router` | Does the tree implement the table, does `search` find the longest match, when does the build panic? | all sequences of up to 3 locations over 24 paths, two match types, 67 queries |
| `RouterEmptyPath` | The same lookup with a location whose path is empty (violation) | up to 2 locations |
| `Connection` | Does every connection end, with one response that is justified, whole, in order and sent, and is it explained when nothing was sent? | buffer of 2, requests of 1 to 3 bytes, one with another behind it, up to 2 index files, files of up to 3 bytes read by 2, 2 changes, TLS, every fault |
| `ConnectionBufferFull` | Does "closed by peer" mean that? (violation) | buffer of 2 |
| `ConnectionShortWrite` | Does the body match the announced length? (violation) | one short write |
| `ErrorRegistry` | Does the registry open, return, and keep the promise of `ErrorPages`; what loses a page? | 3 statuses, 2 files, 3 entries (two for one status, two for one file), 2 callers, capacity 2, 1 new version of a file |
| `PathSafety` | Does a path stay below its root, is the result the normal form, do the two checks agree? | all requests of up to 4 of 8 segments, 4 roots, 7 index names |
| `Server` | Which starts serve, with which pair, why do others fail; is every client served? | 7 configurations (good with and without TLS, one for each defect), 1 renewal, 2 clients and a silent one, 2 descriptors |

Why the bounds are enough for the cases of interest. Index cache: a wrong page
needs a task that has read an mtime, a change, and a second task (or an
eviction) between its look-up and its insertion; two of each leave one to
spare. Two directories with room for one page force eviction by each other.
The proofs of section 4 then remove the bounds. Router: a location
below a split below a split needs three locations and paths of three characters;
paths of two-byte characters with a shared first byte give the cut at every
depth that two characters allow. Connection: a buffer of 2 and requests up to 3
give a request in several reads, one that just fits, and one that does not; a
file of 3 bytes with reads of 2 gives a full read, a partial one, and truncation
or growth before, between and after them; two changes let a path or an index
file go and come back. A file that grows without end is beyond any `MaxSize`:
that the copy stops less than one read past the announced length, wherever the
end of the file is by then, is `BodyInOrder`, proved for every size. Error registry: three statuses in use overflow a
capacity of two, two callers meet on one of them. Path safety: four segments
are enough to go down, up past the root and down again, with an encoded segment
that holds two; the two loops agree round by round, so that longer paths repeat
what short ones do. Server: with two descriptors a silent client leaves one, so
that a connection is accepted while none is left for its file, and the next
waits in the backlog while `accept` fails; one renewal can fall between any two
steps of a start. `MaxClock`, `MaxLocations`, `MaxSize`, `MaxChanges`,
`MaxVersion`, `MaxRenewal` and `MaxLen` bound counters the program does not have
or does not bound.

Fairness. `IndexCache!Fairness`: every task inside `render_index` makes progress
(the runtime polls what is ready, the blocking pool runs what it is given);
nothing is assumed of the environment. `Connection!FairSpec`: the task takes
steps while it can, by a step in which nothing goes wrong: no fault is owed to
anyone. It cannot in `append` with an empty, open connection: no
timeout exists, and `Ends` says only what happens once the client has closed,
reset, filled the buffer, or sent a request. Writes are taken to complete or
fail, i.e. the peer reads or goes away; nothing in the code bounds one that does
neither. `ErrorRegistry!FairSpec`: file operations end and the runtime polls the
futures and the callers. `Server!FairSpec`: `main`, the loop and every task go
on while they can, and the registry answers (`EveryCallReturns`); a client that
is not silent completes its handshake and its request; a renewal that was begun
is completed, the address is given up, and a server that failed is started
again, the last three for `ServesAtLast` alone. No client has to connect, abort
or hang up. `EveryoneServed` needs a descriptor for the others: as many silent
clients as there are descriptors do stop the service, since the code has no
timeout.
`CHECK_DEADLOCK FALSE` is set where the system really stops: the router is built
once, a connection ends, a path is looked at once.

What the passing runs say, besides that the properties hold:

- A connection sends nothing only if the client closed or broke it or sent a
  request that does not fit; an error page over TLS is written, but need not
  leave (`SilenceExplained`). `handle_connection` drops the stream right after
  `write_all` (server.rs:130), without flush or shutdown, and logs only a write
  that failed: a TLS stream that buffers loses a 400, 403, 404, 405, 500 or 503
  without a word. This is a defect on what is assumed above of such a stream
  (TLC finds it once the third case of `SilenceExplained` is left out); a success
  leaves by `stream.shutdown()` (http.rs:87) and has always been flushed.
- A configured error page can be replaced by the default one for good: when its
  file is not there at start, when another entry of the same status falls back
  after it (`fellBack`), and when more statuses are in use than the cache has
  room for. `PageLostOnlyByEviction` says that nothing else does it.
- A start may read a certificate and a key of different renewals. It then fails
  (rustls refuses the pair) instead of serving the wrong pair.
- The comparison with the base at the end of `sanitize_path` never refuses
  anything: it is a second line behind the stack.

### What the violation runs show

Each checks one sentence that the repository says, and that the code does not
keep; the lines are quoted in `PROJECT.json`.

- `IndexCacheCoarse`: freshness is judged by equality of mtimes. A change of
  the directory that comes after the page was listed, but leaves the mtime as it
  was (within the same tick of the file system's clock), goes unnoticed, and the
  outdated page is served.
- `IndexCacheHeading`: the cache key is the directory; the page holds the path
  of the request. Two locations with one root and autoindex share pages.
- `RouterEmptyPath`: a location with path `""` placed first gets every request.
- `ConnectionBufferFull`: a request longer than `connection_buffer_size` ends
  without response, logged as a close by the peer.
- `ConnectionShortWrite`: the count `stream.write` returns is dropped.

## 4. Proofs

Seven modules of theorems about six components, each for every value of its
constants that the named assumptions of the component's module allow. In all
of them the argument is the same: an inductive invariant that TLC had checked on
the instance first, one lemma for every action, and from it the properties.
A theorem whose property is that of a run has the run's property in its
statement.

| Module | Proved (`Spec => ...`) | Beyond the assumptions of the module |
|---|---|---|
| `IndexCacheProofs` | `TypeOK`, `CacheFresh`, `PageInWindow`, `ImplementsDirectoryListing` | `FineTicks` for the last three |
| `RouterProofs` | `TypeOK`, `RadixShape`, `SearchIsLongestMatch`, `ImplementsRouteTable` | `NoEmptyPath` |
| `RouterPanicProofs` | `PanicPredicted` | `NoEmptyPath` |
| `ConnectionProofs` | `TypeOK`, `SilenceExplained`, `RefusalJustified`, `BodyInOrder`, `SecondHeadOnlyAfterFailure`, `WholeUnlessDisturbed`, `ImplementsExchange` | `ReadSize > 0` for `WholeUnlessDisturbed` |
| `ErrorRegistryProofs` | `TypeOK`, `PageLostOnlyByEviction`, `ImplementsErrorPages` | |
| `PathSafetyProofs` | `TypeOK`, `StaysInBase`, `DepthAgrees`, `SanitizeIsNormalForm` | |
| `ServerProofs` | `TypeOK`, `ServesMatchingPair`, `FailureExplained` | |

What is assumed. The assumptions of the modules say what the constants are:
requests have at least one byte, the set of clients of a server is finite, a
file has at least one version, a key pair at least one issue, paths are UTF-8,
names are not `.`, `..` or a slash, decoding a segment gives segments. None of
them excludes a state the program can be in. Three hypotheses
are added, because properties fail without them:

- `FineTicks` (`0 \notin Ticks`: no two changes share an mtime):
  `IndexCacheCoarse` is the counterexample.
- `NoEmptyPath` (`<<>> \notin Paths`): the configuration does accept `""`.
  `RouterEmptyPath` shows that the search is then wrong; the shape of the tree
  and the refinement fail with it, because the location becomes a node without
  an edge. `TypeOK` and `PanicPredicted` hold with such a path on the instance
  too, but their proofs rest on the tree, which is then none.
- `ReadSize > 0`: with `file_read_buffer_size 0`, which the configuration
  accepts, `read_at` returns 0 at once and only the head is sent.

The bounds of the models (`MaxClock`, `MaxLocations`, ...) are any numbers.

### Index cache

`PageInWindow` is not inductive: a task can be about to store a page it listed
long ago, and another can be about to hit it with a window of its own. `IndInv`
adds:

- `Clocked`: no stamp is ahead of the clock, so a change makes every mtime held
  by a task or an entry out of date;
- `WindowNow`: the window of a request in flight contains the present listing;
- `HitInWindow`: an entry a task at its look-up would hit is within its window;
- `ScanFresh`: while the mtime a scan started from is still the directory's, the
  scan has seen exactly what it has come to;
- `ScanInWindow`: what a scan has listed is within the window of every request
  that read the same mtime, so its insertion cannot hurt them.

The refinement maps every step of a task or of the file system to one step of
`DirectoryListing` or to a stutter.

### Router

`RadixShape` says what is true between insertions; in the middle of one a split
has made a node that does not branch yet, and what the tree looks like says
nothing of where `insert` is in it. `IInv` has four parts:

- `Tree`: the nodes are the radix tree of their paths. Edges join the path of
  their node to that of the child (`Linked`); every path of a node is the
  beginning of a location's path, up to the end of a character, and no other node
  has it (`Distinct`); a node whose path begins with another's is below it
  (`Covered`); siblings have no character in common (`Apart`). `Covered` is what
  makes a longest match findable by going down, `Apart` what makes the way down
  unique, `Distinct` why a location is replaced and not shadowed by a later one.
- `Stored`: types; the root has no location.
- `Inserting`: `full[at] \o rest` is the path of the location being inserted.
- `Branches`: a node without location has two children, except the stem of a
  split that `insert` has just gone into: it has one, and that one does not
  begin as the rest of the path does, so that a leaf is pushed next.

Splitting (`SplitTree`) and pushing (`PushTree`) keep `Tree`; both turn on the
characters of an edge, not on its bytes, which is where `Utf8Assumption` and the
guard of `SplitPanics` enter. The refinement: a split changes no entry of the
table (`PreparedTable`), the last step of an insertion replaces exactly the entry
with the location's path (`HandlerTable`, `PushTable`).

`SearchCorrect` is about a recursive function. What recursion over numbers
computes is proved without induction theorems: `Best(n, v, r)` says that `r` is
the answer of the longest location below node `n` that may serve `v`. A function
that gives the best everywhere solves the recursion of `search`
(`SolutionExists`), and any solution gives the best everywhere, because there is
no position nearest to the end of the request where it does not (`SolutionBest`,
by `WellOrder`). The one step from a child to its parent, with its cases for
exact and prefix locations and for a request that ends at the child, is
`AnswerBest`.

`PanicPredicted` speaks of locations alone, the panic is one of the tree, so
`PInv` relates the two, with `HasNode(locs, w)` for "the locations ask for a node
`w`: one ends there or two part there":

- `Held` and `Rooted`: every registered location has its node, and every node is
  on the way to one;
- `Justified`: every node is one the registered locations ask for, except the
  stem of a split in an insertion under way, which one of them and the location
  being inserted (`Beside`) will have asked for once that is registered;
- `Uncut` and `Halted`: no location inserted so far cut a character, and the one
  at which the construction panicked did.

`AskedIsHeld` is the converse of `Justified`: a tree that holds the locations has
every node they ask for. Both are needed. At a panic (`HaltPanic`) a node at the
cut would be above the child that `insert` compares, hence at or above the node
it runs on, which ends earlier. At the end of an insertion (`NotCut`) a cut
would have left a node where the two paths part, and a node is there only if
earlier locations asked for it.

### Connection

`IndInv` says, for each place the task can be in, what has been written
(`HeadsWritten`: no head before the file is open, one while it is copied, what
an error page adds), what the questions to the file system have been answered
(`Looked`: a 404, a 403 or a listing rests on an answer that was so when it was
given), and
how far the copy is (`Copied`: no offset in the body is beyond `pos`, and without
a short write its length is `pos`). The client's and the other
processes' steps only add to `blame`, `seen` and `lacked` (`QuietStep`).
`ImplementsExchange` is proved action by action from it.

### Error registry

`IndInv` ties the cache to its history: what a future holds is of its own
status (`Loaded`), callers come after the loading (`Ordered`), and as long as
the statuses used have room in the cache each of them has a page
(`NothingEvicted`), the default one only if the entry fell back (`Kept`). That an
eviction needs more used statuses than the capacity is a count of finite sets. The refinement hides loading and the single
flight: a caller that waits, computes or hits is one call of `ErrorPages`.

### Path safety

`Together` has both loops at one place with `depth = Len(clean_path)`, which is
why they refuse the same component. `Found` has the result as the root's
components followed by names. `FlattenSeq` (decoding) and the filter of
components are recursive in the library; that they return sequences of what they
are given, and what one more component adds, is proved like `search`. From it
follows that the comparison with `base_dir` at the end of `sanitize_path` never
refuses anything.

`SanitizeIsNormalForm` speaks of the path as a whole, the loop of one component
at a time. `Stacked` is what joins them: with `Height(s, j)` the names less the
`..` among the first `j` steps, the `v`-th name on the stack was pushed by a step
that led to height `v`, and no later step has gone below it. `NameStacked` and
`UpStacked` are the two rounds of the loop; `KeptArePushed` says that exactly the
names no later part undoes have such a step, `KeptCounted` counts them.

### Server

A step either belongs to a start, or to the files around it, and leaves the
connections alone, or the other way round; so the invariant has two halves.
`StartInv` says what each place of `main` has established (`Established`: past
`validate`, past the panic of the router, with a pair that rustls has compared)
and that a start that nothing disturbed still has the files it read
(`Undisturbed`). `ConnInv` says that a connection that waits is in the queue
once, which with the number of descriptors gives the types.

### Only model-checked

- Liveness: `EveryRequestAnswered`, `Ends`, `AlwaysOpens`, `EveryCallReturns`,
  `ServesAtLast`, `EveryoneServed`. TLAPS has no rules for fairness here, and
  none for ENABLED.
- The violation runs: their counterexamples are the result.

## 5. Not modelled, or in part

- `file_read_buffer_size 0` (every body empty): the instances give `ReadSize` a
  positive value, and `WholeUnlessDisturbed` would fail with 0.
  `connection_buffer_size 0` is the case `got = BufferSize` of `ReadNothing`.
- The promise of keep-alive in the head: that a second request is not answered
  is part of `Exchange`; that the client was told otherwise is not a property.
- Wording of heads and pages, the MIME table, logging, tracing: data no property
  tells apart. The heading of an index page is any value of a set; that
  `router.rs:86` joins `/location` and `sub` to `/locationsub` is listed as a
  hazard without a property. HTTP parsing is httparse; only "needs more,
  malformed, complete" matters here.
- Derived KDL decoding: a configuration does or does not parse. The paths of
  error pages are not checked by `validate`, so nothing is said of them.
- `DamasError::to_response` and `from_code`: used by tests only.
- A `Prefix` component, which exists on Windows only.
- A panic of a task, which `panic = "abort"` (`Cargo.toml:47`) makes the end of the
  process. What a task runs of this repository has no `unwrap`, `expect` or index
  that can fail, except the slice in `search`, which follows a `starts_with`, and
  the templates built once in `server.rs`; a panic inside a library is not
  modelled. So no property says that a server that serves goes on for ever: in
  the model nothing but the loop itself could end it. A panic during the start
  is modelled.
- A crash of the running process: nothing is persisted; what a restart does is
  `Restart` in `Server`, from a failed start.

## 6. Plan

Every component is modelled, some in part (section 5), and every safety, action
and refinement property of a passing run is proved. What stays with TLC is
liveness (section 4).
