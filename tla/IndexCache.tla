------------------------------ MODULE IndexCache ------------------------------
(***************************************************************************)
(* The cache of generated directory pages: IndexCache::render_index of     *)
(* src/src/index.rs and index_page_response of src/src/response.rs, run by *)
(* any number of connection tasks at once while other processes change the *)
(* directories.                                                            *)
(*                                                                         *)
(* render_index reads the directory's mtime, looks the directory up in the *)
(* cache and serves the cached page when its last_mtime is that mtime.     *)
(* Otherwise it lists the directory on a blocking thread, renders, stores  *)
(* the page under the mtime read BEFORE the listing, and serves it.  Each  *)
(* place where the task can be suspended, or where another process can     *)
(* change the directory, is a boundary between two actions here: entries   *)
(* are read one at a time while the directory changes.                     *)
(*                                                                         *)
(* Abstractions.  A page is the set of the names it lists (they are        *)
(* sorted, so the set determines the page) and the path in its heading.    *)
(* Names in Hidden stand for those that start with "." or are not UTF-8.   *)
(* A cache entry is a record; the cache is a set with at most one entry    *)
(* for each directory.                                                     *)
(***************************************************************************)
EXTENDS Naturals, FiniteSets

CONSTANTS
  Requests,   \* connection tasks that can be inside render_index
  Dirs,       \* directories served with autoindex
  Names,      \* entries a directory can hold
  Hidden,     \* the entries a page never lists
  Views,      \* heading paths: location path followed by the rest of the URL
  Capacity,   \* max_capacity of the moka cache
  Ticks,      \* by how much mtimes can advance between two directory changes
  MaxClock    \* bound on the file system clock

ASSUME HiddenAssumption == Hidden \subseteq Names
ASSUME NumbersAssumption ==
  /\ Capacity \in Nat
  /\ Ticks \subseteq Nat
  /\ MaxClock \in Nat

VARIABLES
  present,    \* directories that exist
  names,      \* names[d]: the entries of directory d
  mtime,      \* mtime[d]: modification time of d
  clock,      \* last modification time the file system gave out
  cache,      \* IndexCache.inner
  pc,         \* pc[r]: where task r is in render_index
  target,     \* dir_path
  view,       \* should_visible_path
  current,    \* current_mtime
  todo,       \* entries the scan has not come to yet
  files,      \* the names listed so far; the names on the page once served
  heading,    \* the path in the heading of the page served
  always,     \* history: names listable at every moment since the request
  ever        \* history: names listable at some moment since the request

fsVars == <<present, names, mtime, clock>>
reqVars == <<pc, target, view, current, todo, files, heading>>
vars == <<fsVars, cache, reqVars, always, ever>>

Entry == [dir : Dirs, last_mtime : Nat, files : SUBSET (Names \ Hidden),
          heading : Views]

\* The names a page of directory d lists if it is taken now.
Listing(d) == names[d] \ Hidden

InFlight == {"stat", "lookup", "open", "scan"}
Answered == {"served", "failed"}

TypeOK ==
  /\ present \subseteq Dirs
  /\ names \in [Dirs -> SUBSET Names]
  /\ mtime \in [Dirs -> Nat]
  /\ clock \in Nat
  /\ cache \subseteq Entry
  /\ pc \in [Requests -> {"idle"} \cup InFlight \cup Answered]
  /\ target \in [Requests -> Dirs]
  /\ view \in [Requests -> Views]
  /\ current \in [Requests -> Nat]
  /\ todo \in [Requests -> SUBSET Names]
  /\ files \in [Requests -> SUBSET (Names \ Hidden)]
  /\ heading \in [Requests -> Views]
  /\ always \in [Requests -> SUBSET (Names \ Hidden)]
  /\ ever \in [Requests -> SUBSET (Names \ Hidden)]

Init ==
  /\ present = Dirs
  /\ names \in [Dirs -> SUBSET Names]
  /\ mtime = [d \in Dirs |-> 0]
  /\ clock = 0
  /\ cache = {}
  /\ pc = [r \in Requests |-> "idle"]
  /\ \E d \in Dirs : target = [r \in Requests |-> d]
  /\ \E v \in Views : /\ view = [r \in Requests |-> v]
                      /\ heading = [r \in Requests |-> v]
  /\ current = [r \in Requests |-> 0]
  /\ todo = [r \in Requests |-> {}]
  /\ files = [r \in Requests |-> {}]
  /\ always = [r \in Requests |-> {}]
  /\ ever = [r \in Requests |-> {}]

-------------------------------------------------------------------------------
(* Other processes: directories change at any moment. *)

\* The windows of the requests in flight on d after d's listing became S.
Observe(d, S) ==
  /\ always' = [r \in Requests |-> IF pc[r] \in InFlight /\ target[r] = d
                                   THEN always[r] \cap S ELSE always[r]]
  /\ ever' = [r \in Requests |-> IF pc[r] \in InFlight /\ target[r] = d
                                 THEN ever[r] \cup S ELSE ever[r]]

\* A change of d is stamped with a time that may equal the last one given
\* out when the clock is coarse (0 \in Ticks).
Stamp(d) ==
  \E t \in Ticks : /\ clock + t <= MaxClock
                   /\ clock' = clock + t
                   /\ mtime' = [mtime EXCEPT ![d] = clock']

\* A file is created in d or removed from it.
Toggle(d, n) ==
  LET new == IF n \in names[d] THEN names[d] \ {n} ELSE names[d] \cup {n}
  IN  /\ d \in present
      /\ Stamp(d)
      /\ names' = [names EXCEPT ![d] = new]
      /\ Observe(d, new \ Hidden)
      /\ UNCHANGED <<present, cache, reqVars>>

\* An empty directory is removed (not at the bound, so that it can always be
\* created again).  A scan that has it open meets no more entries.
RemoveDir(d) ==
  /\ d \in present
  /\ names[d] = {}
  /\ clock < MaxClock
  /\ present' = present \ {d}
  /\ todo' = [r \in Requests |-> IF target[r] = d THEN {} ELSE todo[r]]
  /\ UNCHANGED <<names, mtime, clock, cache, pc, target, view, current, files,
                 heading, always, ever>>

\* It is created again, with a new mtime.
CreateDir(d) ==
  /\ d \notin present
  /\ Stamp(d)
  /\ present' = present \cup {d}
  /\ UNCHANGED <<names, cache, reqVars, always, ever>>

-------------------------------------------------------------------------------
(* A connection task in render_index. *)

\* handle_request saw a directory without index file and calls
\* index_page_response.
Ask(r, d, v) ==
  /\ pc[r] = "idle"
  /\ d \in present
  /\ pc' = [pc EXCEPT ![r] = "stat"]
  /\ target' = [target EXCEPT ![r] = d]
  /\ view' = [view EXCEPT ![r] = v]
  /\ always' = [always EXCEPT ![r] = Listing(d)]
  /\ ever' = [ever EXCEPT ![r] = Listing(d)]
  /\ UNCHANGED <<fsVars, cache, current, todo, files, heading>>

\* fs::metadata(dir_path)?.modified()?
Metadata(r) ==
  /\ pc[r] = "stat"
  /\ target[r] \in present
  /\ pc' = [pc EXCEPT ![r] = "lookup"]
  /\ current' = [current EXCEPT ![r] = mtime[target[r]]]
  /\ UNCHANGED <<fsVars, cache, target, view, todo, files, heading, always, ever>>

\* Faulty variants: the cache keyed without the directory, or trusted without
\* comparing mtimes.
MatchAnyDir(r, e) == e.last_mtime = current[r]
MatchAnyTime(r, e) == e.dir = target[r]

\* The page of entry e is for this directory and carries the mtime just read.
Match(r, e) == e.dir = target[r] /\ e.last_mtime = current[r]

CacheHit(r) ==
  /\ pc[r] = "lookup"
  /\ \E e \in cache : /\ Match(r, e)
                      /\ files' = [files EXCEPT ![r] = e.files]
                      /\ heading' = [heading EXCEPT ![r] = e.heading]
  /\ pc' = [pc EXCEPT ![r] = "served"]
  /\ UNCHANGED <<fsVars, cache, target, view, current, todo, always, ever>>

CacheMiss(r) ==
  /\ pc[r] = "lookup"
  /\ ~ \E e \in cache : Match(r, e)
  /\ pc' = [pc EXCEPT ![r] = "open"]
  /\ UNCHANGED <<fsVars, cache, target, view, current, todo, files, heading,
                 always, ever>>

\* On the blocking thread: fs::read_dir(owned_dir_path)?
OpenDir(r) ==
  /\ pc[r] = "open"
  /\ target[r] \in present
  /\ pc' = [pc EXCEPT ![r] = "scan"]
  /\ todo' = [todo EXCEPT ![r] = Names]
  /\ files' = [files EXCEPT ![r] = {}]
  /\ UNCHANGED <<fsVars, cache, target, view, current, heading, always, ever>>

\* Faulty variant: hidden names are listed.
ReadEntryUnfiltered(r, n) ==
  /\ pc[r] = "scan"
  /\ n \in todo[r]
  /\ todo' = [todo EXCEPT ![r] = @ \ {n}]
  /\ files' = [files EXCEPT ![r] = IF n \in names[target[r]] THEN @ \cup {n} ELSE @]
  /\ UNCHANGED <<fsVars, cache, pc, target, view, current, heading, always, ever>>

\* The scan comes to the slot of name n, in whatever order the file system
\* keeps them, and lists n if it is there now and is not hidden.
ReadEntry(r, n) ==
  /\ pc[r] = "scan"
  /\ n \in todo[r]
  /\ todo' = [todo EXCEPT ![r] = @ \ {n}]
  /\ files' = [files EXCEPT ![r] = IF n \in Listing(target[r]) THEN @ \cup {n} ELSE @]
  /\ UNCHANGED <<fsVars, cache, pc, target, view, current, heading, always, ever>>

\* Faulty variant: the page is stored under the mtime the directory has after
\* the scan.
InsertLateMtime(r) ==
  LET page == [dir |-> target[r], last_mtime |-> mtime[target[r]],
               files |-> files[r], heading |-> view[r]]
  IN  /\ pc[r] = "scan"
      /\ todo[r] = {}
      /\ cache' = {e \in cache : e.dir # target[r]} \cup {page}
      /\ heading' = [heading EXCEPT ![r] = view[r]]
      /\ pc' = [pc EXCEPT ![r] = "served"]
      /\ UNCHANGED <<fsVars, target, view, current, todo, files, always, ever>>

\* The task resumes: the page is stored under the mtime read at the start,
\* in place of the entry the directory had, and served.
Insert(r) ==
  LET page == [dir |-> target[r], last_mtime |-> current[r],
               files |-> files[r], heading |-> view[r]]
  IN  /\ pc[r] = "scan"
      /\ todo[r] = {}
      /\ cache' = {e \in cache : e.dir # target[r]} \cup {page}
      /\ heading' = [heading EXCEPT ![r] = view[r]]
      /\ pc' = [pc EXCEPT ![r] = "served"]
      /\ UNCHANGED <<fsVars, target, view, current, todo, files, always, ever>>

\* Faulty variant: a directory that is gone when it is listed is waited for.
FailUnlessGone(r) ==
  /\ \/ pc[r] = "stat" /\ target[r] \notin present
     \/ pc[r] = "scan"
  /\ pc' = [pc EXCEPT ![r] = "failed"]
  /\ UNCHANGED <<fsVars, cache, target, view, current, todo, files, heading,
                 always, ever>>

\* metadata or read_dir on a directory that is gone, an entry that cannot be
\* read, a join error: render_index returns Err, index_page_response sends
\* the fixed failure page, and nothing is stored.
Fail(r) ==
  /\ \/ pc[r] \in {"stat", "open"} /\ target[r] \notin present
     \/ pc[r] = "scan"
  /\ pc' = [pc EXCEPT ![r] = "failed"]
  /\ UNCHANGED <<fsVars, cache, target, view, current, todo, files, heading,
                 always, ever>>

\* The response is built and handed to the connection; the task's locals go.
Respond(r) ==
  /\ pc[r] \in Answered
  /\ pc' = [pc EXCEPT ![r] = "idle"]
  /\ current' = [current EXCEPT ![r] = 0]
  /\ todo' = [todo EXCEPT ![r] = {}]
  /\ files' = [files EXCEPT ![r] = {}]
  /\ always' = [always EXCEPT ![r] = {}]
  /\ ever' = [ever EXCEPT ![r] = {}]
  /\ UNCHANGED <<fsVars, cache, target, view, heading>>

\* moka's housekeeping drops an entry, any entry, when there are too many.
Evict(e) ==
  /\ Cardinality(cache) > Capacity
  /\ cache' = cache \ {e}
  /\ UNCHANGED <<fsVars, reqVars, always, ever>>

-------------------------------------------------------------------------------
Environment ==
  \/ \E d \in Dirs : RemoveDir(d) \/ CreateDir(d) \/ \E n \in Names : Toggle(d, n)
  \/ \E e \in cache : Evict(e)

\* The steps render_index takes on its own once it has been called.
Progress(r) ==
  \/ Metadata(r) \/ CacheHit(r) \/ CacheMiss(r) \/ OpenDir(r)
  \/ \E n \in Names : ReadEntry(r, n)
  \/ Insert(r) \/ Fail(r)

Next ==
  \/ Environment
  \/ \E r \in Requests : \/ \E d \in Dirs, v \in Views : Ask(r, d, v)
                         \/ Progress(r)
                         \/ Respond(r)

\* The runtime polls every task that can run, and the blocking pool runs
\* every closure given to it.
Fairness == \A r \in Requests : WF_vars(Progress(r)) /\ WF_vars(Respond(r))

Spec == Init /\ [][Next]_vars
FairSpec == Spec /\ Fairness

-------------------------------------------------------------------------------
(* Properties *)

\* A cached page whose last_mtime is still the directory's mtime lists
\* exactly what the directory holds, so serving it (index.rs:43-50) can
\* never show an outdated listing.  Needs mtimes that differ (0 \notin Ticks).
CacheFresh ==
  \A e \in cache :
    e.dir \in present /\ e.last_mtime = mtime[e.dir] => e.files = Listing(e.dir)

\* Every page served, cached or not, lists all names the directory held
\* throughout the request and none that it held at no moment of it, however
\* scans, insertions, evictions and changes of the directory interleave.
PageInWindow ==
  \A r \in Requests :
    pc[r] = "served" => always[r] \subseteq files[r] /\ files[r] \subseteq ever[r]

\* The page served to a request carries the path of that request, as
\* test_handle_request_directory_listing expects (test/main_test.rs:397-400).
OwnHeading == \A r \in Requests : pc[r] = "served" => heading[r] = view[r]

\* Every call of render_index ends with an answer, however often the
\* directory changes while it is being listed.
EveryRequestAnswered == \A r \in Requests : pc[r] = "stat" ~> pc[r] \in Answered

\* The directory-listing promise, with the cache, its mtimes and the steps
\* of a scan hidden: what render_index implements.
Promise == INSTANCE DirectoryListing WITH
  Names <- Names \ Hidden,
  listing <- [d \in Dirs |-> Listing(d)],
  phase <- [r \in Requests |-> IF pc[r] \in InFlight THEN "asked" ELSE pc[r]],
  answer <- [r \in Requests |-> IF pc[r] = "served" THEN files[r] ELSE {}]

\* render_index implements DirectoryListing.
ImplementsDirectoryListing == Promise!Spec
===============================================================================
