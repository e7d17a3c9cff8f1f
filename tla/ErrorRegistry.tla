---------------------------- MODULE ErrorRegistry ----------------------------
(***************************************************************************)
(* The custom error pages: ErrorRegistry of                                *)
(* src/src/error/error_registry.rs.                                        *)
(*                                                                         *)
(* init_with_config starts one future for each configured page; each opens *)
(* its file and reads it, and falls back to the default page when either   *)
(* fails.  The futures complete in any order, and each result is inserted  *)
(* into a moka cache under its status as it comes.  When all are in, the   *)
(* server opens, and error_response calls resolve: the cached page, or the *)
(* default page, which is then cached.  moka lets one caller at a time     *)
(* compute the value of a missing key; others that want it wait.  The      *)
(* cache is bounded and may drop any page, a configured one too.           *)
(*                                                                         *)
(* Abstractions.  A page is the version of the file it was read from, or   *)
(* the default of its status; the text of either is left out.              *)
(***************************************************************************)
EXTENDS Naturals, FiniteSets

CONSTANTS
  Statuses,    \* statuses an error can have, or a page can be configured for
  Files,       \* files named in the configuration
  Entries,     \* ErrorCodeEntry: [status, file]
  Callers,     \* connection tasks that can be inside resolve
  Capacity,    \* max_capacity of the moka cache
  MaxVersion   \* bound on the versions other processes write of a file

ASSUME EntriesAssumption == Entries \subseteq [status : Statuses, file : Files]
ASSUME NumbersAssumption == Capacity \in Nat /\ MaxVersion \in Nat \ {0}

VARIABLES
  content,   \* content[f]: version of file f, 0 when there is none
  version,   \* version[f]: last version of f that was written
  load,      \* load[e]: where the future of entry e is
  opened,    \* opened[e]: version of the file it has open
  body,      \* body[e]: the page it resulted in
  open,      \* whether init_with_config has returned
  cache,     \* ErrorRegistry.inner: [status, page], one for each status
  pc,        \* pc[c]: where caller c is in resolve
  status,    \* status[c]: its argument
  answer,    \* answer[c]: what it got
  fellBack,  \* history: statuses of the entries that fell back to the default
  used       \* history: statuses a page was ever inserted for

fileVars == <<content, version>>
loadVars == <<load, opened, body, fellBack>>
callVars == <<pc, status, answer>>
vars == <<fileVars, loadVars, open, cache, callVars, used>>

Default(s) == <<"default", s>>
Custom(f, v) == <<"file", f, v>>

\* The pages status s may have: its default, or a version of a file that is
\* configured for it.
Candidates(s) ==
  {Default(s)} \cup {Custom(e.file, v) : e \in {x \in Entries : x.status = s},
                                         v \in 1..MaxVersion}
Pages == UNION {Candidates(s) : s \in Statuses}

Cached(s) == \E p \in cache : p.status = s
PageOf(s) == IF Cached(s) THEN (CHOOSE p \in cache : p.status = s).page ELSE Default(s)

TypeOK ==
  /\ content \in [Files -> 0..MaxVersion] /\ version \in [Files -> 0..MaxVersion]
  /\ load \in [Entries -> {"pushed", "opened", "ready", "inserted"}]
  /\ opened \in [Entries -> 0..MaxVersion] /\ body \in [Entries -> Pages]
  /\ open \in BOOLEAN
  /\ \A p \in cache : p.status \in Statuses /\ p.page \in Candidates(p.status)
  /\ \A p, q \in cache : p.status = q.status => p = q
  /\ pc \in [Callers -> {"idle", "lookup", "init", "wait", "answered"}]
  /\ status \in [Callers -> Statuses] /\ answer \in [Callers -> Pages]
  /\ fellBack \subseteq Statuses /\ used \subseteq Statuses

Init ==
  /\ content \in [Files -> 0..1]
  /\ version = content
  /\ load = [e \in Entries |-> "pushed"]
  /\ opened = [e \in Entries |-> 0]
  /\ body = [e \in Entries |-> Default(e.status)]
  /\ open = FALSE
  /\ cache = {}
  /\ pc = [c \in Callers |-> "idle"]
  /\ \E s \in Statuses : /\ status = [c \in Callers |-> s]
                         /\ answer = [c \in Callers |-> Default(s)]
  /\ fellBack = {} /\ used = {}

\* inner.insert(s, p), in place of the page s had.
Store(s, p) ==
  /\ cache' = {q \in cache : q.status # s} \cup {[status |-> s, page |-> p]}
  /\ used' = used \cup {s}

-------------------------------------------------------------------------------
(* Other processes write and remove the files, which nobody looks at once   *)
(* the server is open.                                                      *)

WriteFile(f) ==
  /\ ~ open
  /\ version[f] < MaxVersion
  /\ version' = [version EXCEPT ![f] = @ + 1]
  /\ content' = [content EXCEPT ![f] = version'[f]]
  /\ UNCHANGED <<loadVars, open, cache, callVars, used>>

RemoveFile(f) ==
  /\ ~ open
  /\ content[f] # 0
  /\ content' = [content EXCEPT ![f] = 0]
  /\ UNCHANGED <<version, loadVars, open, cache, callVars, used>>

-------------------------------------------------------------------------------
(* init_with_config *)

\* File::open(&path)
OpenFile(e) ==
  /\ load[e] = "pushed"
  /\ content[e.file] # 0
  /\ load' = [load EXCEPT ![e] = "opened"]
  /\ opened' = [opened EXCEPT ![e] = content[e.file]]
  /\ UNCHANGED <<fileVars, body, fellBack, open, cache, callVars, used>>

\* read_to_end_at gives what was opened, or what was written into it since.
ReadFile(e) ==
  /\ load[e] = "opened"
  /\ load' = [load EXCEPT ![e] = "ready"]
  /\ \E v \in {opened[e], content[e.file]} \ {0} :
       body' = [body EXCEPT ![e] = Custom(e.file, v)]
  /\ UNCHANGED <<fileVars, opened, fellBack, open, cache, callVars, used>>

\* Faulty variant: a file that is not there, or cannot be read, is tried again.
Retry(e) ==
  /\ \/ load[e] = "pushed" /\ content[e.file] = 0
     \/ load[e] = "opened"
  /\ load' = [load EXCEPT ![e] = "pushed"]
  /\ opened' = [opened EXCEPT ![e] = 0]
  /\ UNCHANGED <<fileVars, body, fellBack, open, cache, callVars, used>>

\* The file is not there, or cannot be read: unwrap_or_else(default).
FallBack(e) ==
  /\ \/ load[e] = "pushed" /\ content[e.file] = 0
     \/ load[e] = "opened"
  /\ load' = [load EXCEPT ![e] = "ready"]
  /\ body' = [body EXCEPT ![e] = Default(e.status)]
  /\ fellBack' = fellBack \cup {e.status}
  /\ UNCHANGED <<fileVars, opened, open, cache, callVars, used>>

\* The future of e is done with.
Consume(e) ==
  /\ load' = [load EXCEPT ![e] = "inserted"]
  /\ opened' = [opened EXCEPT ![e] = 0]
  /\ body' = [body EXCEPT ![e] = Default(e.status)]

\* Faulty variant: the page is stored under the status of another entry that
\* is ready (results and statuses paired by position).
InsertPageMispaired(e) ==
  /\ load[e] = "ready"
  /\ \E x \in Entries : load[x] = "ready" /\ Store(x.status, body[e])
  /\ Consume(e)
  /\ UNCHANGED <<fileVars, fellBack, open, callVars>>

\* tasks.next() gives (status, contents); it is inserted.
InsertPage(e) ==
  /\ load[e] = "ready"
  /\ Store(e.status, body[e])
  /\ Consume(e)
  /\ UNCHANGED <<fileVars, fellBack, open, callVars>>

\* Faulty variants: the last pages are read, but not waited for to be inserted;
\* only the first to come is (if let for while let).
FirstInserted == Entries # {} => \E e \in Entries : load[e] = "inserted"
AllRead == \A e \in Entries : load[e] \in {"ready", "inserted"}

\* tasks.next() gives None.
AllInserted == \A e \in Entries : load[e] = "inserted"

Open ==
  /\ ~ open
  /\ AllInserted
  /\ open' = TRUE
  /\ UNCHANGED <<fileVars, loadVars, cache, callVars, used>>

-------------------------------------------------------------------------------
(* resolve, which is inner.get_with(status, default) *)

\* error_response calls resolve(s).
Resolve(c, s) ==
  /\ open
  /\ pc[c] = "idle"
  /\ pc' = [pc EXCEPT ![c] = "lookup"]
  /\ status' = [status EXCEPT ![c] = s]
  /\ UNCHANGED <<fileVars, loadVars, open, cache, answer, used>>

Hit(c) ==
  /\ pc[c] = "lookup"
  /\ Cached(status[c])
  /\ pc' = [pc EXCEPT ![c] = "answered"]
  /\ answer' = [answer EXCEPT ![c] = PageOf(status[c])]
  /\ UNCHANGED <<fileVars, loadVars, open, cache, status, used>>

\* Faulty variant: the default page is inserted and looked up again (get and
\* insert for get_with).
MissAndInsert(c) ==
  /\ pc[c] = "lookup"
  /\ ~ Cached(status[c])
  /\ Store(status[c], Default(status[c]))
  /\ UNCHANGED <<fileVars, loadVars, open, callVars>>

\* The first to miss computes the page, the others wait for it.
Miss(c) ==
  /\ pc[c] = "lookup"
  /\ ~ Cached(status[c])
  /\ pc' = [pc EXCEPT ![c] =
              IF \E d \in Callers : pc[d] = "init" /\ status[d] = status[c]
              THEN "wait" ELSE "init"]
  /\ UNCHANGED <<fileVars, loadVars, open, cache, status, answer, used>>

\* Callers that get the page c computes.
Waiting(c) == {c} \cup {d \in Callers : pc[d] = "wait" /\ status[d] = status[c]}

\* render_default_template; the page is cached and given to all who wait.
Render(c) ==
  /\ pc[c] = "init"
  /\ Store(status[c], PageOf(status[c]))
  /\ pc' = [d \in Callers |-> IF d \in Waiting(c) THEN "answered" ELSE pc[d]]
  /\ answer' = [d \in Callers |-> IF d \in Waiting(c) THEN PageOf(status[c])
                                  ELSE answer[d]]
  /\ UNCHANGED <<fileVars, loadVars, open, status>>

\* The response has been built.
Respond(c) ==
  /\ pc[c] = "answered"
  /\ pc' = [pc EXCEPT ![c] = "idle"]
  /\ UNCHANGED <<fileVars, loadVars, open, cache, status, answer, used>>

\* moka's housekeeping drops a page, any page, when there are too many.
Evict(p) ==
  /\ Cardinality(cache) > Capacity
  /\ cache' = cache \ {p}
  /\ UNCHANGED <<fileVars, loadVars, open, callVars, used>>

-------------------------------------------------------------------------------
Environment ==
  \/ \E f \in Files : WriteFile(f) \/ RemoveFile(f)
  \/ \E p \in cache : Evict(p)

Load == (\E e \in Entries : OpenFile(e) \/ ReadFile(e) \/ FallBack(e) \/ InsertPage(e)) \/ Open

\* The steps of resolve once it has been called.
Progress(c) == Hit(c) \/ Miss(c) \/ Render(c)

Next ==
  \/ Environment
  \/ Load
  \/ \E c \in Callers : Progress(c) \/ Respond(c) \/ \E s \in Statuses : Resolve(c, s)

Spec == Init /\ [][Next]_vars

\* The runtime polls every task that can go on, and file operations end.
FairSpec == Spec /\ WF_vars(Load) /\ \A c \in Callers : WF_vars(Progress(c))

-------------------------------------------------------------------------------
(* Properties *)

\* The promise, with loading, the cache and the single flight hidden.
Promise == INSTANCE ErrorPages WITH
  page <- [s \in Statuses |-> IF open THEN PageOf(s) ELSE Default(s)],
  phase <- [c \in Callers |-> IF pc[c] \in {"lookup", "init", "wait"} THEN "asked"
                              ELSE pc[c]]

\* However files are loaded, replaced and evicted and calls of resolve meet,
\* each status has one page from its own candidates once the server is open,
\* can only fall back to the default from then on, and every caller gets the
\* page of its own status (error_registry.rs:31-65).
ImplementsErrorPages == Promise!Spec

\* A configured page that was read is answered with for as long as no more
\* statuses were in use than the cache has room for: only eviction loses it
\* (error_registry.rs:21).
PageLostOnlyByEviction ==
  \A e \in Entries :
    open /\ e.status \notin fellBack /\ Cardinality(used) <= Capacity
      => PageOf(e.status) # Default(e.status)

\* The server always opens, whatever happens to the files, and every call of
\* resolve returns, with the page it waits for computed by another or itself.
AlwaysOpens == <>open
EveryCallReturns == \A c \in Callers : pc[c] = "lookup" ~> pc[c] = "answered"
===============================================================================
