-------------------------- MODULE ErrorRegistryProofs --------------------------
(***************************************************************************)
(* Proofs about ErrorRegistry, for any configured pages, callers, files    *)
(* and capacity of the cache.                                              *)
(*                                                                         *)
(* The invariant ties the cache to its history: a page is only there for a *)
(* status it was once inserted for, and as long as those statuses have     *)
(* room none is missing, so that no page was evicted and none had to be    *)
(* rendered for a status that is configured.                               *)
(***************************************************************************)
EXTENDS ErrorRegistry, FiniteSetTheorems, FunctionTheorems, TLAPS

\* What a future holds belongs to the status it loads the page of; the default
\* page is only there after it fell back.
Loaded ==
  \A e \in Entries :
    /\ body[e] \in Candidates(e.status)
    /\ load[e] = "ready" /\ e.status \notin fellBack => body[e] # Default(e.status)
    /\ load[e] = "inserted" => e.status \in used

\* Nobody is in resolve before the pages are loaded.
Ordered ==
  /\ open => AllInserted
  /\ \A c \in Callers : pc[c] # "idle" => open

\* Unless too many statuses were used, each one used has a page,
NothingEvicted ==
  /\ IsFiniteSet(used)
  /\ \A p \in cache : p.status \in used
  /\ Cardinality(used) <= Capacity => \A s \in used : Cached(s)

\* which is the default page only if the configured one could not be read.
Kept ==
  Cardinality(used) <= Capacity =>
    \A e \in Entries, p \in cache :
      p.status = e.status /\ e.status \notin fellBack => p.page # Default(e.status)

\* The inductive invariant.
IndInv == TypeOK /\ Loaded /\ Ordered /\ NothingEvicted /\ Kept

-------------------------------------------------------------------------------
(* Pages and the cache. *)

\* The fields of an entry.
LEMMA EntryTypes == \A e \in Entries : e.status \in Statuses /\ e.file \in Files
BY EntriesAssumption

\* A candidate page is the text of a file, or the default.
LEMMA CandidateTypes ==
  /\ \A s \in Statuses : Default(s) \in Candidates(s) /\ Candidates(s) \subseteq Pages
  /\ \A e \in Entries, v \in 1..MaxVersion : Custom(e.file, v) \in Candidates(e.status)
<1>1. \A s \in Statuses : Default(s) \in Candidates(s) /\ Candidates(s) \subseteq Pages
  BY DEF Candidates, Pages
<1>2. \A e \in Entries, v \in 1..MaxVersion : Custom(e.file, v) \in Candidates(e.status)
  BY DEF Candidates
<1>3. QED BY <1>1, <1>2

\* A page read from a file is not a default page.
LEMMA CustomIsNotDefault == \A f, v, s : Custom(f, v) # Default(s)
<1> TAKE f, v, s
<1>1. Custom(f, v)[1] = "file" /\ Default(s)[1] = "default"
  BY DEF Custom, Default
<1>2. QED BY <1>1

\* The page of a status is the one page it has in the cache.
LEMMA PageOfCached ==
  ASSUME TypeOK, NEW p \in cache
  PROVE  Cached(p.status) /\ PageOf(p.status) = p.page
<1> DEFINE q == CHOOSE x \in cache : x.status = p.status
<1>1. q \in cache /\ q.status = p.status
  OBVIOUS
<1>2. q = p
  BY <1>1 DEF TypeOK
<1>3. Cached(p.status)
  BY DEF Cached
<1>4. QED BY <1>2, <1>3 DEF PageOf

\* The same of the cache after a step.
LEMMA CachedAfter ==
  ASSUME IndInv', NEW p \in cache'
  PROVE  PageOf(p.status)' = p.page
<1> DEFINE q == CHOOSE x \in cache' : x.status = p.status
<1>1. q \in cache' /\ q.status = p.status
  OBVIOUS
<1>2. q = p
  BY <1>1 DEF IndInv, TypeOK
<1>3. Cached(p.status)'
  BY DEF Cached
<1>4. QED BY <1>2, <1>3 DEF PageOf

\* What the registry shows for a status is a candidate of that status.
LEMMA PageOfCandidate ==
  ASSUME TypeOK, NEW s \in Statuses
  PROVE  PageOf(s) \in Candidates(s) /\ PageOf(s) \in Pages
<1>1. CASE Cached(s)
  <2>1. PICK p \in cache : p.status = s
    BY <1>1 DEF Cached
  <2>2. PageOf(s) = p.page
    BY <2>1, PageOfCached
  <2>3. QED BY <2>1, <2>2, CandidateTypes DEF TypeOK
<1>2. CASE ~ Cached(s)
  BY <1>2, CandidateTypes DEF PageOf
<1>3. QED BY <1>1, <1>2

\* Inserting a page makes it the page of its status and leaves the others.
LEMMA StoreCache ==
  ASSUME TypeOK, NEW s \in Statuses, NEW g \in Candidates(s), Store(s, g)
  PROVE  /\ \A p \in cache' : /\ p.status \in Statuses /\ p.page \in Candidates(p.status)
                              /\ p.status = s => p.page = g
                              /\ p.status # s => p \in cache
         /\ \A p, q \in cache' : p.status = q.status => p = q
         /\ \A t : Cached(t)' <=> t = s \/ Cached(t)
<1> DEFINE r == [status |-> s, page |-> g]
<1>1. cache' = {q \in cache : q.status # s} \cup {r} /\ r.status = s /\ r.page = g
  BY DEF Store
<1> HIDE DEF r
<1>2. \A p \in cache' : (p \in cache /\ p.status # s) \/ p = r
  BY <1>1
<1>3. \A p \in cache' : /\ p.status \in Statuses /\ p.page \in Candidates(p.status)
                        /\ p.status = s => p.page = g
                        /\ p.status # s => p \in cache
  BY <1>1, <1>2 DEF TypeOK
<1>4. \A p, q \in cache' : p.status = q.status => p = q
  BY <1>1, <1>2 DEF TypeOK
<1>5. \A t : Cached(t)' <=> t = s \/ Cached(t)
  BY <1>1 DEF Cached
<1>6. QED BY <1>3, <1>4, <1>5

\* There are no more pages in the cache than statuses pages were inserted for.
LEMMA CacheIsNoLarger ==
  ASSUME TypeOK, NothingEvicted
  PROVE  IsFiniteSet(cache) /\ Cardinality(cache) <= Cardinality(used)
<1> DEFINE f == [p \in cache |-> p.status]
<1>1. f \in [cache -> used]
  BY DEF NothingEvicted
<1>2. \A p, q \in cache : f[p] = f[q] => p = q
  BY DEF TypeOK
<1>3. f \in Injection(cache, used)
  BY <1>1, <1>2 DEF Injection, IsInjective
<1>4. QED BY <1>3, FS_Injection DEF NothingEvicted

\* One more status used.
LEMMA UsedMore ==
  ASSUME IsFiniteSet(used), NEW s, used' = used \cup {s}
  PROVE  /\ IsFiniteSet(used')
         /\ Cardinality(used') <= Capacity => Cardinality(used) <= Capacity
<1>1. /\ IsFiniteSet(used')
      /\ Cardinality(used') = IF s \in used THEN Cardinality(used) ELSE Cardinality(used) + 1
  BY FS_AddElement
<1>2. Cardinality(used) \in Nat
  BY FS_CardinalityType
<1>3. QED BY <1>1, <1>2, NumbersAssumption

-------------------------------------------------------------------------------
(* The steps. *)

\* It holds initially.
LEMMA InitIndInv == Init => IndInv
<1> SUFFICES ASSUME Init PROVE IndInv
  OBVIOUS
<1>1. \A s \in Statuses : Default(s) \in Candidates(s) /\ Default(s) \in Pages
  BY CandidateTypes
<1>2. body \in [Entries -> Pages] /\ \A e \in Entries : body[e] \in Candidates(e.status)
  BY <1>1, EntryTypes DEF Init
<1>3. PICK s \in Statuses : /\ status = [c \in Callers |-> s]
                            /\ answer = [c \in Callers |-> Default(s)]
  BY DEF Init
<1>4. status \in [Callers -> Statuses] /\ answer \in [Callers -> Pages]
  BY <1>1, <1>3
<1>5. content \in [Files -> 0..MaxVersion] /\ version \in [Files -> 0..MaxVersion]
  BY NumbersAssumption DEF Init
<1>6. TypeOK
  <2>1. /\ load \in [Entries -> {"pushed", "opened", "ready", "inserted"}]
        /\ opened \in [Entries -> 0..MaxVersion]
        /\ pc \in [Callers -> {"idle", "lookup", "init", "wait", "answered"}]
    BY NumbersAssumption DEF Init
  <2>2. open \in BOOLEAN /\ cache = {} /\ fellBack = {} /\ used = {}
    BY DEF Init
  <2>3. QED BY <1>2, <1>4, <1>5, <2>1, <2>2 DEF TypeOK
<1>7. Loaded /\ Ordered
  BY <1>2 DEF Init, Loaded, Ordered
<1>8. NothingEvicted /\ Kept
  BY FS_EmptySet DEF Init, NothingEvicted, Kept
<1>9. QED BY <1>6, <1>7, <1>8 DEF IndInv

\* Steps that leave the cache, its history and the calls alone.
LEMMA CacheUnchanged ==
  ASSUME IndInv, UNCHANGED <<open, cache, callVars, used>>, fellBack \subseteq fellBack'
  PROVE  /\ \A p \in cache' : p.status \in Statuses /\ p.page \in Candidates(p.status)
         /\ \A p, q \in cache' : p.status = q.status => p = q
         /\ NothingEvicted' /\ Kept'
<1>1. /\ \A p \in cache' : p.status \in Statuses /\ p.page \in Candidates(p.status)
      /\ \A p, q \in cache' : p.status = q.status => p = q
  BY DEF IndInv, TypeOK
<1>2. NothingEvicted'
  BY DEF IndInv, NothingEvicted, Cached
<1>3. Kept'
  BY DEF IndInv, Kept
<1>4. QED BY <1>1, <1>2, <1>3

\* A file that is written or removed keeps the invariant.
LEMMA FilesInv ==
  ASSUME IndInv, NEW f \in Files, WriteFile(f) \/ RemoveFile(f)
  PROVE  IndInv'
<1> USE DEF loadVars, callVars
<1>1. UNCHANGED <<loadVars, open, cache, callVars, used>>
  BY DEF WriteFile, RemoveFile
<1>2. content' \in [Files -> 0..MaxVersion] /\ version' \in [Files -> 0..MaxVersion]
  <2>1. content \in [Files -> 0..MaxVersion] /\ version \in [Files -> 0..MaxVersion]
    BY DEF IndInv, TypeOK
  <2>2. CASE WriteFile(f)
    <3>1. version[f] + 1 \in 0..MaxVersion
      BY <2>1, <2>2, NumbersAssumption DEF WriteFile
    <3>2. version' \in [Files -> 0..MaxVersion]
      BY <2>1, <2>2, <3>1 DEF WriteFile
    <3>3. QED BY <2>1, <2>2, <3>2 DEF WriteFile
  <2>3. CASE RemoveFile(f)
    BY <2>1, <2>3, NumbersAssumption DEF RemoveFile
  <2>4. QED BY <2>2, <2>3
<1>3. TypeOK'
  BY <1>1, <1>2 DEF IndInv, TypeOK
<1>4. Loaded' /\ Ordered'
  BY <1>1 DEF IndInv, Loaded, Ordered, AllInserted
<1>5. NothingEvicted' /\ Kept'
  BY <1>1, CacheUnchanged
<1>6. QED BY <1>3, <1>4, <1>5 DEF IndInv

\* A future opens its file, and reads it.
LEMMA ReadInv ==
  ASSUME IndInv, NEW e \in Entries, OpenFile(e) \/ ReadFile(e)
  PROVE  IndInv'
<1> USE DEF loadVars, callVars, fileVars
<1>1. /\ UNCHANGED <<fileVars, fellBack, open, cache, callVars, used>>
      /\ load[e] \in {"pushed", "opened"}
  BY DEF OpenFile, ReadFile
<1>2. PICK l \in {"opened", "ready"} : load' = [load EXCEPT ![e] = l]
  BY DEF OpenFile, ReadFile
<1>3. content \in [Files -> 0..MaxVersion] /\ e.file \in Files /\ e.status \in Statuses
      /\ opened \in [Entries -> 0..MaxVersion] /\ body \in [Entries -> Pages]
      /\ load \in [Entries -> {"pushed", "opened", "ready", "inserted"}]
  BY EntryTypes DEF IndInv, TypeOK
<1>4. opened' \in [Entries -> 0..MaxVersion]
  BY <1>3 DEF OpenFile, ReadFile
<1>5. \/ UNCHANGED body /\ load'[e] # "ready"
      \/ \E v \in 1..MaxVersion : body' = [body EXCEPT ![e] = Custom(e.file, v)]
  <2>1. CASE OpenFile(e)
    BY <2>1, <1>3 DEF OpenFile
  <2>2. CASE ReadFile(e)
    <3>1. PICK v \in {opened[e], content[e.file]} \ {0} : body' = [body EXCEPT ![e] = Custom(e.file, v)]
      BY <2>2 DEF ReadFile
    <3>2. v \in 1..MaxVersion
      BY <1>3, <3>1, NumbersAssumption
    <3>3. QED BY <3>1, <3>2
  <2>3. QED BY <2>1, <2>2
<1>6. /\ body' \in [Entries -> Pages]
      /\ \A x \in Entries : body'[x] \in Candidates(x.status)
      /\ \A x \in Entries \ {e} : body'[x] = body[x] /\ load'[x] = load[x]
      /\ load'[e] = "ready" => body'[e] # Default(e.status)
      /\ load'[e] \in {"opened", "ready"}
  <2>1. /\ \A x \in Entries \ {e} : body'[x] = body[x] /\ load'[x] = load[x]
        /\ load'[e] \in {"opened", "ready"}
    BY <1>2, <1>3, <1>5
  <2>2. CASE UNCHANGED body /\ load'[e] # "ready"
    BY <2>1, <2>2, <1>3 DEF IndInv, Loaded
  <2>3. CASE \E v \in 1..MaxVersion : body' = [body EXCEPT ![e] = Custom(e.file, v)]
    <3>1. PICK v \in 1..MaxVersion : body' = [body EXCEPT ![e] = Custom(e.file, v)]
      BY <2>3
    <3>2. Custom(e.file, v) \in Candidates(e.status) /\ Custom(e.file, v) \in Pages
      BY <1>3, CandidateTypes
    <3>3. body' \in [Entries -> Pages] /\ body'[e] = Custom(e.file, v)
      BY <1>3, <3>1, <3>2
    <3>4. \A x \in Entries : body'[x] \in Candidates(x.status)
      BY <2>1, <3>2, <3>3 DEF IndInv, Loaded
    <3>5. QED BY <2>1, <3>3, <3>4, CustomIsNotDefault
  <2>4. QED BY <1>5, <2>2, <2>3
<1>7. TypeOK'
  <2>1. load' \in [Entries -> {"pushed", "opened", "ready", "inserted"}]
    BY <1>2, <1>3
  <2>2. QED BY <1>1, <1>4, <1>6, <2>1 DEF IndInv, TypeOK
<1>8. Loaded'
  BY <1>1, <1>6 DEF IndInv, Loaded
<1>9. Ordered'
  BY <1>1 DEF IndInv, Ordered, AllInserted
<1>10. NothingEvicted' /\ Kept'
  BY <1>1, CacheUnchanged
<1>11. QED BY <1>7, <1>8, <1>9, <1>10 DEF IndInv

\* FallBack keeps the invariant.
LEMMA FallBackInv ==
  ASSUME IndInv, NEW e \in Entries, FallBack(e)
  PROVE  IndInv'
<1> USE DEF loadVars, callVars, fileVars
<1>1. /\ UNCHANGED <<fileVars, opened, open, cache, callVars, used>>
      /\ load[e] \in {"pushed", "opened"} /\ load' = [load EXCEPT ![e] = "ready"]
      /\ body' = [body EXCEPT ![e] = Default(e.status)]
      /\ fellBack' = fellBack \cup {e.status}
  BY DEF FallBack
<1>2. e.status \in Statuses /\ Default(e.status) \in Pages /\ Default(e.status) \in Candidates(e.status)
  BY EntryTypes, CandidateTypes
<1>3. /\ body' \in [Entries -> Pages]
      /\ load' \in [Entries -> {"pushed", "opened", "ready", "inserted"}]
      /\ body'[e] = Default(e.status)
      /\ \A x \in Entries \ {e} : body'[x] = body[x] /\ load'[x] = load[x]
      /\ load'[e] = "ready"
  BY <1>1, <1>2 DEF IndInv, TypeOK
<1>4. TypeOK'
  BY <1>1, <1>2, <1>3 DEF IndInv, TypeOK
<1>5. Loaded'
  BY <1>1, <1>2, <1>3 DEF IndInv, Loaded
<1>6. Ordered'
  BY <1>1 DEF IndInv, Ordered, AllInserted
<1>7. NothingEvicted' /\ Kept'
  BY <1>1, CacheUnchanged
<1>8. QED BY <1>4, <1>5, <1>6, <1>7 DEF IndInv

\* A page is inserted, loaded or rendered.  A page that is the default one must
\* be that of a status with no other, unless there is too little room.
LEMMA StoreInv ==
  ASSUME IndInv, NEW s \in Statuses, NEW g \in Candidates(s), Store(s, g),
         fellBack' = fellBack,
         \A e \in Entries : e.status = s /\ s \notin fellBack /\ Cardinality(used') <= Capacity
           => g # Default(s)
  PROVE  /\ \A p \in cache' : p.status \in Statuses /\ p.page \in Candidates(p.status)
         /\ \A p, q \in cache' : p.status = q.status => p = q
         /\ used' = used \cup {s}
         /\ NothingEvicted' /\ Kept'
<1>1. used' = used \cup {s}
  BY DEF Store
<1>2. /\ \A p \in cache' : /\ p.status \in Statuses /\ p.page \in Candidates(p.status)
                           /\ p.status = s => p.page = g
                           /\ p.status # s => p \in cache
      /\ \A p, q \in cache' : p.status = q.status => p = q
      /\ \A t : Cached(t)' <=> t = s \/ Cached(t)
  BY StoreCache DEF IndInv
<1>3. IsFiniteSet(used') /\ (Cardinality(used') <= Capacity => Cardinality(used) <= Capacity)
  BY <1>1, UsedMore DEF IndInv, NothingEvicted
<1>4. NothingEvicted'
  BY <1>1, <1>2, <1>3 DEF IndInv, NothingEvicted
<1>5. Kept'
  <2> SUFFICES ASSUME Cardinality(used') <= Capacity, NEW e \in Entries, NEW p \in cache',
                      p.status = e.status, e.status \notin fellBack
               PROVE  p.page # Default(e.status)
    BY DEF Kept
  <2>1. CASE p.status = s
    BY <2>1, <1>2
  <2>2. CASE p.status # s
    BY <2>2, <1>2, <1>3 DEF IndInv, Kept
  <2>3. QED BY <2>1, <2>2
<1>6. QED BY <1>1, <1>2, <1>4, <1>5

\* InsertPage keeps the invariant.
LEMMA InsertPageInv ==
  ASSUME IndInv, NEW e \in Entries, InsertPage(e)
  PROVE  IndInv'
<1> USE DEF loadVars, callVars, fileVars
<1>1. /\ UNCHANGED <<fileVars, fellBack, open, callVars>>
      /\ load[e] = "ready" /\ Store(e.status, body[e])
      /\ load' = [load EXCEPT ![e] = "inserted"] /\ opened' = [opened EXCEPT ![e] = 0]
      /\ body' = [body EXCEPT ![e] = Default(e.status)]
  BY DEF InsertPage, Consume
<1>2. /\ e.status \in Statuses /\ Default(e.status) \in Pages
      /\ Default(e.status) \in Candidates(e.status) /\ body[e] \in Candidates(e.status)
      /\ e.status \notin fellBack => body[e] # Default(e.status)
  BY <1>1, EntryTypes, CandidateTypes DEF IndInv, Loaded
<1>3. /\ \A p \in cache' : p.status \in Statuses /\ p.page \in Candidates(p.status)
      /\ \A p, q \in cache' : p.status = q.status => p = q
      /\ used' = used \cup {e.status}
      /\ NothingEvicted' /\ Kept'
  BY <1>1, <1>2, StoreInv
<1>4. /\ body' \in [Entries -> Pages] /\ opened' \in [Entries -> 0..MaxVersion]
      /\ load' \in [Entries -> {"pushed", "opened", "ready", "inserted"}]
      /\ body'[e] = Default(e.status) /\ load'[e] = "inserted"
      /\ \A x \in Entries \ {e} : body'[x] = body[x] /\ load'[x] = load[x]
  BY <1>1, <1>2, NumbersAssumption DEF IndInv, TypeOK
<1>5. TypeOK'
  BY <1>1, <1>2, <1>3, <1>4 DEF IndInv, TypeOK
<1>6. Loaded'
  BY <1>1, <1>2, <1>3, <1>4 DEF IndInv, Loaded
<1>7. Ordered'
  BY <1>1, <1>4 DEF IndInv, Ordered, AllInserted
<1>8. QED BY <1>3, <1>5, <1>6, <1>7 DEF IndInv

\* Open keeps the invariant.
LEMMA OpenInv == ASSUME IndInv, Open PROVE IndInv'
<1>1. open' = TRUE /\ AllInserted /\ UNCHANGED <<fileVars, loadVars, cache, callVars, used>>
  BY DEF Open
<1> USE DEF loadVars, callVars, fileVars
<1>2. TypeOK' /\ Loaded' /\ Ordered'
  BY <1>1 DEF IndInv, TypeOK, Loaded, Ordered, AllInserted
<1>3. NothingEvicted' /\ Kept'
  BY <1>1 DEF IndInv, NothingEvicted, Cached, Kept
<1>4. QED BY <1>2, <1>3 DEF IndInv

\* A caller goes on without a page being inserted.
LEMMA CallInv ==
  ASSUME IndInv, NEW c \in Callers,
         Hit(c) \/ Miss(c) \/ Respond(c) \/ \E s \in Statuses : Resolve(c, s)
  PROVE  IndInv'
<1> USE DEF loadVars, callVars, fileVars
<1>1. UNCHANGED <<fileVars, loadVars, open, cache, used>> /\ open
  BY DEF Hit, Miss, Respond, Resolve, IndInv, Ordered
<1>2. PICK l \in {"idle", "lookup", "init", "wait", "answered"} : pc' = [pc EXCEPT ![c] = l]
  BY DEF Hit, Miss, Respond, Resolve
<1>3. status' \in [Callers -> Statuses] /\ answer' \in [Callers -> Pages]
  BY PageOfCandidate DEF Hit, Miss, Respond, Resolve, IndInv, TypeOK
<1>4. TypeOK'
  BY <1>1, <1>2, <1>3 DEF IndInv, TypeOK
<1>5. Loaded' /\ Ordered'
  BY <1>1 DEF IndInv, Loaded, Ordered, AllInserted
<1>6. NothingEvicted' /\ Kept'
  BY <1>1 DEF IndInv, NothingEvicted, Cached, Kept
<1>7. QED BY <1>4, <1>5, <1>6 DEF IndInv

\* A configured status has its page in the cache, so that none is rendered for
\* it, as long as there is room.
LEMMA RenderInv ==
  ASSUME IndInv, NEW c \in Callers, Render(c)
  PROVE  IndInv'
<1> USE DEF loadVars, callVars, fileVars
<1> DEFINE s == status[c]
           g == PageOf(status[c])
<1>1. /\ UNCHANGED <<fileVars, loadVars, open, status>> /\ open /\ Store(s, g)
      /\ pc' = [d \in Callers |-> IF d \in Waiting(c) THEN "answered" ELSE pc[d]]
      /\ answer' = [d \in Callers |-> IF d \in Waiting(c) THEN g ELSE answer[d]]
  BY DEF Render, IndInv, Ordered
<1>2. s \in Statuses /\ g \in Candidates(s) /\ g \in Pages
  BY PageOfCandidate DEF IndInv, TypeOK
<1>3. ASSUME NEW e \in Entries, e.status = s, s \notin fellBack, Cardinality(used') <= Capacity
      PROVE  g # Default(s)
  <2>1. Cardinality(used) <= Capacity
    BY <1>1, <1>3, UsedMore DEF IndInv, NothingEvicted, Store
  <2>2. s \in used
    BY <1>1, <1>3 DEF IndInv, Ordered, AllInserted, Loaded
  <2>3. PICK p \in cache : p.status = s
    BY <2>1, <2>2 DEF IndInv, NothingEvicted, Cached
  <2>4. g = p.page
    BY <2>3, PageOfCached DEF IndInv
  <2>5. QED BY <2>1, <2>3, <2>4, <1>3 DEF IndInv, Kept
<1> HIDE DEF s, g
<1>4. /\ \A p \in cache' : p.status \in Statuses /\ p.page \in Candidates(p.status)
      /\ \A p, q \in cache' : p.status = q.status => p = q
      /\ used' = used \cup {s}
      /\ NothingEvicted' /\ Kept'
  BY <1>1, <1>2, <1>3, StoreInv
<1>5. pc' \in [Callers -> {"idle", "lookup", "init", "wait", "answered"}]
  BY <1>1 DEF IndInv, TypeOK
<1>6. answer' \in [Callers -> Pages]
  BY <1>1, <1>2 DEF IndInv, TypeOK
<1>7. TypeOK'
  BY <1>1, <1>2, <1>4, <1>5, <1>6 DEF IndInv, TypeOK
<1>8. Loaded' /\ Ordered'
  BY <1>1, <1>4 DEF IndInv, Loaded, Ordered, AllInserted
<1>9. QED BY <1>4, <1>7, <1>8 DEF IndInv

\* A page is evicted only when there are more statuses than there is room for.
LEMMA EvictInv ==
  ASSUME IndInv, NEW p \in cache, Evict(p)
  PROVE  IndInv'
<1> USE DEF loadVars, callVars, fileVars
<1>1. /\ UNCHANGED <<fileVars, loadVars, open, callVars, used>>
      /\ cache' = cache \ {p} /\ Cardinality(cache) > Capacity
  BY DEF Evict
<1>2. ~ (Cardinality(used) <= Capacity)
  <2>1. /\ IsFiniteSet(cache) /\ IsFiniteSet(used)
        /\ Cardinality(cache) <= Cardinality(used)
    BY CacheIsNoLarger DEF IndInv, NothingEvicted
  <2>2. Cardinality(cache) \in Nat /\ Cardinality(used) \in Nat
    BY <2>1, FS_CardinalityType
  <2>3. QED BY <2>1, <2>2, <1>1, NumbersAssumption
<1>3. TypeOK' /\ Loaded' /\ Ordered'
  BY <1>1 DEF IndInv, TypeOK, Loaded, Ordered, AllInserted
<1>4. NothingEvicted' /\ Kept'
  BY <1>1, <1>2 DEF IndInv, NothingEvicted, Kept
<1>5. QED BY <1>3, <1>4 DEF IndInv

\* A stutter keeps the invariant.
LEMMA UnchangedInv == ASSUME IndInv, UNCHANGED vars PROVE IndInv'
<1> USE DEF vars, loadVars, callVars, fileVars
<1>1. TypeOK' /\ Loaded' /\ Ordered'
  BY DEF IndInv, TypeOK, Loaded, Ordered, AllInserted
<1>2. NothingEvicted' /\ Kept'
  BY DEF IndInv, NothingEvicted, Cached, Kept
<1>3. QED BY <1>1, <1>2 DEF IndInv

\* Every step keeps it.
LEMMA NextIndInv == IndInv /\ [Next]_vars => IndInv'
BY FilesInv, ReadInv, FallBackInv, InsertPageInv, OpenInv, CallInv, RenderInv, EvictInv,
   UnchangedInv DEF Next, Environment, Load, Progress

-------------------------------------------------------------------------------
(* The invariants. *)

\* What the cache holds is accounted for by what was inserted, in every state.
THEOREM Invariant == Spec => []IndInv
BY InitIndInv, NextIndInv, PTL DEF Spec

\* The state stays within its types: one page for a status, from the pages the
\* status may have.
THEOREM TypeCorrect == Spec => []TypeOK
<1>1. IndInv => TypeOK
  BY DEF IndInv
<1>2. QED BY <1>1, Invariant, PTL

\* A configured page that could be read is what the status is answered with,
\* unless more statuses were in use than the cache has room for.
THEOREM KeptWhileThereIsRoom == Spec => []PageLostOnlyByEviction
<1>1. IndInv => PageLostOnlyByEviction
  <2> SUFFICES ASSUME IndInv, NEW e \in Entries, open, e.status \notin fellBack,
                      Cardinality(used) <= Capacity
               PROVE  PageOf(e.status) # Default(e.status)
    BY DEF PageLostOnlyByEviction
  <2>1. e.status \in used
    BY DEF IndInv, Ordered, AllInserted, Loaded
  <2>2. PICK p \in cache : p.status = e.status
    BY <2>1 DEF IndInv, NothingEvicted, Cached
  <2>3. PageOf(e.status) = p.page
    BY <2>2, PageOfCached DEF IndInv
  <2>4. QED BY <2>2, <2>3 DEF IndInv, Kept
<1>2. QED BY <1>1, Invariant, PTL

-------------------------------------------------------------------------------
(* ErrorRegistry implements ErrorPages: loading, the cache and who computes  *)
(* a page are not seen.                                                      *)

\* A step of the promise, or a stutter.
PromiseStep == Promise!Next \/ UNCHANGED Promise!vars

\* Terms of the promise, as they are before and after a step.
page == [s \in Statuses |-> IF open THEN PageOf(s) ELSE Default(s)]
\* What the promise sees of a caller.
phase == [c \in Callers |-> IF pc[c] \in {"lookup", "init", "wait"} THEN "asked" ELSE pc[c]]

\* The variables of the promise, before and after a step.
LEMMA PromiseTerms ==
  /\ Promise!vars = <<open, page, phase, status, answer>>
  /\ Promise!vars' = <<open', page', phase', status', answer'>>
BY DEF Promise!vars, page, phase

\* Initial states map to initial states.
LEMMA InitPromise == Init => Promise!Init
<1> SUFFICES ASSUME Init PROVE Promise!Init
  OBVIOUS
<1>1. open = FALSE /\ pc = [c \in Callers |-> "idle"]
  BY DEF Init
<1>2. PICK s \in Statuses : /\ status = [c \in Callers |-> s]
                            /\ answer = [c \in Callers |-> Default(s)]
  BY DEF Init
<1>3. page = [s1 \in Statuses |-> Default(s1)] /\ phase = [c \in Callers |-> "idle"]
  BY <1>1 DEF page, phase
<1>4. status \in [Callers -> Statuses] /\ answer \in [Callers -> {Default(t) : t \in Statuses}]
  BY <1>2
<1>5. QED BY <1>1, <1>3, <1>4 DEF Promise!Init, page, phase

\* Loading a page is not seen before the server is open.
LEMMA LoadHidden ==
  ASSUME ~ open, UNCHANGED <<open, callVars>>
  PROVE  PromiseStep
<1>1. UNCHANGED <<open, page, phase, status, answer>>
  BY DEF page, phase, callVars
<1>2. QED BY <1>1, PromiseTerms DEF PromiseStep

\* When it opens every status has one of its pages.
LEMMA OpenPromise == ASSUME IndInv, Open PROVE PromiseStep
<1>1. ~ open /\ open' = TRUE /\ UNCHANGED <<cache, callVars>>
  BY DEF Open
<1>2. UNCHANGED <<phase, status, answer>>
  BY <1>1 DEF phase, callVars
<1>3. \A s \in Statuses : page'[s] = PageOf(s)
  BY <1>1 DEF page, PageOf, Cached
<1>4. \A s \in Statuses : page'[s] \in Candidates(s)
  BY <1>3, PageOfCandidate DEF IndInv
<1>5. DOMAIN page' = Statuses
  BY DEF page
<1>6. Promise!Open
  BY <1>1, <1>2, <1>4, <1>5 DEF Promise!Open, page, phase
<1>7. QED BY <1>6 DEF PromiseStep, Promise!Next

\* An evicted page is lost, and only that one.
LEMMA EvictPromise == ASSUME IndInv, NEW p \in cache, Evict(p) PROVE PromiseStep
<1>1. cache' = cache \ {p} /\ UNCHANGED <<open, callVars>>
  BY DEF Evict
<1>2. CASE ~ open
  BY <1>1, <1>2, LoadHidden
<1>3. CASE open
  <2> DEFINE s == p.status
  <2>1. s \in Statuses /\ p.status = s
    BY DEF IndInv, TypeOK
  <2> HIDE DEF s
  <2>2. ~ Cached(s)'
    BY <1>1, <2>1 DEF IndInv, TypeOK, Cached
  <2>3. ASSUME NEW t, t # s PROVE PageOf(t)' = PageOf(t)
    <3>1. CASE Cached(t)
      <4>1. PICK q \in cache : q.status = t
        BY <3>1 DEF Cached
      <4>2. q \in cache' /\ PageOf(t) = q.page
        BY <4>1, <2>1, <2>3, <1>1, PageOfCached DEF IndInv
      <4>3. PageOf(q.status)' = q.page
        BY <4>2, EvictInv, CachedAfter DEF IndInv
      <4>4. QED BY <4>1, <4>2, <4>3
    <3>2. CASE ~ Cached(t)
      <4>1. ~ Cached(t)'
        BY <3>2, <1>1 DEF Cached
      <4>2. QED BY <3>2, <4>1 DEF PageOf
    <3>3. QED BY <3>1, <3>2
  <2>4. page' = [page EXCEPT ![s] = Default(s)]
    <3>1. page' = [t \in Statuses |-> PageOf(t)'] /\ page = [t \in Statuses |-> PageOf(t)]
      BY <1>1, <1>3 DEF page
    <3>2. PageOf(s)' = Default(s)
      BY <2>2 DEF PageOf
    <3>3. QED BY <2>1, <2>3, <3>1, <3>2
  <2>5. UNCHANGED <<open, phase, status, answer>>
    BY <1>1 DEF phase, callVars
  <2>6. Promise!Lose(s)
    BY <1>3, <2>4, <2>5 DEF Promise!Lose, page, phase
  <2>7. QED BY <2>1, <2>6 DEF PromiseStep, Promise!Next
<1>4. QED BY <1>2, <1>3

\* A caller asks, and has its answer taken.
LEMMA ResolvePromise ==
  ASSUME IndInv, NEW c \in Callers, NEW s \in Statuses, Resolve(c, s)
  PROVE  PromiseStep
<1>1. /\ open /\ pc[c] = "idle" /\ pc' = [pc EXCEPT ![c] = "lookup"]
      /\ status' = [status EXCEPT ![c] = s] /\ UNCHANGED <<open, cache, answer>>
  BY DEF Resolve
<1>2. phase' = [phase EXCEPT ![c] = "asked"] /\ phase[c] = "idle"
  BY <1>1 DEF phase, IndInv, TypeOK
<1>3. UNCHANGED page
  BY <1>1 DEF page, PageOf, Cached
<1>4. Promise!Ask(c, s)
  BY <1>1, <1>2, <1>3 DEF Promise!Ask, page, phase
<1>5. QED BY <1>4 DEF PromiseStep, Promise!Next

\* Respond is a step of the promise, or a stutter.
LEMMA RespondPromise ==
  ASSUME IndInv, NEW c \in Callers, Respond(c)
  PROVE  PromiseStep
<1>1. /\ pc[c] = "answered" /\ pc' = [pc EXCEPT ![c] = "idle"]
      /\ UNCHANGED <<open, cache, status, answer>>
  BY DEF Respond
<1>2. phase' = [phase EXCEPT ![c] = "idle"] /\ phase[c] = "answered"
  BY <1>1 DEF phase, IndInv, TypeOK
<1>3. UNCHANGED page
  BY <1>1 DEF page, PageOf, Cached
<1>4. Promise!Forget(c)
  BY <1>1, <1>2, <1>3 DEF Promise!Forget, page, phase
<1>5. QED BY <1>4 DEF PromiseStep, Promise!Next

\* Looking up a page that is not there, and waiting for another to compute it,
\* is not seen.
LEMMA MissPromise ==
  ASSUME IndInv, NEW c \in Callers, Miss(c)
  PROVE  PromiseStep
<1>1. /\ pc[c] = "lookup" /\ UNCHANGED <<open, cache, status, answer>>
      /\ \E l \in {"wait", "init"} : pc' = [pc EXCEPT ![c] = l]
  BY DEF Miss
<1>2. UNCHANGED phase
  BY <1>1 DEF phase, IndInv, TypeOK
<1>3. UNCHANGED page
  BY <1>1 DEF page, PageOf, Cached
<1>4. QED BY <1>1, <1>2, <1>3, PromiseTerms DEF PromiseStep

\* All the callers in C, which are inside resolve, get the page of s.
LEMMA AnswerPromise ==
  ASSUME IndInv, open, NEW C \in SUBSET Callers, NEW s \in Statuses,
         \A c \in C : pc[c] \in {"lookup", "init", "wait"} /\ status[c] = s,
         pc' = [c \in Callers |-> IF c \in C THEN "answered" ELSE pc[c]],
         answer' = [c \in Callers |-> IF c \in C THEN PageOf(s) ELSE answer[c]],
         UNCHANGED <<open, status>>, \A t \in Statuses : PageOf(t)' = PageOf(t)
  PROVE  PromiseStep
<1>1. page' = page /\ page[s] = PageOf(s)
  BY DEF page
<1>2. phase' = [c \in Callers |-> IF c \in C THEN "answered" ELSE phase[c]]
  BY DEF phase
<1>3. \A c \in C : phase[c] = "asked" /\ status[c] = s
  BY DEF phase
<1>4. answer' = [c \in Callers |-> IF c \in C THEN page[s] ELSE answer[c]]
  BY <1>1
<1>5. Promise!Answer(C, s)
  BY <1>1, <1>2, <1>3, <1>4 DEF Promise!Answer, page, phase
<1>6. QED BY <1>5 DEF PromiseStep, Promise!Next

\* Hit is a step of the promise, or a stutter.
LEMMA HitPromise ==
  ASSUME IndInv, NEW c \in Callers, Hit(c)
  PROVE  PromiseStep
<1>1. /\ pc[c] = "lookup" /\ pc' = [pc EXCEPT ![c] = "answered"]
      /\ answer' = [answer EXCEPT ![c] = PageOf(status[c])]
      /\ UNCHANGED <<open, cache, status>>
  BY DEF Hit
<1>2. status[c] \in Statuses /\ open
  BY <1>1 DEF IndInv, TypeOK, Ordered
<1>3. \A t \in Statuses : PageOf(t)' = PageOf(t)
  BY <1>1 DEF PageOf, Cached
<1> DEFINE C == {c}
<1>4. /\ pc' = [d \in Callers |-> IF d \in C THEN "answered" ELSE pc[d]]
      /\ answer' = [d \in Callers |-> IF d \in C THEN PageOf(status[c]) ELSE answer[d]]
  BY <1>1 DEF IndInv, TypeOK
<1>5. /\ C \in SUBSET Callers
      /\ \A d \in C : pc[d] \in {"lookup", "init", "wait"} /\ status[d] = status[c]
  BY <1>1
<1> HIDE DEF C
<1>6. QED BY <1>1, <1>2, <1>3, <1>4, <1>5, AnswerPromise

\* The page that is computed is the page the status had: the default one, or
\* one that was cached in the meantime.
LEMMA RenderPromise ==
  ASSUME IndInv, NEW c \in Callers, Render(c)
  PROVE  PromiseStep
<1> DEFINE s == status[c]
           g == PageOf(status[c])
<1>1. /\ pc[c] = "init" /\ Store(s, g) /\ UNCHANGED <<open, status>>
      /\ pc' = [d \in Callers |-> IF d \in Waiting(c) THEN "answered" ELSE pc[d]]
      /\ answer' = [d \in Callers |-> IF d \in Waiting(c) THEN g ELSE answer[d]]
  BY DEF Render
<1>2. s \in Statuses /\ open /\ g \in Candidates(s)
  BY <1>1, PageOfCandidate DEF IndInv, TypeOK, Ordered
<1>3. /\ Waiting(c) \in SUBSET Callers
      /\ \A d \in Waiting(c) : pc[d] \in {"lookup", "init", "wait"} /\ status[d] = s
  BY <1>1 DEF Waiting
<1>4. g = PageOf(s)
  OBVIOUS
<1> HIDE DEF s, g
<1>5. ASSUME NEW t \in Statuses PROVE PageOf(t)' = PageOf(t)
  <2>1. /\ \A p \in cache' : p.status = s => p.page = g
        /\ \A p \in cache' : p.status # s => p \in cache
        /\ \A u : Cached(u)' <=> u = s \/ Cached(u)
    BY <1>1, <1>2, StoreCache DEF IndInv
  <2>2. CASE Cached(t)'
    <3>1. PICK p \in cache' : p.status = t
      BY <2>2 DEF Cached
    <3>2. PageOf(p.status)' = p.page
      BY <3>1, RenderInv, CachedAfter
    <3>3. PageOf(t) = p.page
      BY <3>1, <2>1, <1>4, PageOfCached DEF IndInv
    <3>4. QED BY <3>1, <3>2, <3>3
  <2>3. CASE ~ Cached(t)'
    BY <2>1, <2>3 DEF PageOf
  <2>4. QED BY <2>2, <2>3
<1>6. QED BY <1>1, <1>2, <1>3, <1>4, <1>5, AnswerPromise

\* Every step maps to a step or a stutter.
LEMMA NextPromise == IndInv /\ [Next]_vars => [Promise!Next]_Promise!vars
<1> SUFFICES ASSUME IndInv, [Next]_vars PROVE PromiseStep
  BY DEF PromiseStep
<1>1. CASE \/ \E f \in Files : WriteFile(f) \/ RemoveFile(f)
           \/ \E e \in Entries : OpenFile(e) \/ ReadFile(e) \/ FallBack(e) \/ InsertPage(e)
  <2>1. ~ open /\ UNCHANGED <<open, callVars>>
    BY <1>1 DEF WriteFile, RemoveFile, OpenFile, ReadFile, FallBack, InsertPage,
                IndInv, Ordered, AllInserted
  <2>2. QED BY <2>1, LoadHidden
<1>2. CASE UNCHANGED vars
  <2>1. UNCHANGED <<open, page, phase, status, answer>>
    BY <1>2 DEF vars, callVars, page, phase, PageOf, Cached
  <2>2. QED BY <2>1, PromiseTerms DEF PromiseStep
<1>3. QED
  BY <1>1, <1>2, OpenPromise, EvictPromise, ResolvePromise, RespondPromise, MissPromise,
     HitPromise, RenderPromise DEF Next, Environment, Load, Progress

\* Each status has one page from its own candidates once the server is open, and
\* can only fall back to the default from then on; every caller gets the page
\* its own status has at some moment of the call.
THEOREM ErrorPagesImplemented == Spec => ImplementsErrorPages
BY InitPromise, NextPromise, Invariant, PTL DEF Spec, Promise!Spec, ImplementsErrorPages

===============================================================================
