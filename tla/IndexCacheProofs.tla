--------------------------- MODULE IndexCacheProofs ---------------------------
(***************************************************************************)
(* Proofs about IndexCache: its type invariant, and, for file systems that *)
(* never give two changes of a directory the same mtime, that no outdated  *)
(* page is ever served.  The properties to prove are not inductive: a task *)
(* may store a page it began to list long ago, and another may hit it with *)
(* a window of its own.  IndInv relates every window to every page being   *)
(* listed under the same mtime.                                            *)
(***************************************************************************)
EXTENDS IndexCache, TLAPS

\* Two changes of a directory never carry the same mtime.
FineTicks == 0 \notin Ticks

\* No time stamp is ahead of the clock.
Clocked ==
  /\ \A d \in Dirs : mtime[d] <= clock
  /\ \A e \in cache : e.last_mtime <= clock
  /\ \A r \in Requests : current[r] <= clock

\* The window of a request in flight always contains the present moment.
WindowNow ==
  \A r \in Requests : pc[r] \in InFlight =>
    always[r] \subseteq Listing(target[r]) /\ Listing(target[r]) \subseteq ever[r]

\* A request that has read the mtime and can still meet pages listed under it.
HasMtime(r) == pc[r] \in {"lookup", "open", "scan"}

\* An entry that a request about to look up would hit is within its window.
HitInWindow ==
  \A r \in Requests : \A e \in cache : pc[r] = "lookup" /\ Match(r, e) =>
    always[r] \subseteq e.files /\ e.files \subseteq ever[r]

\* While the directory still has the mtime the scan s started from, the scan
\* has listed exactly the names it has come to.
ScanFresh ==
  \A s \in Requests :
    pc[s] = "scan" /\ target[s] \in present /\ current[s] = mtime[target[s]]
      => files[s] = Listing(target[s]) \ todo[s]

\* What scan s has listed is within the window of every request r that read
\* the same mtime of the same directory, r = s included.
ScanInWindow ==
  \A r, s \in Requests :
    /\ HasMtime(r) /\ pc[s] = "scan"
    /\ target[r] = target[s] /\ current[r] = current[s]
    => always[r] \ todo[s] \subseteq files[s] /\ files[s] \subseteq ever[r]

\* The inductive invariant.
IndInv == /\ TypeOK /\ Clocked /\ WindowNow /\ CacheFresh /\ HitInWindow
          /\ ScanFresh /\ ScanInWindow /\ PageInWindow

-------------------------------------------------------------------------------
\* The initial states have the types.
LEMMA InitTypeOK == Init => TypeOK
BY HiddenAssumption, NumbersAssumption
   DEF Init, TypeOK, InFlight, Answered, Entry

\* Every step keeps them.
LEMMA NextTypeOK == TypeOK /\ [Next]_vars => TypeOK'
<1> SUFFICES ASSUME TypeOK, [Next]_vars PROVE TypeOK'
  OBVIOUS
<1> USE NumbersAssumption DEF TypeOK
<1>1. ASSUME NEW d \in Dirs, NEW n \in Names, Toggle(d, n) PROVE TypeOK'
  BY <1>1 DEF Toggle, Stamp, Observe, reqVars, Listing, InFlight, Answered
<1>2. ASSUME NEW d \in Dirs, RemoveDir(d) PROVE TypeOK'
  BY <1>2 DEF RemoveDir
<1>3. ASSUME NEW d \in Dirs, CreateDir(d) PROVE TypeOK'
  BY <1>3 DEF CreateDir, Stamp, reqVars
<1>4. ASSUME NEW e \in cache, Evict(e) PROVE TypeOK'
  BY <1>4 DEF Evict, fsVars, reqVars
<1>5. ASSUME NEW r \in Requests, NEW d \in Dirs, NEW v \in Views, Ask(r, d, v)
      PROVE TypeOK'
  BY <1>5 DEF Ask, fsVars, Listing, InFlight, Answered
<1>6. ASSUME NEW r \in Requests, Metadata(r) PROVE TypeOK'
  BY <1>6 DEF Metadata, fsVars, InFlight, Answered
<1>7. ASSUME NEW r \in Requests, CacheHit(r) PROVE TypeOK'
  BY <1>7 DEF CacheHit, fsVars, InFlight, Answered, Entry
<1>8. ASSUME NEW r \in Requests, CacheMiss(r) PROVE TypeOK'
  BY <1>8 DEF CacheMiss, fsVars, InFlight, Answered
<1>9. ASSUME NEW r \in Requests, OpenDir(r) PROVE TypeOK'
  BY <1>9 DEF OpenDir, fsVars, InFlight, Answered
<1>10. ASSUME NEW r \in Requests, NEW n \in Names, ReadEntry(r, n) PROVE TypeOK'
  BY <1>10 DEF ReadEntry, fsVars, Listing
<1>11. ASSUME NEW r \in Requests, Insert(r) PROVE TypeOK'
  BY <1>11 DEF Insert, fsVars, InFlight, Answered, Entry
<1>12. ASSUME NEW r \in Requests, Fail(r) PROVE TypeOK'
  BY <1>12 DEF Fail, fsVars, InFlight, Answered
<1>13. ASSUME NEW r \in Requests, Respond(r) PROVE TypeOK'
  BY <1>13 DEF Respond, fsVars, InFlight, Answered
<1>14. CASE UNCHANGED vars
  BY <1>14 DEF vars, fsVars, reqVars
<1>15. QED
  BY <1>1, <1>2, <1>3, <1>4, <1>5, <1>6, <1>7, <1>8, <1>9, <1>10, <1>11,
     <1>12, <1>13, <1>14 DEF Next, Environment, Progress

\* Every variable of render_index, the cache and the directories keeps its type.
THEOREM TypeCorrect == Spec => []TypeOK
<1>1. QED BY InitTypeOK, NextTypeOK, PTL DEF Spec

-------------------------------------------------------------------------------
(* The inductive step of IndInv, for the changes of a directory and for the *)
(* steps of a task.                                                         *)

\* A change of a directory is stamped with a time no entry and no task has.
LEMMA StampIsNew ==
  ASSUME TypeOK, Clocked, FineTicks, NEW d \in Dirs, Stamp(d)
  PROVE  /\ clock' \in Nat /\ clock < clock'
         /\ mtime' = [mtime EXCEPT ![d] = clock']
         /\ \A e \in cache : e.last_mtime \in Nat /\ e.last_mtime < mtime'[d]
         /\ \A r \in Requests : current[r] \in Nat /\ current[r] < mtime'[d]
<1> USE NumbersAssumption DEF TypeOK
<1>1. PICK t \in Ticks : clock' = clock + t /\ mtime' = [mtime EXCEPT ![d] = clock']
  BY DEF Stamp
<1>2. clock' \in Nat /\ clock < clock'
  BY <1>1 DEF FineTicks
<1>3. mtime'[d] = clock'
  BY <1>1
<1>4. \A e \in cache : e.last_mtime \in Nat /\ e.last_mtime < mtime'[d]
  BY <1>2, <1>3 DEF Clocked, Entry
<1>5. \A r \in Requests : current[r] \in Nat /\ current[r] < mtime'[d]
  BY <1>2, <1>3 DEF Clocked
<1>6. QED BY <1>1, <1>2, <1>4, <1>5

\* Toggle keeps the invariant.
LEMMA ToggleIndInv ==
  ASSUME IndInv, FineTicks, NEW d \in Dirs, NEW n \in Names, Toggle(d, n), TypeOK'
  PROVE  IndInv'
<1> DEFINE new == names'[d]
<1>1. /\ UNCHANGED <<present, cache, reqVars>>
      /\ Observe(d, new \ Hidden) /\ Stamp(d)
      /\ names' = [names EXCEPT ![d] = new]
  BY DEF Toggle, IndInv, TypeOK
<1>2. /\ clock' \in Nat /\ clock < clock'
      /\ mtime' = [mtime EXCEPT ![d] = clock']
      /\ \A e \in cache : e.last_mtime \in Nat /\ e.last_mtime < mtime'[d]
      /\ \A r \in Requests : current[r] \in Nat /\ current[r] < mtime'[d]
  BY <1>1, StampIsNew DEF IndInv
<1>3. \A r \in Requests : always'[r] \subseteq always[r] /\ ever[r] \subseteq ever'[r]
  BY <1>1 DEF Observe, IndInv, TypeOK
<1>4. Clocked'
  BY <1>1, <1>2 DEF IndInv, Clocked, reqVars, TypeOK, Entry
<1>5. WindowNow'
  <2> SUFFICES ASSUME NEW r \in Requests, pc[r] \in InFlight
               PROVE  /\ always'[r] \subseteq names'[target[r]] \ Hidden
                      /\ names'[target[r]] \ Hidden \subseteq ever'[r]
    BY <1>1 DEF WindowNow, reqVars, Listing
  <2>1. CASE target[r] = d
    BY <1>1, <2>1 DEF Observe, IndInv, TypeOK
  <2>2. CASE target[r] # d
    BY <1>1, <2>2 DEF Observe, IndInv, TypeOK, WindowNow, Listing
  <2>3. QED BY <2>1, <2>2
<1>6. CacheFresh'
  <2> SUFFICES ASSUME NEW e \in cache, e.dir \in present,
                      e.last_mtime = mtime'[e.dir]
               PROVE  e.files = names'[e.dir] \ Hidden
    BY <1>1 DEF CacheFresh, Listing
  <2>1. e.dir # d
    BY <1>2
  <2>2. e.dir \in Dirs
    BY DEF IndInv, TypeOK
  <2>3. QED BY <1>1, <1>2, <2>1, <2>2 DEF IndInv, CacheFresh, Listing, TypeOK
<1>7. HitInWindow'
  BY <1>1, <1>3 DEF IndInv, HitInWindow, Match, reqVars
<1>8. ScanFresh'
  <2> SUFFICES ASSUME NEW s \in Requests, pc[s] = "scan", target[s] \in present,
                      current[s] = mtime'[target[s]]
               PROVE  files[s] = (names'[target[s]] \ Hidden) \ todo[s]
    BY <1>1 DEF ScanFresh, Listing, reqVars
  <2>1. target[s] # d /\ target[s] \in Dirs
    BY <1>2 DEF IndInv, TypeOK
  <2>2. QED BY <1>1, <1>2, <2>1 DEF IndInv, ScanFresh, Listing, TypeOK
<1>9. ScanInWindow'
  BY <1>1, <1>3 DEF IndInv, ScanInWindow, HasMtime, reqVars
<1>10. PageInWindow'
  BY <1>1 DEF IndInv, PageInWindow, Observe, InFlight, reqVars, TypeOK
<1>11. QED BY <1>4, <1>5, <1>6, <1>7, <1>8, <1>9, <1>10 DEF IndInv

\* RemoveDir keeps the invariant.
LEMMA RemoveDirIndInv ==
  ASSUME IndInv, NEW d \in Dirs, RemoveDir(d), TypeOK'
  PROVE  IndInv'
<1> USE DEF RemoveDir, Listing
<1>1. Clocked' /\ WindowNow'
  BY DEF IndInv, Clocked, WindowNow
<1>2. CacheFresh' /\ HitInWindow'
  BY DEF IndInv, CacheFresh, HitInWindow, Match
<1>3. ScanFresh'
  BY DEF IndInv, ScanFresh, TypeOK
<1>4. ScanInWindow'
  <2> SUFFICES ASSUME NEW r \in Requests, NEW s \in Requests,
                      HasMtime(r), pc[s] = "scan",
                      target[r] = target[s], current[r] = current[s]
               PROVE  always[r] \ todo'[s] \subseteq files[s] /\ files[s] \subseteq ever[r]
    BY DEF ScanInWindow, HasMtime
  <2>1. CASE target[s] = d
    <3>1. always[r] \subseteq names[d] \ Hidden
      BY <2>1 DEF IndInv, WindowNow, HasMtime, InFlight
    <3>2. QED BY <3>1 DEF IndInv, ScanInWindow
  <2>2. CASE target[s] # d
    BY <2>2 DEF IndInv, ScanInWindow, TypeOK
  <2>3. QED BY <2>1, <2>2
<1>5. PageInWindow'
  BY DEF IndInv, PageInWindow
<1>6. QED BY <1>1, <1>2, <1>3, <1>4, <1>5 DEF IndInv

\* CreateDir keeps the invariant.
LEMMA CreateDirIndInv ==
  ASSUME IndInv, FineTicks, NEW d \in Dirs, CreateDir(d), TypeOK'
  PROVE  IndInv'
<1>1. /\ UNCHANGED <<names, cache, reqVars, always, ever>>
      /\ present' = present \cup {d} /\ Stamp(d)
  BY DEF CreateDir
<1>2. /\ clock' \in Nat /\ clock < clock'
      /\ mtime' = [mtime EXCEPT ![d] = clock']
      /\ \A e \in cache : e.last_mtime \in Nat /\ e.last_mtime < mtime'[d]
      /\ \A r \in Requests : current[r] \in Nat /\ current[r] < mtime'[d]
  BY <1>1, StampIsNew DEF IndInv
<1>3. Clocked' /\ WindowNow'
  BY <1>1, <1>2 DEF IndInv, Clocked, WindowNow, Listing, reqVars, TypeOK, Entry
<1>4. CacheFresh'
  <2> SUFFICES ASSUME NEW e \in cache, e.dir \in present \cup {d},
                      e.last_mtime = mtime'[e.dir]
               PROVE  e.files = Listing(e.dir)
    BY <1>1 DEF CacheFresh, Listing
  <2>1. e.dir # d
    BY <1>2
  <2>2. QED BY <1>2, <2>1 DEF IndInv, CacheFresh, TypeOK
<1>5. ScanFresh'
  <2> SUFFICES ASSUME NEW s \in Requests, pc[s] = "scan",
                      target[s] \in present \cup {d}, current[s] = mtime'[target[s]]
               PROVE  files[s] = Listing(target[s]) \ todo[s]
    BY <1>1 DEF ScanFresh, Listing, reqVars
  <2>1. target[s] # d
    BY <1>2
  <2>2. QED BY <1>2, <2>1 DEF IndInv, ScanFresh, TypeOK
<1>6. HitInWindow' /\ ScanInWindow' /\ PageInWindow'
  BY <1>1 DEF IndInv, HitInWindow, Match, ScanInWindow, HasMtime, PageInWindow, reqVars
<1>7. QED BY <1>3, <1>4, <1>5, <1>6 DEF IndInv

\* Evict keeps the invariant.
LEMMA EvictIndInv ==
  ASSUME IndInv, NEW e \in cache, Evict(e), TypeOK'
  PROVE  IndInv'
<1> USE DEF Evict, fsVars, reqVars
<1>1. Clocked' /\ WindowNow'
  BY DEF IndInv, Clocked, WindowNow, Listing
<1>2. CacheFresh' /\ HitInWindow'
  BY DEF IndInv, CacheFresh, HitInWindow, Match, Listing
<1>3. ScanFresh' /\ ScanInWindow' /\ PageInWindow'
  BY DEF IndInv, ScanFresh, ScanInWindow, HasMtime, PageInWindow, Listing
<1>4. QED BY <1>1, <1>2, <1>3 DEF IndInv

\* Ask keeps the invariant.
LEMMA AskIndInv ==
  ASSUME IndInv, NEW r \in Requests, NEW d \in Dirs, NEW v \in Views,
         Ask(r, d, v), TypeOK'
  PROVE  IndInv'
<1> USE DEF Ask, fsVars, IndInv, TypeOK
<1>1. Clocked' /\ WindowNow'
  BY DEF Clocked, WindowNow, Listing, InFlight
<1>2. CacheFresh' /\ HitInWindow'
  BY DEF CacheFresh, HitInWindow, Match, Listing
<1>3. ScanFresh'
  BY DEF ScanFresh, Listing
<1>4. ScanInWindow'
  BY DEF ScanInWindow, HasMtime
<1>5. PageInWindow'
  BY DEF PageInWindow
<1>6. QED BY <1>1, <1>2, <1>3, <1>4, <1>5

\* The window of a request that reads an mtime holds the listing of the
\* moment, which every entry and every scan under that mtime agrees with.
LEMMA MetadataIndInv ==
  ASSUME IndInv, NEW r \in Requests, Metadata(r), TypeOK'
  PROVE  IndInv'
<1> USE DEF Metadata, fsVars
<1>1. /\ pc' = [pc EXCEPT ![r] = "lookup"]
      /\ current' = [current EXCEPT ![r] = mtime[target[r]]]
      /\ target[r] \in Dirs
  BY DEF IndInv, TypeOK
<1>2. always[r] \subseteq Listing(target[r]) /\ Listing(target[r]) \subseteq ever[r]
  BY DEF IndInv, WindowNow, InFlight
<1>3. Clocked' /\ WindowNow'
  BY <1>1 DEF IndInv, Clocked, WindowNow, Listing, InFlight, TypeOK
<1>4. CacheFresh' /\ ScanFresh'
  BY <1>1 DEF IndInv, CacheFresh, ScanFresh, Listing, TypeOK
<1>5. HitInWindow'
  <2> SUFFICES ASSUME NEW q \in Requests, NEW e \in cache, pc'[q] = "lookup",
                      e.dir = target[q], e.last_mtime = current'[q]
               PROVE  always[q] \subseteq e.files /\ e.files \subseteq ever[q]
    BY DEF HitInWindow, Match
  <2>1. CASE q = r
    <3>1. e.files = Listing(target[r])
      BY <2>1, <1>1 DEF IndInv, CacheFresh, TypeOK
    <3>2. QED BY <2>1, <3>1, <1>2
  <2>2. CASE q # r
    BY <2>2, <1>1 DEF IndInv, HitInWindow, Match, TypeOK
  <2>3. QED BY <2>1, <2>2
<1>6. ScanInWindow'
  <2> SUFFICES ASSUME NEW q \in Requests, NEW s \in Requests,
                      pc'[q] \in {"lookup", "open", "scan"}, pc'[s] = "scan",
                      target[q] = target[s], current'[q] = current'[s]
               PROVE  always[q] \ todo[s] \subseteq files[s] /\ files[s] \subseteq ever[q]
    BY DEF ScanInWindow, HasMtime
  <2>1. s # r /\ pc[s] = "scan" /\ current'[s] = current[s]
    BY <1>1 DEF IndInv, TypeOK
  <2>2. CASE q = r
    <3>1. files[s] = Listing(target[r]) \ todo[s]
      BY <2>1, <2>2, <1>1 DEF IndInv, ScanFresh, TypeOK
    <3>2. QED BY <2>2, <3>1, <1>2
  <2>3. CASE q # r
    BY <2>1, <2>3, <1>1 DEF IndInv, ScanInWindow, HasMtime, TypeOK
  <2>4. QED BY <2>2, <2>3
<1>7. PageInWindow'
  BY <1>1 DEF IndInv, PageInWindow, TypeOK
<1>8. QED BY <1>3, <1>4, <1>5, <1>6, <1>7 DEF IndInv

\* CacheHit keeps the invariant.
LEMMA CacheHitIndInv ==
  ASSUME IndInv, NEW r \in Requests, CacheHit(r), TypeOK'
  PROVE  IndInv'
<1>1. PICK e \in cache : /\ Match(r, e)
                         /\ files' = [files EXCEPT ![r] = e.files]
  BY DEF CacheHit
<1>2. /\ pc[r] = "lookup" /\ pc' = [pc EXCEPT ![r] = "served"]
      /\ UNCHANGED <<fsVars, cache, target, view, current, todo, always, ever>>
  BY DEF CacheHit
<1>3. Clocked' /\ WindowNow' /\ CacheFresh' /\ HitInWindow'
  BY <1>2 DEF IndInv, Clocked, WindowNow, CacheFresh, HitInWindow, Match,
              Listing, InFlight, fsVars, TypeOK
<1>4. ScanFresh' /\ ScanInWindow'
  BY <1>1, <1>2 DEF IndInv, ScanFresh, ScanInWindow, HasMtime, Listing, fsVars, TypeOK
<1>5. PageInWindow'
  <2>1. always[r] \subseteq e.files /\ e.files \subseteq ever[r]
    BY <1>1, <1>2 DEF IndInv, HitInWindow
  <2>2. QED BY <2>1, <1>1, <1>2 DEF IndInv, PageInWindow, TypeOK
<1>6. QED BY <1>3, <1>4, <1>5 DEF IndInv

\* CacheMiss keeps the invariant.
LEMMA CacheMissIndInv ==
  ASSUME IndInv, NEW r \in Requests, CacheMiss(r), TypeOK'
  PROVE  IndInv'
<1> USE DEF CacheMiss, fsVars, IndInv, TypeOK
<1>1. Clocked' /\ WindowNow' /\ CacheFresh' /\ HitInWindow'
  BY DEF Clocked, WindowNow, CacheFresh, HitInWindow, Match, Listing, InFlight
<1>2. ScanFresh' /\ ScanInWindow' /\ PageInWindow'
  BY DEF ScanFresh, ScanInWindow, HasMtime, PageInWindow, Listing
<1>3. QED BY <1>1, <1>2

\* OpenDir keeps the invariant.
LEMMA OpenDirIndInv ==
  ASSUME IndInv, NEW r \in Requests, OpenDir(r), TypeOK'
  PROVE  IndInv'
<1> USE DEF OpenDir, fsVars, IndInv, TypeOK
<1>1. Clocked' /\ WindowNow' /\ CacheFresh' /\ HitInWindow'
  BY DEF Clocked, WindowNow, CacheFresh, HitInWindow, Match, Listing, InFlight
<1>2. ScanFresh'
  BY DEF ScanFresh, Listing
<1>3. ScanInWindow'
  <2> SUFFICES ASSUME NEW q \in Requests, NEW s \in Requests, HasMtime(q)',
                      pc'[s] = "scan", target[q] = target[s], current[q] = current[s]
               PROVE  /\ always[q] \ todo'[s] \subseteq files'[s]
                      /\ files'[s] \subseteq ever[q]
    BY DEF ScanInWindow
  <2>1. CASE s = r
    BY <2>1
  <2>2. CASE s # r
    BY <2>2 DEF ScanInWindow, HasMtime
  <2>3. QED BY <2>1, <2>2
<1>4. PageInWindow'
  BY DEF PageInWindow
<1>5. QED BY <1>1, <1>2, <1>3, <1>4

\* ReadEntry keeps the invariant.
LEMMA ReadEntryIndInv ==
  ASSUME IndInv, NEW r \in Requests, NEW n \in Names, ReadEntry(r, n), TypeOK'
  PROVE  IndInv'
<1> USE DEF ReadEntry, fsVars
<1>1. /\ todo' = [todo EXCEPT ![r] = todo[r] \ {n}]
      /\ files' = [files EXCEPT ![r] =
                     IF n \in Listing(target[r]) THEN files[r] \cup {n} ELSE files[r]]
      /\ pc[r] = "scan" /\ n \in todo[r]
  OBVIOUS
<1>2. Clocked' /\ WindowNow' /\ CacheFresh' /\ HitInWindow'
  BY DEF IndInv, Clocked, WindowNow, CacheFresh, HitInWindow, Match, Listing
<1>3. ScanFresh'
  BY <1>1 DEF IndInv, ScanFresh, Listing, TypeOK
<1>4. ScanInWindow'
  <2> SUFFICES ASSUME NEW q \in Requests, NEW s \in Requests, HasMtime(q),
                      pc[s] = "scan", target[q] = target[s], current[q] = current[s]
               PROVE  /\ always[q] \ todo'[s] \subseteq files'[s]
                      /\ files'[s] \subseteq ever[q]
    BY DEF ScanInWindow, HasMtime
  <2>1. always[q] \ todo[s] \subseteq files[s] /\ files[s] \subseteq ever[q]
    BY DEF IndInv, ScanInWindow
  <2>2. CASE s = r
    <3>1. always[q] \subseteq Listing(target[s]) /\ Listing(target[s]) \subseteq ever[q]
      BY DEF IndInv, WindowNow, HasMtime, InFlight
    <3>2. QED BY <1>1, <2>1, <2>2, <3>1 DEF IndInv, TypeOK
  <2>3. CASE s # r
    BY <1>1, <2>1, <2>3 DEF IndInv, TypeOK
  <2>4. QED BY <2>2, <2>3
<1>5. PageInWindow'
  BY <1>1 DEF IndInv, PageInWindow, TypeOK
<1>6. QED BY <1>2, <1>3, <1>4, <1>5 DEF IndInv

\* A finished scan is within the windows of all who read its mtime, and
\* fresh if the directory still has it.
LEMMA InsertIndInv ==
  ASSUME IndInv, NEW r \in Requests, Insert(r), TypeOK'
  PROVE  IndInv'
<1> DEFINE page == [dir |-> target[r], last_mtime |-> current[r],
                    files |-> files[r], heading |-> view[r]]
<1>1. /\ pc[r] = "scan" /\ todo[r] = {}
      /\ cache' = {e \in cache : e.dir # target[r]} \cup {page}
      /\ pc' = [pc EXCEPT ![r] = "served"]
      /\ UNCHANGED <<fsVars, target, view, current, todo, files, always, ever>>
  BY DEF Insert
<1>2. page.dir = target[r] /\ page.last_mtime = current[r] /\ page.files = files[r]
  OBVIOUS
<1> HIDE DEF page
<1>3. Clocked'
  BY <1>1, <1>2 DEF IndInv, Clocked, fsVars
<1>4. WindowNow' /\ ScanFresh' /\ ScanInWindow'
  BY <1>1 DEF IndInv, WindowNow, ScanFresh, ScanInWindow, HasMtime, Listing,
              InFlight, fsVars, TypeOK
<1>5. CacheFresh'
  <2>1. target[r] \in present /\ current[r] = mtime[target[r]]
          => files[r] = Listing(target[r])
    BY <1>1 DEF IndInv, ScanFresh
  <2>2. QED BY <1>1, <1>2, <2>1 DEF IndInv, CacheFresh, Listing, fsVars
<1>6. HitInWindow'
  <2> SUFFICES ASSUME NEW q \in Requests, NEW e \in cache', pc'[q] = "lookup",
                      e.dir = target[q], e.last_mtime = current[q]
               PROVE  always[q] \subseteq e.files /\ e.files \subseteq ever[q]
    BY <1>1 DEF HitInWindow, Match
  <2>1. pc[q] = "lookup"
    BY <1>1 DEF IndInv, TypeOK
  <2>2. CASE e \in cache
    BY <2>1, <2>2 DEF IndInv, HitInWindow, Match
  <2>3. CASE e = page
    BY <1>1, <1>2, <2>1, <2>3 DEF IndInv, ScanInWindow, HasMtime
  <2>4. QED BY <1>1, <2>2, <2>3
<1>7. PageInWindow'
  <2>1. always[r] \subseteq files[r] /\ files[r] \subseteq ever[r]
    BY <1>1 DEF IndInv, ScanInWindow, HasMtime
  <2>2. QED BY <1>1, <2>1 DEF IndInv, PageInWindow, TypeOK
<1>8. QED BY <1>3, <1>4, <1>5, <1>6, <1>7 DEF IndInv

\* Fail keeps the invariant.
LEMMA FailIndInv ==
  ASSUME IndInv, NEW r \in Requests, Fail(r), TypeOK'
  PROVE  IndInv'
<1> USE DEF Fail, fsVars, IndInv, TypeOK
<1>1. Clocked' /\ WindowNow' /\ CacheFresh' /\ HitInWindow'
  BY DEF Clocked, WindowNow, CacheFresh, HitInWindow, Match, Listing, InFlight
<1>2. ScanFresh' /\ ScanInWindow' /\ PageInWindow'
  BY DEF ScanFresh, ScanInWindow, HasMtime, PageInWindow, Listing
<1>3. QED BY <1>1, <1>2

\* Respond keeps the invariant.
LEMMA RespondIndInv ==
  ASSUME IndInv, NEW r \in Requests, Respond(r), TypeOK'
  PROVE  IndInv'
<1> USE DEF Respond, Answered, fsVars, IndInv, TypeOK
<1>1. Clocked' /\ WindowNow'
  BY NumbersAssumption DEF Clocked, WindowNow, Listing, InFlight
<1>2. CacheFresh' /\ HitInWindow'
  BY DEF CacheFresh, HitInWindow, Match, Listing
<1>3. ScanFresh' /\ ScanInWindow' /\ PageInWindow'
  BY DEF ScanFresh, ScanInWindow, HasMtime, PageInWindow, Listing
<1>4. QED BY <1>1, <1>2, <1>3

-------------------------------------------------------------------------------
\* It holds initially.
LEMMA InitIndInv == Init => IndInv
<1> SUFFICES ASSUME Init PROVE IndInv
  OBVIOUS
<1>1. TypeOK
  BY InitTypeOK
<1>2. Clocked /\ CacheFresh
  BY DEF Init, Clocked, CacheFresh
<1>3. WindowNow /\ HitInWindow /\ ScanFresh /\ ScanInWindow /\ PageInWindow
  BY DEF Init, WindowNow, HitInWindow, ScanFresh, ScanInWindow, HasMtime,
         PageInWindow, InFlight
<1>4. QED BY <1>1, <1>2, <1>3 DEF IndInv

\* Every step keeps it.
LEMMA NextIndInv == ASSUME FineTicks PROVE IndInv /\ [Next]_vars => IndInv'
<1> SUFFICES ASSUME IndInv, [Next]_vars PROVE IndInv'
  OBVIOUS
<1>1. TypeOK'
  BY NextTypeOK DEF IndInv
<1>2. CASE Environment
  BY <1>1, <1>2, ToggleIndInv, RemoveDirIndInv, CreateDirIndInv, EvictIndInv
     DEF Environment
<1>3. ASSUME NEW r \in Requests, NEW d \in Dirs, NEW v \in Views, Ask(r, d, v)
      PROVE  IndInv'
  BY <1>1, <1>3, AskIndInv
<1>4. ASSUME NEW r \in Requests, Progress(r) PROVE IndInv'
  BY <1>1, <1>4, MetadataIndInv, CacheHitIndInv, CacheMissIndInv, OpenDirIndInv,
     ReadEntryIndInv, InsertIndInv, FailIndInv DEF Progress
<1>5. ASSUME NEW r \in Requests, Respond(r) PROVE IndInv'
  BY <1>1, <1>5, RespondIndInv
<1>6. CASE UNCHANGED vars
  <2> USE <1>6 DEF vars, fsVars, reqVars
  <2>1. Clocked' /\ WindowNow'
    BY DEF IndInv, Clocked, WindowNow, Listing
  <2>2. CacheFresh' /\ HitInWindow'
    BY DEF IndInv, CacheFresh, HitInWindow, Match, Listing
  <2>3. ScanFresh' /\ ScanInWindow' /\ PageInWindow'
    BY DEF IndInv, ScanFresh, ScanInWindow, HasMtime, PageInWindow, Listing
  <2>4. QED BY <1>1, <2>1, <2>2, <2>3 DEF IndInv
<1>7. QED BY <1>2, <1>3, <1>4, <1>5, <1>6 DEF Next

\* The strengthening of the properties below is an invariant when mtimes tell
\* changes of a directory apart.
THEOREM Inductive == ASSUME FineTicks PROVE Spec => []IndInv
<1>1. QED BY InitIndInv, NextIndInv, PTL DEF Spec

\* When mtimes tell changes apart, no entry the cache can serve is outdated,
\* for any number of tasks, directories and names and any capacity.
THEOREM CacheIsFresh == ASSUME FineTicks PROVE Spec => []CacheFresh
<1>1. IndInv => CacheFresh
  BY DEF IndInv
<1>2. QED BY <1>1, Inductive, PTL

\* When mtimes tell changes apart, every page served lies within the window
\* of its request, whatever tasks, scans and changes interleave.
THEOREM PagesAreInWindow == ASSUME FineTicks PROVE Spec => []PageInWindow
<1>1. IndInv => PageInWindow
  BY DEF IndInv
<1>2. QED BY <1>1, Inductive, PTL

-------------------------------------------------------------------------------
(* The refinement.  The abstract state of a step that only concerns the     *)
(* cache or the progress of a scan is unchanged.                            *)

\* A step inside a request is a stutter of the promise.
LEMMA StepStutters ==
  ASSUME TypeOK, UNCHANGED <<names, target, always, ever>>,
         \A r \in Requests :
           \/ pc'[r] = pc[r] /\ (pc[r] = "served" => files'[r] = files[r])
           \/ pc[r] \in InFlight /\ pc'[r] \in InFlight
  PROVE  UNCHANGED Promise!vars
<1>1. [d \in Dirs |-> Listing(d)]' = [d \in Dirs |-> Listing(d)]
  BY DEF Listing
<1>2. [r \in Requests |-> IF pc[r] \in InFlight THEN "asked" ELSE pc[r]]'
        = [r \in Requests |-> IF pc[r] \in InFlight THEN "asked" ELSE pc[r]]
  BY DEF InFlight
<1>3. [r \in Requests |-> IF pc[r] = "served" THEN files[r] ELSE {}]'
        = [r \in Requests |-> IF pc[r] = "served" THEN files[r] ELSE {}]
  BY DEF InFlight
<1>4. QED BY <1>1, <1>2, <1>3 DEF Promise!vars

\* Toggle is a step of the promise, or a stutter.
LEMMA ToggleRefines ==
  ASSUME TypeOK, NEW d \in Dirs, NEW n \in Names, Toggle(d, n)
  PROVE  \E S \in SUBSET (Names \ Hidden) : Promise!Change(d, S)
<1> DEFINE new == IF n \in names[d] THEN names[d] \ {n} ELSE names[d] \cup {n}
<1>1. /\ names' = [names EXCEPT ![d] = new]
      /\ Observe(d, new \ Hidden) /\ UNCHANGED reqVars
  BY DEF Toggle
<1>2. new \ Hidden \in SUBSET (Names \ Hidden)
  BY DEF TypeOK
<1> HIDE DEF new
<1>3. [x \in Dirs |-> Listing(x)]'
        = [[x \in Dirs |-> Listing(x)] EXCEPT ![d] = new \ Hidden]
  BY <1>1 DEF Listing, TypeOK
<1>4. \A q \in Requests : pc[q] # "asked"
  BY DEF TypeOK, InFlight, Answered
<1>5. Promise!Change(d, new \ Hidden)
  BY <1>1, <1>3, <1>4 DEF Promise!Change, Observe, reqVars
<1>6. QED BY <1>2, <1>5

\* Ask is a step of the promise, or a stutter.
LEMMA AskRefines ==
  ASSUME TypeOK, NEW r \in Requests, NEW d \in Dirs, NEW v \in Views, Ask(r, d, v)
  PROVE  Promise!Ask(r, d)
BY DEF Ask, Promise!Ask, fsVars, TypeOK, InFlight, Listing

\* A hit or an insertion serves a page that the promise allows.
LEMMA ServeRefines ==
  ASSUME IndInv, PageInWindow', NEW r \in Requests, CacheHit(r) \/ Insert(r), TypeOK'
  PROVE  \E S \in SUBSET (Names \ Hidden) : Promise!Serve(r, S)
<1>1. /\ pc[r] \in InFlight /\ pc' = [pc EXCEPT ![r] = "served"]
      /\ \A q \in Requests : q # r => files'[q] = files[q]
      /\ UNCHANGED <<names, target, always, ever>>
  BY DEF CacheHit, Insert, InFlight, IndInv, TypeOK, fsVars
<1>2. always[r] \subseteq files'[r] /\ files'[r] \subseteq ever[r]
  BY <1>1 DEF PageInWindow, IndInv, TypeOK
<1>3. PICK S \in SUBSET (Names \ Hidden) : S = files'[r]
  BY DEF TypeOK
<1>4. Promise!Serve(r, S)
  BY <1>1, <1>2, <1>3 DEF Promise!Serve, IndInv, TypeOK, InFlight, Listing
<1>5. QED BY <1>4

\* Fail is a step of the promise, or a stutter.
LEMMA FailRefines ==
  ASSUME TypeOK, NEW r \in Requests, Fail(r)
  PROVE  Promise!Fail(r)
BY DEF Fail, Promise!Fail, fsVars, TypeOK, InFlight, Listing

\* Respond is a step of the promise, or a stutter.
LEMMA RespondRefines ==
  ASSUME TypeOK, NEW r \in Requests, Respond(r)
  PROVE  Promise!Forget(r)
BY DEF Respond, Promise!Forget, fsVars, TypeOK, InFlight, Answered, Listing

\* Initial states map to initial states.
LEMMA InitRefines == Init => Promise!Init
<1> SUFFICES ASSUME Init PROVE Promise!Init
  OBVIOUS
<1>1. [d \in Dirs |-> Listing(d)] \in [Dirs -> SUBSET (Names \ Hidden)]
  BY DEF Init, Listing
<1>2. QED BY <1>1 DEF Init, Promise!Init, InFlight

\* Every step maps to a step or a stutter.
LEMMA NextRefines ==
  IndInv /\ IndInv' /\ [Next]_vars => [Promise!Next]_(Promise!vars)
<1> SUFFICES ASSUME IndInv, IndInv', [Next]_vars
             PROVE  Promise!Next \/ UNCHANGED Promise!vars
  OBVIOUS
<1>1. TypeOK /\ TypeOK' /\ PageInWindow'
  BY DEF IndInv
<1>2. ASSUME NEW d \in Dirs, NEW n \in Names, Toggle(d, n) PROVE Promise!Next
  BY <1>1, <1>2, ToggleRefines DEF Promise!Next
<1>3. ASSUME NEW d \in Dirs, RemoveDir(d) \/ CreateDir(d)
      PROVE  UNCHANGED Promise!vars
  BY <1>1, <1>3, StepStutters DEF RemoveDir, CreateDir, reqVars
<1>4. ASSUME NEW e \in cache, Evict(e) PROVE UNCHANGED Promise!vars
  BY <1>1, <1>4, StepStutters DEF Evict, fsVars, reqVars
<1>5. ASSUME NEW r \in Requests, NEW d \in Dirs, NEW v \in Views, Ask(r, d, v)
      PROVE  Promise!Next
  BY <1>1, <1>5, AskRefines DEF Promise!Next
<1>6. ASSUME NEW r \in Requests, Metadata(r) \/ CacheMiss(r) \/ OpenDir(r)
      PROVE  UNCHANGED Promise!vars
  <2>1. /\ UNCHANGED <<names, target, always, ever>>
        /\ pc[r] \in InFlight /\ pc'[r] \in InFlight
        /\ \A q \in Requests : q # r => pc'[q] = pc[q] /\ files'[q] = files[q]
    BY <1>1, <1>6 DEF Metadata, CacheMiss, OpenDir, fsVars, InFlight, TypeOK
  <2>2. QED BY <1>1, <2>1, StepStutters
<1>7. ASSUME NEW r \in Requests, NEW n \in Names, ReadEntry(r, n)
      PROVE  UNCHANGED Promise!vars
  <2>1. /\ UNCHANGED <<names, target, always, ever, pc>>
        /\ \A q \in Requests : pc[q] = "served" => files'[q] = files[q]
    BY <1>1, <1>7 DEF ReadEntry, fsVars, TypeOK
  <2>2. QED BY <1>1, <2>1, StepStutters
<1>8. ASSUME NEW r \in Requests, CacheHit(r) \/ Insert(r) PROVE Promise!Next
  BY <1>1, <1>8, ServeRefines DEF Promise!Next
<1>9. ASSUME NEW r \in Requests, Fail(r) PROVE Promise!Next
  BY <1>1, <1>9, FailRefines DEF Promise!Next
<1>10. ASSUME NEW r \in Requests, Respond(r) PROVE Promise!Next
  BY <1>1, <1>10, RespondRefines DEF Promise!Next
<1>11. CASE UNCHANGED vars
  BY <1>1, <1>11, StepStutters DEF vars, fsVars, reqVars
<1>12. QED
  BY <1>2, <1>3, <1>4, <1>5, <1>6, <1>7, <1>8, <1>9, <1>10, <1>11
     DEF Next, Environment, Progress

\* When mtimes tell changes apart, the cache cannot be told from a directory
\* that is listed anew for every request: render_index implements
\* DirectoryListing.
THEOREM Refinement == ASSUME FineTicks PROVE Spec => ImplementsDirectoryListing
<1>1. QED
  BY InitRefines, NextRefines, Inductive, PTL
     DEF Spec, ImplementsDirectoryListing, Promise!Spec
===============================================================================
