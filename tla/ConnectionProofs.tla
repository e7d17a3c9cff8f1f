--------------------------- MODULE ConnectionProofs ---------------------------
(***************************************************************************)
(* Proofs about Connection, for any requests, buffers, files and faults.   *)
(*                                                                         *)
(* IndInv is what holds between any two steps.  Its parts say, for each    *)
(* place the task can be in, what has been written, what the questions to  *)
(* the file system have been answered, and how far the copy of the file    *)
(* has come; the properties of Connection follow from them.                *)
(***************************************************************************)
EXTENDS Connection, TLAPS

\* How handle_request ended, or that it has not.
Outcomes ==
  /\ outcome = "running" <=> pc \notin {"error", "done"}
  /\ pc = "error" => outcome = "err"
  /\ outcome = "err" <=> error # 0

\* Before a head can be written, after it, and after the error page.
Unanswered == {"append", "metadata", "head"} \cup Lookup
\* Where the response has begun, and a failure is answered by a second head.
Answered == {"read_at", "write", "shutdown"}
\* 403 and 503 are also what a failed read and a failed shutdown become.
SpoiledBy(s) == s \in {403, 503} /\ blame \cap {"read", "shutdown"} # {}

\* How many heads there are, by where the task is.
HeadsWritten ==
  /\ pc \in Unanswered => heads = <<>>
  /\ pc \in Answered => heads = <<200>>
  /\ pc = "error" => \/ heads = <<>>
                     \/ heads = <<200>> /\ (Broken \/ SpoiledBy(error))
  /\ outcome = "peer_closed" => heads = <<>>
  /\ outcome = "ok" => heads = <<200>> /\ flushed
  /\ pc = "done" /\ outcome = "err" =>
       \/ heads \in {<<>>, <<200>>} /\ Broken
       \/ heads = <<error>>
       \/ heads = <<200, error>> /\ SpoiledBy(error)

\* The request is complete when it is dispatched, and not before.
Incomplete ==
  /\ pc = "append" \/ outcome = "peer_closed" => got < request.length
  /\ outcome = "peer_closed" => peer # "open" \/ got = BufferSize

\* What the checks of the path have seen so far.
Looked ==
  /\ pc \in Lookup => entry \in seen /\ Absent(entry, indexes) \subseteq lacked
  /\ pc = "is_file" => "missing" \in seen \/ "file" \in seen
  /\ pc = "index" => probe >= 1 /\ "dir" \in seen /\ 1..(probe - 1) \subseteq lacked

\* How far the file has been copied.
Copied ==
  /\ pc \in Unanswered => body = <<>> /\ pos = 0
  /\ pc \in {"append"} \cup Lookup => opened = "none"
  /\ pc = "write" => pos < length
  /\ pc \in {"head", "read_at", "write"} =>
       /\ "grown" \notin blame => size <= length
       /\ blame = {} => size = length
  /\ pc = "read_at" /\ "grown" \notin blame => pos <= length
  /\ pc = "write" /\ "grown" \notin blame => pos + chunk <= length
  /\ pc \in {"read_at", "write"} =>
       /\ \A i \in DOMAIN body : body[i] < pos
       /\ "short" \notin blame => Len(body) = pos

\* What a whole file needs: the body has come as far as the position.
CopiedWhole ==
  ReadSize > 0 /\ (pc = "shutdown" \/ outcome = "ok") =>
    (opened = "file" /\ blame = {} => Len(body) = length)

\* The inductive invariant.
IndInv ==
  /\ TypeOK /\ Outcomes /\ HeadsWritten /\ Incomplete /\ Looked /\ Copied
  /\ RefusalJustified /\ BodyInOrder /\ CopiedWhole
-------------------------------------------------------------------------------
(* Lemmas on sequences.                                                     *)

\* Sequences are equal when their elements are.
LEMMA SameSequence ==
  ASSUME NEW S, NEW a \in Seq(S), NEW b \in Seq(S), Len(a) = Len(b),
         \A i \in 1..Len(a) : a[i] = b[i]
  PROVE  a = b
OBVIOUS

\* A sequence followed by n consecutive numbers from p on.
LEMMA FollowedBy ==
  ASSUME NEW b \in Seq(Nat), NEW n \in Nat, NEW p \in Nat
  PROVE  LET c == b \o [i \in 1..n |-> p + i - 1] IN
         /\ Len(c) = Len(b) + n
         /\ DOMAIN c = 1..(Len(b) + n)
         /\ \A i \in 1..Len(b) : c[i] = b[i]
         /\ \A i \in (Len(b) + 1)..(Len(b) + n) : c[i] = p + (i - Len(b)) - 1
<1> DEFINE d == [i \in 1..n |-> p + i - 1]
<1>1. \A i \in 1..n : p + i - 1 \in Nat
  OBVIOUS
<1>2. d \in Seq(Nat) /\ Len(d) = n
  BY <1>1
<1>3. \A i \in 1..n : d[i] = p + i - 1
  OBVIOUS
<1> HIDE DEF d
<1>4. QED BY <1>2, <1>3 DEF d

\* A second head after the first.
LEMMA AppendToOne ==
  ASSUME NEW x \in Nat, NEW y \in Nat
  PROVE  Append(<<x>>, y) = <<x, y>>
<1> DEFINE a == Append(<<x>>, y)
           b == <<x, y>>
<1>1. a \in Seq(Nat) /\ Len(a) = 2 /\ a[1] = x /\ a[2] = y
  OBVIOUS
<1>2. b \in Seq(Nat)
  OBVIOUS
<1>3. Len(b) = 2 /\ b[1] = x /\ b[2] = y
  OBVIOUS
<1> HIDE DEF a, b
<1>4. \A i \in 1..Len(a) : a[i] = b[i]
  BY <1>1, <1>3
<1>5. a = b
  BY <1>1, <1>2, <1>3, <1>4, SameSequence
<1>6. QED BY <1>5 DEF a, b

-------------------------------------------------------------------------------
(* TypeOK is inductive once it is known that an error has a status and that *)
(* a chunk is only written below the announced length.                      *)

\* A request has the fields the cfg gives it.
LEMMA RequestType ==
  ASSUME TypeOK
  PROVE  /\ request.method \in {"GET", "other", "malformed"}
         /\ request.route \in {"none", "unsafe", "found"}
         /\ request.length \in Nat \ {0} /\ request.next \in Nat
         /\ request.indexes \in Nat /\ request.autoindex \in BOOLEAN
BY RequestsAssumption DEF TypeOK

\* The status that each error thrown comes with.
Thrown(s) == pc' = "error" /\ error' = s /\ outcome' = "err"

\* Every error has a status.
LEMMA ThrownStatus ==
  /\ Throw("RequestParse") => Thrown(400)
  /\ Throw("Forbidden") => Thrown(403)
  /\ Throw("NotFound") => Thrown(404)
  /\ Throw("MethodNotAllowed") => Thrown(405)
  /\ Throw("Internal") => Thrown(500)
  /\ Throw("Io") => Thrown(503)
  /\ Throw(From["other"]) => Thrown(503)
  /\ Throw(From["PermissionDenied"]) => Thrown(403)
<1>1. /\ status_code["RequestParse"] = 400 /\ status_code["Forbidden"] = 403
      /\ status_code["NotFound"] = 404 /\ status_code["MethodNotAllowed"] = 405
      /\ status_code["Internal"] = 500 /\ status_code["Io"] = 503
  BY DEF status_code
<1>2. From["other"] = "Io" /\ From["PermissionDenied"] = "Forbidden"
  BY DEF From
<1>3. QED BY <1>1, <1>2 DEF Throw, Thrown

\* A request is read on, refused, or has a location that looks for its file.
LEMMA DispatchOutcome ==
  ASSUME TypeOK, NEW n \in Nat, Dispatch(n)
  PROVE  \/ n < request.length /\ pc' = "append" /\ UNCHANGED endVars
         \/ /\ n >= request.length
            /\ \E s \in {400, 404, 405, 500} : Thrown(s) /\ (s = 404 => request.route = "none")
         \/ n >= request.length /\ pc' = "is_dir" /\ UNCHANGED endVars
<1>1. CASE n < request.length /\ GoTo("append")
  BY <1>1 DEF GoTo
<1>2. CASE n >= request.length /\ Throw("RequestParse")
  BY <1>2, ThrownStatus
<1>3. CASE n >= request.length /\ Throw("MethodNotAllowed")
  BY <1>3, ThrownStatus
<1>4. CASE n >= request.length /\ request.route = "none" /\ Throw("NotFound")
  BY <1>4, ThrownStatus
<1>5. CASE n >= request.length /\ request.route = "unsafe" /\ Throw("Internal")
  BY <1>5, ThrownStatus
<1>6. CASE n >= request.length /\ GoTo("is_dir")
  BY <1>6 DEF GoTo
<1>7. QED BY <1>1, <1>2, <1>3, <1>4, <1>5, <1>6 DEF Dispatch

\* Writing a head, or failing to, keeps the types of what is written.
LEMMA WrittenTypes ==
  ASSUME TypeOK, NEW s \in Statuses, WriteHead(s) \/ WriteFails
  PROVE  /\ heads' \in Seq(Statuses) /\ body' \in Seq(Nat) /\ flushed' \in BOOLEAN
         /\ flushed' \/ Tls
         /\ blame' \subseteq AllFaults \cup {"shrunk", "grown"}
<1>1. CASE WriteHead(s)
  BY <1>1, SizesAssumption DEF WriteHead, TypeOK
<1>2. CASE WriteFails
  BY <1>2 DEF WriteFails, replyVars, TypeOK, AllFaults
<1>3. QED BY <1>1, <1>2

\* Where an error, or none, leaves the task, and the types of what it returns.
LEMMA ThrownTypes ==
  ASSUME NEW s \in Statuses \ {200}, Thrown(s)
  PROVE  /\ pc' = "error"
         /\ error' \in (Statuses \ {200}) \cup {0}
         /\ outcome' \in {"running", "peer_closed", "ok", "err"}
BY DEF Thrown

\* Going on to a place of the code keeps the types.
LEMMA WentTypes ==
  ASSUME TypeOK, NEW l, GoTo(l)
  PROVE  /\ pc' = l
         /\ error' \in (Statuses \ {200}) \cup {0}
         /\ outcome' \in {"running", "peer_closed", "ok", "err"}
BY DEF GoTo, endVars, TypeOK

\* A step that may throw goes on or to the error page.
LEMMA WentOrThrown ==
  ASSUME TypeOK, NEW l, NEW s \in {400, 403, 404, 405, 500, 503}, GoTo(l) \/ Thrown(s)
  PROVE  /\ pc' \in {l, "error"}
         /\ error' \in (Statuses \ {200}) \cup {0}
         /\ outcome' \in {"running", "peer_closed", "ok", "err"}
<1>1. s \in Statuses \ {200}
  BY DEF Statuses
<1>2. CASE GoTo(l)
  BY <1>2, WentTypes
<1>3. CASE Thrown(s)
  BY <1>1, <1>3, ThrownTypes
<1>4. QED BY <1>2, <1>3

\* So does the dispatch on the location.
LEMMA DispatchTypes ==
  ASSUME TypeOK, NEW n \in Nat, Dispatch(n)
  PROVE  /\ pc' \in {"append", "error", "is_dir"}
         /\ error' \in (Statuses \ {200}) \cup {0}
         /\ outcome' \in {"running", "peer_closed", "ok", "err"}
<1>1. \/ pc' \in {"append", "is_dir"} /\ UNCHANGED endVars
      \/ \E s \in {400, 404, 405, 500} : Thrown(s)
  BY DispatchOutcome
<1>2. CASE pc' \in {"append", "is_dir"} /\ UNCHANGED endVars
  BY <1>2 DEF endVars, TypeOK
<1>3. CASE \E s \in {400, 404, 405, 500} : Thrown(s)
  <2>1. PICK s \in {400, 404, 405, 500} : Thrown(s)
    BY <1>3
  <2>2. s \in Statuses \ {200}
    BY DEF Statuses
  <2>3. QED BY <2>1, <2>2, ThrownTypes
<1>4. QED BY <1>1, <1>2, <1>3

\* The initial states have the types.
LEMMA InitTypeOK == Init => TypeOK
<1> SUFFICES ASSUME Init PROVE TypeOK
  OBVIOUS
<1>1. request.length \in Nat /\ request.next \in Nat /\ request.indexes \in Nat
  BY RequestsAssumption DEF Init
<1>2. QED
  BY <1>1, SizesAssumption DEF Init, TypeOK, Kinds, IndexFiles, Statuses

\* Every step keeps the types, given how the file was copied.
LEMMA NextTypeOK == TypeOK /\ Outcomes /\ Copied /\ [Next]_vars => TypeOK'
<1> SUFFICES ASSUME TypeOK, Outcomes, Copied, [Next]_vars PROVE TypeOK'
  OBVIOUS
<1> USE SizesAssumption DEF TypeOK, IndexFiles
<1> request.length \in Nat /\ request.next \in Nat /\ request.indexes \in Nat
  BY RequestType
<1>1. ASSUME NEW n \in 1..unsent, Send(n) PROVE TypeOK'
  BY <1>1 DEF Send, fsVars, fileVars, replyVars, endVars, histVars
<1>2. CASE Close
  BY <1>2 DEF Close, fsVars, fileVars, replyVars, endVars, histVars
<1>3. CASE Reset
  BY <1>3 DEF Reset, AllFaults, fsVars, fileVars, replyVars, endVars
<1>4. ASSUME NEW k \in Kinds, ChangeEntry(k) PROVE TypeOK'
  <2>1. seen' \subseteq Kinds /\ lacked' \subseteq IndexFiles
    BY <1>4 DEF ChangeEntry, Absent
  <2>2. QED
    BY <1>4, <2>1 DEF ChangeEntry, Change, clientVars, fileVars, replyVars, endVars
<1>5. ASSUME NEW i \in IndexFiles, ChangeIndex(i) PROVE TypeOK'
  <2>1. indexes' \subseteq IndexFiles /\ lacked' \subseteq IndexFiles
    BY <1>5 DEF ChangeIndex, Absent
  <2>2. changes' \in 0..MaxChanges
    BY <1>5 DEF ChangeIndex, Change
  <2>3. UNCHANGED <<request, clientVars, entry, size, pc, got, fileVars, replyVars,
                    endVars, blame, seen>>
    BY <1>5 DEF ChangeIndex
  <2>4. QED
    BY <2>1, <2>2, <2>3 DEF clientVars, fileVars, replyVars, endVars
<1>6. ASSUME NEW n \in 0..MaxSize, Resize(n) PROVE TypeOK'
  BY <1>6 DEF Resize, Change, clientVars, fileVars, replyVars, endVars
<1>7. ASSUME NEW n \in 1..pending, Read(n) PROVE TypeOK'
  <2>1. got + n \in Nat /\ Dispatch(got + n)
    BY <1>7 DEF Read
  <2>2. /\ pc' \in {"append", "error", "is_dir"}
        /\ error' \in (Statuses \ {200}) \cup {0}
        /\ outcome' \in {"running", "peer_closed", "ok", "err"}
    BY <2>1, DispatchTypes
  <2>3. QED
    BY <1>7, <2>2 DEF Read, Absent, Lookup, fsVars, fileVars, replyVars
<1>8. CASE ReadNothing
  BY <1>8 DEF ReadNothing, Return, clientVars, fsVars, fileVars, replyVars, histVars
<1>9. CASE ReadError
  <2>1. Thrown(503) /\ 503 \in Statuses \ {200}
    BY <1>9, ThrownStatus DEF ReadError, Statuses
  <2>2. /\ pc' = "error"
        /\ error' \in (Statuses \ {200}) \cup {0}
        /\ outcome' \in {"running", "peer_closed", "ok", "err"}
    BY <2>1, ThrownTypes
  <2>3. blame' \subseteq AllFaults \cup {"shrunk", "grown"}
    BY <1>9 DEF ReadError, Fault, AllFaults
  <2>4. QED
    BY <1>9, <2>2, <2>3 DEF ReadError, clientVars, fsVars, fileVars, replyVars
<1>10. CASE IsDir
  <2>1. pc' \in {"index", "is_file"} /\ UNCHANGED endVars
    BY <1>10 DEF IsDir, GoTo
  <2>2. probe' \in 0..(request.indexes + 1)
    BY <1>10 DEF IsDir
  <2>3. QED
    BY <1>10, <2>1, <2>2 DEF IsDir, Lookup, clientVars, fsVars, endVars, replyVars, histVars
<1>11. CASE IsFile
  <2>1. GoTo("open") \/ Thrown(404)
    BY <1>11, ThrownStatus DEF IsFile
  <2>2. /\ pc' \in {"open", "error"}
        /\ error' \in (Statuses \ {200}) \cup {0}
        /\ outcome' \in {"running", "peer_closed", "ok", "err"}
    BY <2>1, WentOrThrown
  <2>3. QED
    BY <1>11, <2>2 DEF IsFile, Lookup, clientVars, fsVars, fileVars, replyVars, histVars
<1>12. CASE TryIndex
  <2>1. \/ GoTo("open") /\ probe' = probe
        \/ GoTo("index") /\ probe \in IndexFiles /\ probe' = probe + 1
    BY <1>12 DEF TryIndex
  <2>2. /\ pc' \in {"open", "index"} /\ UNCHANGED endVars
        /\ probe' \in 0..(request.indexes + 1)
    <3>1. CASE GoTo("open") /\ probe' = probe
      BY <3>1 DEF GoTo
    <3>2. CASE GoTo("index") /\ probe \in IndexFiles /\ probe' = probe + 1
      BY <3>2 DEF GoTo
    <3>3. QED BY <2>1, <3>1, <3>2
  <2>3. QED
    BY <1>12, <2>2 DEF TryIndex, Lookup, clientVars, fsVars, endVars, replyVars, histVars
<1>13. CASE NoIndex
  <2>1. GoTo("listing") \/ Thrown(403)
    BY <1>13, ThrownStatus DEF NoIndex
  <2>2. /\ pc' \in {"listing", "error"}
        /\ error' \in (Statuses \ {200}) \cup {0}
        /\ outcome' \in {"running", "peer_closed", "ok", "err"}
    BY <2>1, WentOrThrown
  <2>3. QED
    BY <1>13, <2>2 DEF NoIndex, Lookup, clientVars, fsVars, fileVars, replyVars, histVars
<1>14. CASE SendListing
  <2>1. \/ WriteHead(200) /\ GoTo("shutdown")
        \/ WriteFails /\ Thrown(503)
    BY <1>14, ThrownStatus DEF SendListing
  <2>2. /\ heads' \in Seq(Statuses) /\ body' \in Seq(Nat) /\ flushed' \in BOOLEAN
        /\ flushed' \/ Tls
        /\ blame' \subseteq AllFaults \cup {"shrunk", "grown"}
    BY <2>1, WrittenTypes DEF Statuses
  <2>3. /\ pc' \in {"shutdown", "error", "read_at"}
        /\ error' \in (Statuses \ {200}) \cup {0}
        /\ outcome' \in {"running", "peer_closed", "ok", "err"}
    BY <2>1, WentOrThrown
  <2>4. QED
    BY <1>14, <2>2, <2>3 DEF SendListing, Copying, clientVars, fsVars, fileVars
<1>15. CASE Open
  BY <1>15 DEF Open, Target, GoTo, Copying, Kinds, clientVars, fsVars, endVars, replyVars, histVars
<1>16. CASE OpenError
  BY <1>16, ThrownStatus DEF OpenError, Fault, Thrown, Statuses, clientVars, fsVars, endVars, fileVars, replyVars
<1>17. ASSUME NEW n \in 0..MaxSize, Metadata(n) PROVE TypeOK'
  BY <1>17 DEF Metadata, GoTo, Copying, clientVars, endVars, replyVars, histVars
<1>18. CASE SendHead
  <2>1. \/ WriteHead(200) /\ GoTo("read_at")
        \/ WriteFails /\ Thrown(503)
    BY <1>18, ThrownStatus DEF SendHead
  <2>2. /\ heads' \in Seq(Statuses) /\ body' \in Seq(Nat) /\ flushed' \in BOOLEAN
        /\ flushed' \/ Tls
        /\ blame' \subseteq AllFaults \cup {"shrunk", "grown"}
    BY <2>1, WrittenTypes DEF Statuses
  <2>3. /\ pc' \in {"shutdown", "error", "read_at"}
        /\ error' \in (Statuses \ {200}) \cup {0}
        /\ outcome' \in {"running", "peer_closed", "ok", "err"}
    BY <2>1, WentOrThrown
  <2>4. QED
    BY <1>18, <2>2, <2>3 DEF SendHead, Copying, clientVars, fsVars, fileVars
<1>19. ASSUME NEW n \in 1..ReadSize, ReadAt(n) PROVE TypeOK'
  BY <1>19 DEF ReadAt, GoTo, Copying, clientVars, fsVars, endVars, replyVars, histVars
<1>20. CASE EndOfFile
  BY <1>20 DEF EndOfFile, GoTo, clientVars, fsVars, endVars, fileVars, replyVars, histVars
<1>21. CASE ReadAtError
  <2>1. Thrown(403) \/ Thrown(503)
    BY <1>21, ThrownStatus DEF ReadAtError
  <2>2. /\ pc' = "error"
        /\ error' \in (Statuses \ {200}) \cup {0}
        /\ outcome' \in {"running", "peer_closed", "ok", "err"}
    <3>1. {403, 503} \subseteq Statuses \ {200}
      BY DEF Statuses
    <3>2. QED BY <2>1, <3>1, ThrownTypes
  <2>3. blame' \subseteq AllFaults \cup {"shrunk", "grown"}
    BY <1>21 DEF ReadAtError, Fault, AllFaults
  <2>4. QED
    BY <1>21, <2>2, <2>3 DEF ReadAtError, clientVars, fsVars, fileVars, replyVars
<1>22. ASSUME NEW n \in 0..chunk, Write(n) PROVE TypeOK'
  <2>1. /\ pc' = "read_at" /\ UNCHANGED endVars /\ body' \in Seq(Nat)
        /\ pos' \in Nat /\ flushed' \in BOOLEAN /\ (flushed' \/ Tls)
    BY <1>22 DEF Write, GoTo
  <2>4. pos' \in 0..(MaxSize + ReadSize)
    BY <1>22 DEF Write, Copied
  <2>2. blame' \subseteq AllFaults \cup {"shrunk", "grown"}
    BY <1>22 DEF Write, Fault, AllFaults
  <2>3. QED
    BY <1>22, <2>1, <2>2, <2>4 DEF Write, Copying, clientVars, fsVars, endVars
<1>23. CASE WriteError
  BY <1>23, ThrownStatus DEF WriteError, WriteFails, Thrown, Statuses, AllFaults, clientVars, fsVars, endVars, fileVars, replyVars
<1>24. CASE Shutdown
  BY <1>24 DEF Shutdown, Return, clientVars, fsVars, fileVars, histVars
<1>25. CASE ShutdownError
  BY <1>25, ThrownStatus DEF ShutdownError, Fault, Thrown, Statuses, clientVars, fsVars, fileVars, endVars, replyVars
<1>26. CASE SendErrorPage
  <2>1. error \in Statuses /\ (WriteHead(error) \/ WriteFails)
    BY <1>26 DEF SendErrorPage, Outcomes
  <2>2. /\ heads' \in Seq(Statuses) /\ body' \in Seq(Nat) /\ flushed' \in BOOLEAN
        /\ flushed' \/ Tls
        /\ blame' \subseteq AllFaults \cup {"shrunk", "grown"}
    BY <2>1, WrittenTypes
  <2>3. QED
    BY <1>26, <2>2 DEF SendErrorPage, clientVars, fsVars, fileVars, endVars
<1>27. CASE UNCHANGED vars
  BY <1>27 DEF vars, clientVars, fsVars, fileVars, endVars, replyVars, histVars
<1>28. QED
  BY <1>1, <1>2, <1>3, <1>4, <1>5, <1>6, <1>7, <1>8, <1>9, <1>10, <1>11, <1>12,
     <1>13, <1>14, <1>15, <1>16, <1>17, <1>18, <1>19, <1>20, <1>21, <1>22,
     <1>23, <1>24, <1>25, <1>26, <1>27 DEF Next, Client, Others, Task

-------------------------------------------------------------------------------
(* The inductive step, first for the client and the other processes, whose  *)
(* steps the task sees only where it asks.                                   *)

\* It holds initially.
LEMMA InitIndInv == Init => IndInv
<1> SUFFICES ASSUME Init PROVE IndInv
  OBVIOUS
<1>1. TypeOK
  BY InitTypeOK
<1>2. request.length \in Nat \ {0} /\ body = <<>> /\ error = 0 /\ heads = <<>>
  BY <1>1, RequestType DEF Init
<1>3. Outcomes /\ HeadsWritten /\ Incomplete /\ Looked
  BY <1>2 DEF Init, Outcomes, HeadsWritten, Incomplete, Looked, Lookup, Unanswered, Answered
<1>4. Copied /\ RefusalJustified /\ BodyInOrder /\ CopiedWhole
  BY <1>2 DEF Init, Copied, RefusalJustified, BodyInOrder, CopiedWhole, Lookup, Unanswered
<1>5. QED BY <1>1, <1>3, <1>4 DEF IndInv

\* They change nothing the task holds, history only grows, and nothing happens
\* to a connection that is over.
LEMMA QuietStep ==
  ASSUME Client \/ Others \/ UNCHANGED vars
  PROVE  /\ UNCHANGED <<request, pc, got, fileVars, replyVars, endVars>>
         /\ blame \subseteq blame' /\ seen \subseteq seen' /\ lacked \subseteq lacked'
         /\ pc = "done" => UNCHANGED peer
<1> USE DEF endVars, histVars, clientVars, fsVars, fileVars, replyVars
<1>1. CASE \E n \in 1..unsent : Send(n)
  BY <1>1 DEF Send
<1>2. CASE Close
  BY <1>2 DEF Close
<1>3. CASE Reset
  BY <1>3 DEF Reset
<1>4. CASE \E k \in Kinds : ChangeEntry(k)
  BY <1>4 DEF ChangeEntry, Change
<1>5. CASE \E i \in IndexFiles : ChangeIndex(i)
  BY <1>5 DEF ChangeIndex, Change
<1>6. CASE \E n \in 0..MaxSize : Resize(n)
  BY <1>6 DEF Resize, Change
<1>7. CASE UNCHANGED vars
  BY <1>7 DEF vars
<1>8. QED BY <1>1, <1>2, <1>3, <1>4, <1>5, <1>6, <1>7 DEF Client, Others

\* The client and the other processes keep the invariant, and so does a stutter.
LEMMA QuietIndInv ==
  ASSUME IndInv, Client \/ Others \/ UNCHANGED vars, TypeOK'
  PROVE  IndInv'
<1>1. /\ UNCHANGED <<request, pc, got, fileVars, replyVars, endVars>>
      /\ blame \subseteq blame' /\ seen \subseteq seen' /\ lacked \subseteq lacked'
      /\ pc = "done" => UNCHANGED peer
  BY QuietStep
<1> USE DEF endVars, fileVars, replyVars
<1>2. Outcomes'
  BY <1>1 DEF IndInv, Outcomes
<1>3. HeadsWritten'
  BY <1>1 DEF IndInv, HeadsWritten, Broken, SpoiledBy, Unanswered, Answered
<1>4. Incomplete'
  BY <1>1 DEF IndInv, Incomplete, Outcomes
<1>5. Looked'
  <2>1. CASE \E k \in Kinds : ChangeEntry(k)
    BY <2>1, <1>1 DEF ChangeEntry, Absent, IndInv, Looked, IndexFiles, Lookup
  <2>2. CASE \E i \in IndexFiles : ChangeIndex(i)
    BY <2>2, <1>1 DEF ChangeIndex, Absent, IndInv, Looked, IndexFiles, Lookup
  <2>3. CASE UNCHANGED <<entry, indexes>>
    BY <2>3, <1>1 DEF IndInv, Looked, Absent, IndexFiles, Lookup
  <2>4. QED
    BY <2>1, <2>2, <2>3 DEF Client, Others, Send, Close, Reset, Resize, vars, fsVars
<1>6. Copied'
  <2>1. CASE \E n \in 0..MaxSize : Resize(n)
    <3>1. PICK n \in 0..MaxSize :
            /\ size' = n /\ pc \in {"head", "read_at", "write"}
            /\ blame' = blame \cup {IF n < size THEN "shrunk" ELSE "grown"}
      BY <2>1 DEF Resize
    <3>2. blame' # {} /\ ("grown" \notin blame' => "grown" \notin blame /\ size' < size)
      BY <3>1
    <3>3. size \in Nat /\ size' \in Nat /\ length \in Nat
      BY <3>1, SizesAssumption DEF IndInv, TypeOK
    <3>4. QED
      BY <3>2, <3>3, <1>1 DEF IndInv, Copied, Unanswered, Lookup
  <2>2. CASE UNCHANGED size
    BY <2>2, <1>1 DEF IndInv, Copied, Unanswered, Lookup
  <2>3. QED
    BY <2>1, <2>2 DEF Client, Others, Send, Close, Reset, ChangeEntry, ChangeIndex, vars, fsVars
<1>7. RefusalJustified'
  <2>1. lacked = IndexFiles => lacked' = IndexFiles'
    BY <1>1 DEF IndexFiles, TypeOK
  <2>2. QED
    BY <1>1, <2>1 DEF IndInv, RefusalJustified
<1>8. BodyInOrder' /\ CopiedWhole'
  BY <1>1 DEF IndInv, BodyInOrder, CopiedWhole
<1>9. QED
  BY <1>2, <1>3, <1>4, <1>5, <1>6, <1>7, <1>8 DEF IndInv

-------------------------------------------------------------------------------
(* The inductive step for the task: reading the request.                    *)

\* A dispatched request has what is at its path seen at once.
LEMMA ReadIndInv ==
  ASSUME IndInv, NEW n \in 1..pending, Read(n), TypeOK'
  PROVE  IndInv'
<1> USE DEF fileVars, replyVars, endVars, fsVars
<1>1. /\ pc = "append" /\ outcome = "running" /\ error = 0
      /\ heads = <<>> /\ body = <<>> /\ opened = "none" /\ pos = 0
  BY DEF Read, IndInv, Outcomes, HeadsWritten, Copied, Unanswered, TypeOK
<1>2. /\ UNCHANGED <<request, fsVars, fileVars, replyVars, blame>> /\ got' = got + n
      /\ seen' = IF pc' = "is_dir" THEN {entry} ELSE {}
      /\ lacked' = IF pc' = "is_dir" THEN Absent(entry, indexes) ELSE {}
  BY DEF Read
<1>3. \/ got' < request.length /\ pc' = "append" /\ UNCHANGED endVars
      \/ \E s \in {400, 404, 405, 500} : Thrown(s) /\ (s = 404 => request.route = "none")
      \/ pc' = "is_dir" /\ UNCHANGED endVars
  <2>1. got + n \in Nat /\ Dispatch(got + n)
    BY DEF Read, IndInv, TypeOK
  <2>2. QED BY <2>1, <1>2, DispatchOutcome DEF IndInv
<1>4. Outcomes' /\ HeadsWritten' /\ Incomplete'
  BY <1>1, <1>2, <1>3 DEF Thrown, Outcomes, HeadsWritten, Incomplete, Unanswered,
                          Answered, Lookup
<1>5. Looked'
  BY <1>2, <1>3 DEF Thrown, Looked, Absent, IndexFiles, Lookup
<1>6. Copied' /\ CopiedWhole'
  BY <1>1, <1>2, <1>3 DEF Thrown, Copied, CopiedWhole, Unanswered, Lookup
<1>7. RefusalJustified'
  BY <1>1, <1>2, <1>3 DEF Thrown, RefusalJustified
<1>8. BodyInOrder'
  BY <1>1, <1>2 DEF BodyInOrder
<1>9. QED
  BY <1>4, <1>5, <1>6, <1>7, <1>8 DEF IndInv

\* ReadNothing keeps the invariant.
LEMMA ReadNothingIndInv ==
  ASSUME IndInv, ReadNothing, TypeOK'
  PROVE  IndInv'
<1> USE DEF fileVars, replyVars, fsVars, clientVars, histVars
<1>1. /\ pc = "append" /\ outcome = "running" /\ error = 0
      /\ heads = <<>> /\ opened = "none" /\ got < request.length
  BY DEF ReadNothing, IndInv, Outcomes, HeadsWritten, Copied, Incomplete, Unanswered, TypeOK
<1>2. /\ pc' = "done" /\ outcome' = "peer_closed" /\ error' = 0
      /\ peer = "closed" \/ got = BufferSize
      /\ UNCHANGED <<request, clientVars, fsVars, got, fileVars, replyVars, histVars>>
  BY <1>1 DEF ReadNothing, Return
<1>3. Outcomes' /\ HeadsWritten' /\ Incomplete'
  BY <1>1, <1>2 DEF Outcomes, HeadsWritten, Incomplete, Unanswered, Answered, Lookup
<1>4. Looked' /\ Copied' /\ CopiedWhole'
  BY <1>1, <1>2 DEF Looked, Copied, CopiedWhole, Unanswered, Lookup
<1>5. RefusalJustified' /\ BodyInOrder'
  BY <1>1, <1>2 DEF IndInv, RefusalJustified, BodyInOrder
<1>6. QED
  BY <1>3, <1>4, <1>5 DEF IndInv

\* A task that has written nothing and throws an error other than 404 and 403.
LEMMA ThrowUnanswered ==
  ASSUME IndInv, TypeOK', pc \in Unanswered, Thrown(503), blame \subseteq blame',
         UNCHANGED <<request, peer, got, body, heads, length, seen, lacked>>
  PROVE  IndInv'
<1>1. heads = <<>> /\ body = <<>>
  BY DEF IndInv, HeadsWritten, Copied
<1>2. Outcomes' /\ HeadsWritten' /\ Incomplete'
  BY <1>1 DEF Thrown, Outcomes, HeadsWritten, Incomplete, Unanswered, Answered, Lookup
<1>3. Looked' /\ Copied' /\ CopiedWhole'
  BY DEF Thrown, Looked, Copied, CopiedWhole, Unanswered, Lookup
<1>4. RefusalJustified' /\ BodyInOrder'
  BY <1>1 DEF Thrown, RefusalJustified, BodyInOrder
<1>5. QED
  BY <1>2, <1>3, <1>4 DEF IndInv

\* ReadError keeps the invariant.
LEMMA ReadErrorIndInv ==
  ASSUME IndInv, ReadError, TypeOK'
  PROVE  IndInv'
<1>1. pc \in Unanswered /\ Thrown(503) /\ blame \subseteq blame'
  BY ThrownStatus DEF ReadError, Fault, Unanswered
<1>2. QED
  BY <1>1, ThrowUnanswered DEF ReadError, clientVars, fileVars, replyVars

-------------------------------------------------------------------------------
(* Finding the file.                                                        *)

\* A task that looks for its file goes on to another question.
LEMMA LookOn ==
  ASSUME IndInv, TypeOK', pc \in Lookup, pc' \in Lookup, UNCHANGED endVars,
         UNCHANGED <<request, clientVars, fsVars, got, opened, length, pos, chunk,
                     replyVars, histVars>>,
         Looked',
         pc' = "listing" => "dir" \in seen /\ request.autoindex /\ lacked = IndexFiles
  PROVE  IndInv'
<1> USE DEF endVars, clientVars, fsVars, replyVars, histVars
<1>1. Outcomes' /\ HeadsWritten' /\ Incomplete'
  BY DEF IndInv, Outcomes, HeadsWritten, Incomplete, Unanswered, Answered, Lookup
<1>2. Copied' /\ CopiedWhole'
  BY DEF IndInv, Outcomes, Copied, CopiedWhole, Unanswered, Lookup
<1>3. RefusalJustified' /\ BodyInOrder'
  BY DEF IndInv, RefusalJustified, BodyInOrder, IndexFiles
<1>4. QED
  BY <1>1, <1>2, <1>3 DEF IndInv

\* It refuses the request, for a reason it has seen.
LEMMA LookRefused ==
  ASSUME IndInv, TypeOK', pc \in Lookup, NEW s \in {403, 404}, Thrown(s),
         UNCHANGED <<request, clientVars, fsVars, got, fileVars, replyVars, histVars>>,
         RefusalJustified'
  PROVE  IndInv'
<1> USE DEF clientVars, fsVars, fileVars, replyVars, histVars
<1>1. heads = <<>> /\ body = <<>> /\ opened = "none"
  BY DEF IndInv, HeadsWritten, Copied, Unanswered
<1>2. Outcomes' /\ HeadsWritten' /\ Incomplete'
  BY <1>1 DEF Thrown, Outcomes, HeadsWritten, Incomplete, Unanswered, Answered, Lookup
<1>3. Looked' /\ Copied' /\ CopiedWhole' /\ BodyInOrder'
  BY <1>1 DEF Thrown, Looked, Copied, CopiedWhole, BodyInOrder, Unanswered, Lookup
<1>4. QED
  BY <1>2, <1>3 DEF IndInv

\* IsDir keeps the invariant.
LEMMA IsDirIndInv ==
  ASSUME IndInv, IsDir, TypeOK'
  PROVE  IndInv'
<1> USE DEF fsVars, histVars, endVars
<1>1. /\ pc = "is_dir" /\ pc' \in {"index", "is_file"} /\ UNCHANGED endVars
      /\ UNCHANGED <<request, clientVars, fsVars, got, opened, length, pos, chunk,
                     replyVars, histVars>>
  BY DEF IsDir, GoTo
<1>2. Looked'
  <2>1. entry \in seen /\ entry \in Kinds /\ Absent(entry, indexes) \subseteq lacked
    BY <1>1 DEF IndInv, Looked, TypeOK, Lookup
  <2>2. CASE entry = "dir"
    BY <2>1, <2>2, <1>1 DEF IsDir, GoTo, Looked, Absent, IndexFiles, Lookup
  <2>3. CASE entry # "dir"
    BY <2>1, <2>3, <1>1 DEF IsDir, GoTo, Looked, Absent, IndexFiles, Lookup, Kinds
  <2>4. QED BY <2>2, <2>3
<1>3. QED
  BY <1>1, <1>2, LookOn DEF Lookup

\* IsFile keeps the invariant.
LEMMA IsFileIndInv ==
  ASSUME IndInv, IsFile, TypeOK'
  PROVE  IndInv'
<1> USE DEF fsVars, fileVars, histVars, endVars
<1>1. /\ pc = "is_file"
      /\ UNCHANGED <<request, clientVars, fsVars, got, fileVars, replyVars, histVars>>
  BY DEF IsFile
<1>2. /\ entry \in seen /\ entry \in Kinds /\ Absent(entry, indexes) \subseteq lacked
      /\ "missing" \in seen \/ "file" \in seen
  BY <1>1 DEF IndInv, Looked, TypeOK, Lookup
<1>3. CASE entry = "file"
  <2>1. pc' = "open" /\ UNCHANGED endVars
    BY <1>3 DEF IsFile, GoTo
  <2>2. Looked'
    BY <1>1, <1>2, <2>1 DEF Looked, Absent, IndexFiles, Lookup
  <2>3. QED BY <1>1, <2>1, <2>2, LookOn DEF Lookup
<1>4. CASE entry # "file"
  <2>1. Thrown(404)
    BY <1>4, ThrownStatus DEF IsFile
  <2>2. RefusalJustified'
    BY <1>1, <1>2, <1>4, <2>1 DEF RefusalJustified, Thrown, Kinds
  <2>3. QED BY <1>1, <2>1, <2>2, LookRefused DEF Lookup
<1>5. QED BY <1>3, <1>4

\* An index file that is not there is lacked.
LEMMA TryIndexIndInv ==
  ASSUME IndInv, TryIndex, TypeOK'
  PROVE  IndInv'
<1> USE DEF fsVars, histVars, endVars
<1>1. /\ pc = "index" /\ pc' \in {"index", "open"} /\ UNCHANGED endVars
      /\ UNCHANGED <<request, clientVars, fsVars, got, opened, length, pos, chunk,
                     replyVars, histVars>>
  BY DEF TryIndex, GoTo
<1>2. /\ entry \in seen /\ Absent(entry, indexes) \subseteq lacked
      /\ probe >= 1 /\ "dir" \in seen /\ 1..(probe - 1) \subseteq lacked
  BY <1>1 DEF IndInv, Looked, Lookup
<1>3. Looked'
  <2>1. CASE Exists(probe)
    BY <2>1, <1>1, <1>2 DEF TryIndex, GoTo, Looked, Absent, IndexFiles, Lookup
  <2>2. CASE ~ Exists(probe)
    <3>1. probe \in IndexFiles /\ probe' = probe + 1 /\ pc' = "index"
      BY <2>2 DEF TryIndex, GoTo
    <3>2. probe \in lacked
      BY <3>1, <2>2, <1>2 DEF Exists, Absent
    <3>3. 1..(probe' - 1) \subseteq lacked
      BY <3>1, <3>2, <1>2 DEF IndexFiles
    <3>4. probe' >= 1
      BY <3>1, <1>2 DEF IndexFiles
    <3>5. QED
      BY <3>1, <3>3, <3>4, <1>1, <1>2 DEF Looked, Absent, IndexFiles
  <2>3. QED BY <2>1, <2>2
<1>4. QED
  BY <1>1, <1>3, LookOn DEF Lookup

\* When none is left each has been lacked.
LEMMA NoIndexIndInv ==
  ASSUME IndInv, NoIndex, TypeOK'
  PROVE  IndInv'
<1> USE DEF fsVars, fileVars, histVars, endVars
<1>1. /\ pc = "index"
      /\ UNCHANGED <<request, clientVars, fsVars, got, fileVars, replyVars, histVars>>
  BY DEF NoIndex
<1>2. /\ entry \in seen /\ Absent(entry, indexes) \subseteq lacked
      /\ probe >= 1 /\ "dir" \in seen /\ 1..(probe - 1) \subseteq lacked
  BY <1>1 DEF IndInv, Looked, Lookup
<1>3. lacked = IndexFiles
  <2>1. TypeOK
    BY DEF IndInv
  <2>2. request.indexes \in Nat
    BY <2>1, RequestType
  <2>3. probe \in 0..(request.indexes + 1) /\ lacked \subseteq IndexFiles
    BY <2>1 DEF TypeOK
  <2>4. probe \notin IndexFiles
    BY DEF NoIndex
  <2>5. probe = request.indexes + 1
    BY <2>2, <2>3, <2>4, <1>2 DEF IndexFiles
  <2>6. probe - 1 = request.indexes
    BY <2>2, <2>5
  <2>7. QED BY <2>6, <2>3, <1>2 DEF IndexFiles
<1>4. CASE request.autoindex
  <2>1. pc' = "listing" /\ UNCHANGED endVars
    BY <1>4 DEF NoIndex, GoTo
  <2>2. Looked'
    BY <1>1, <1>2, <2>1 DEF Looked, Absent, IndexFiles, Lookup
  <2>3. QED BY <1>1, <1>2, <1>3, <1>4, <2>1, <2>2, LookOn DEF Lookup
<1>5. CASE ~ request.autoindex
  <2>1. Thrown(403)
    BY <1>5, ThrownStatus DEF NoIndex
  <2>2. RefusalJustified'
    BY <1>1, <1>2, <1>3, <1>5, <2>1 DEF RefusalJustified, Thrown, IndexFiles
  <2>3. QED BY <1>1, <2>1, <2>2, LookRefused DEF Lookup
<1>6. QED BY <1>4, <1>5

\* SendListing keeps the invariant.
LEMMA SendListingIndInv ==
  ASSUME IndInv, SendListing, TypeOK'
  PROVE  IndInv'
<1> USE DEF clientVars, fsVars, fileVars, replyVars, endVars
<1>1. /\ pc = "listing" /\ outcome = "running" /\ error = 0
      /\ heads = <<>> /\ body = <<>> /\ opened = "none"
  BY DEF SendListing, IndInv, Outcomes, HeadsWritten, Copied, Unanswered, Lookup, TypeOK
<1>2. UNCHANGED <<request, clientVars, fsVars, got, fileVars, seen, lacked>>
  BY DEF SendListing
<1>3. CASE WriteHead(200) /\ GoTo("shutdown")
  <2>1. /\ heads' = <<200>> /\ pc' = "shutdown"
        /\ UNCHANGED <<error, outcome, body, blame>>
    BY <1>1, <1>3 DEF WriteHead, GoTo
  <2>2. Outcomes' /\ HeadsWritten' /\ Incomplete'
    BY <1>1, <1>2, <2>1 DEF Outcomes, HeadsWritten, Incomplete, Unanswered, Answered, Lookup
  <2>3. Looked' /\ Copied' /\ CopiedWhole'
    BY <1>1, <1>2, <2>1 DEF Looked, Copied, CopiedWhole, Unanswered, Lookup
  <2>4. RefusalJustified' /\ BodyInOrder'
    BY <1>1, <1>2, <2>1 DEF RefusalJustified, BodyInOrder
  <2>5. QED BY <2>2, <2>3, <2>4 DEF IndInv
<1>4. CASE WriteFails /\ Throw(From["other"])
  BY <1>1, <1>2, <1>4, ThrownStatus, ThrowUnanswered DEF WriteFails, Unanswered, Lookup
<1>5. QED BY <1>3, <1>4 DEF SendListing

-------------------------------------------------------------------------------
(* Sending the file.                                                        *)

\* Open keeps the invariant.
LEMMA OpenIndInv ==
  ASSUME IndInv, Open, TypeOK'
  PROVE  IndInv'
<1> USE DEF clientVars, fsVars, replyVars, endVars, histVars
<1>1. /\ pc = "open" /\ heads = <<>> /\ body = <<>> /\ pos = 0
      /\ outcome = "running" /\ error = 0
  BY DEF Open, IndInv, Outcomes, HeadsWritten, Copied, Unanswered, Lookup, TypeOK
<1>2. /\ pc' = "metadata"
      /\ UNCHANGED <<request, clientVars, fsVars, got, probe, length, pos, chunk,
                     replyVars, endVars, histVars>>
  BY DEF Open, GoTo
<1>3. Outcomes' /\ HeadsWritten' /\ Incomplete'
  BY <1>1, <1>2 DEF Outcomes, HeadsWritten, Incomplete, Unanswered, Answered, Lookup
<1>4. Looked' /\ Copied' /\ CopiedWhole'
  BY <1>1, <1>2 DEF Looked, Copied, CopiedWhole, Unanswered, Lookup
<1>5. RefusalJustified' /\ BodyInOrder'
  BY <1>1, <1>2 DEF RefusalJustified, BodyInOrder
<1>6. QED
  BY <1>3, <1>4, <1>5 DEF IndInv

\* OpenError keeps the invariant.
LEMMA OpenErrorIndInv ==
  ASSUME IndInv, OpenError, TypeOK'
  PROVE  IndInv'
<1>1. pc \in Unanswered /\ Thrown(503) /\ blame \subseteq blame'
  BY ThrownStatus DEF OpenError, Fault, Unanswered, Lookup
<1>2. QED
  BY <1>1, ThrowUnanswered DEF OpenError, clientVars, fileVars, replyVars

\* What is announced is what the file holds.
LEMMA MetadataIndInv ==
  ASSUME IndInv, NEW n \in 0..MaxSize, Metadata(n), TypeOK'
  PROVE  IndInv'
<1> USE DEF clientVars, replyVars, endVars, histVars
<1>1. /\ pc = "metadata" /\ heads = <<>> /\ body = <<>> /\ pos = 0
      /\ outcome = "running" /\ error = 0
  BY DEF Metadata, IndInv, Outcomes, HeadsWritten, Copied, Unanswered, TypeOK
<1>2. /\ pc' = "head" /\ size' = n /\ length' = n
      /\ UNCHANGED <<request, clientVars, got, opened, pos, replyVars, endVars, histVars>>
  BY DEF Metadata, GoTo
<1>3. Outcomes' /\ HeadsWritten' /\ Incomplete'
  BY <1>1, <1>2 DEF Outcomes, HeadsWritten, Incomplete, Unanswered, Answered, Lookup
<1>4. Looked' /\ Copied' /\ CopiedWhole'
  BY <1>1, <1>2 DEF Looked, Copied, CopiedWhole, Unanswered, Lookup
<1>5. RefusalJustified' /\ BodyInOrder'
  BY <1>1, <1>2 DEF RefusalJustified, BodyInOrder
<1>6. QED
  BY <1>3, <1>4, <1>5 DEF IndInv

\* SendHead keeps the invariant.
LEMMA SendHeadIndInv ==
  ASSUME IndInv, SendHead, TypeOK'
  PROVE  IndInv'
<1> USE DEF clientVars, fsVars, fileVars, replyVars, endVars
<1>1. /\ pc = "head" /\ heads = <<>> /\ body = <<>> /\ pos = 0
      /\ outcome = "running" /\ error = 0 /\ length \in Nat
      /\ "grown" \notin blame => size <= length
      /\ blame = {} => size = length
  BY SizesAssumption DEF SendHead, IndInv, Outcomes, HeadsWritten, Copied, Unanswered, TypeOK
<1>2. UNCHANGED <<request, clientVars, fsVars, got, fileVars, seen, lacked>>
  BY DEF SendHead
<1>3. CASE WriteHead(200) /\ GoTo("read_at")
  <2>1. /\ heads' = <<200>> /\ pc' = "read_at"
        /\ UNCHANGED <<error, outcome, body, blame>>
    BY <1>1, <1>3 DEF WriteHead, GoTo
  <2>2. Outcomes' /\ HeadsWritten' /\ Incomplete'
    BY <1>1, <1>2, <2>1 DEF Outcomes, HeadsWritten, Incomplete, Unanswered, Answered, Lookup
  <2>3. Looked' /\ Copied' /\ CopiedWhole'
    BY <1>1, <1>2, <2>1 DEF Looked, Copied, CopiedWhole, Unanswered, Lookup
  <2>4. RefusalJustified' /\ BodyInOrder'
    BY <1>1, <1>2, <2>1 DEF RefusalJustified, BodyInOrder
  <2>5. QED BY <2>2, <2>3, <2>4 DEF IndInv
<1>4. CASE WriteFails /\ Throw(From["other"])
  BY <1>1, <1>2, <1>4, ThrownStatus, ThrowUnanswered DEF WriteFails, Unanswered
<1>5. QED BY <1>3, <1>4 DEF SendHead

\* ReadAt keeps the invariant.
LEMMA ReadAtIndInv ==
  ASSUME IndInv, NEW n \in 1..ReadSize, ReadAt(n), TypeOK'
  PROVE  IndInv'
<1> USE DEF clientVars, fsVars, replyVars, endVars, histVars
<1>1. /\ pc = "read_at" /\ outcome = "running" /\ pos < length /\ pos + n <= size
      /\ pc' = "write" /\ chunk' = n
      /\ UNCHANGED <<request, clientVars, fsVars, got, opened, length, pos,
                     replyVars, endVars, histVars>>
  BY DEF ReadAt, GoTo, IndInv, Outcomes, TypeOK
<1>2. /\ "grown" \notin blame => size <= length
      /\ blame = {} => size = length
      /\ \A i \in DOMAIN body : body[i] < pos
      /\ "short" \notin blame => Len(body) = pos
  BY <1>1 DEF IndInv, Copied
<1>3. Outcomes' /\ HeadsWritten' /\ Incomplete'
  BY <1>1 DEF IndInv, Outcomes, HeadsWritten, Incomplete, Unanswered, Answered, Lookup
<1>4. Looked' /\ CopiedWhole'
  BY <1>1 DEF Looked, CopiedWhole, Lookup
<1>5. Copied'
  <2>1. "grown" \notin blame => pos + n <= length
    <3>1. pos \in Nat /\ size \in Nat /\ length \in Nat /\ n \in Nat
      BY SizesAssumption DEF IndInv, TypeOK
    <3>2. QED BY <3>1, <1>1, <1>2
  <2>2. QED
    BY <1>1, <1>2, <2>1 DEF Copied, Unanswered, Lookup
<1>6. RefusalJustified' /\ BodyInOrder'
  BY <1>1 DEF IndInv, RefusalJustified, BodyInOrder, IndexFiles
<1>7. QED
  BY <1>3, <1>4, <1>5, <1>6 DEF IndInv

\* The end of a file that nothing disturbed is where its head said.
LEMMA EndOfFileIndInv ==
  ASSUME IndInv, EndOfFile, TypeOK'
  PROVE  IndInv'
<1> USE DEF clientVars, fsVars, fileVars, replyVars, endVars, histVars
<1>1. /\ pc = "read_at" /\ outcome = "running" /\ pc' = "shutdown"
      /\ pos >= length \/ (opened = "file" /\ (pos >= size \/ ReadSize = 0))
      /\ UNCHANGED <<request, clientVars, fsVars, got, fileVars, replyVars,
                     endVars, histVars>>
  BY DEF EndOfFile, GoTo, IndInv, Outcomes, TypeOK
<1>2. Outcomes' /\ HeadsWritten' /\ Incomplete'
  BY <1>1 DEF IndInv, Outcomes, HeadsWritten, Incomplete, Unanswered, Answered, Lookup
<1>3. Looked' /\ Copied'
  BY <1>1 DEF Looked, Copied, Unanswered, Lookup
<1>4. CopiedWhole'
  <2>1. ASSUME blame = {}, ReadSize > 0 PROVE Len(body) = length
    <3>1. size = length /\ pos <= length /\ Len(body) = pos
      BY <1>1, <2>1 DEF IndInv, Copied
    <3>2. pos \in Nat /\ length \in Nat /\ ReadSize \in Nat
      BY SizesAssumption DEF IndInv, TypeOK
    <3>3. pos >= length
      BY <3>1, <3>2, <2>1, <1>1
    <3>4. QED BY <3>1, <3>2, <3>3
  <2>2. QED BY <1>1, <2>1 DEF CopiedWhole
<1>5. RefusalJustified' /\ BodyInOrder'
  BY <1>1 DEF IndInv, RefusalJustified, BodyInOrder, IndexFiles
<1>6. QED
  BY <1>2, <1>3, <1>4, <1>5 DEF IndInv

\* ReadAtError keeps the invariant.
LEMMA ReadAtErrorIndInv ==
  ASSUME IndInv, ReadAtError, TypeOK'
  PROVE  IndInv'
<1> USE DEF clientVars, fsVars, fileVars, replyVars, endVars
<1>1. /\ \/ pc = "metadata" /\ heads = <<>>
         \/ pc = "read_at" /\ heads = <<200>>
      /\ blame' = blame \cup {"read"}
      /\ UNCHANGED <<request, clientVars, fsVars, got, fileVars, replyVars, seen, lacked>>
  BY DEF ReadAtError, Fault, IndInv, HeadsWritten, Unanswered, Answered
<1>2. PICK s \in {403, 503} : Thrown(s)
  BY ThrownStatus DEF ReadAtError
<1>3. Outcomes' /\ HeadsWritten' /\ Incomplete'
  BY <1>1, <1>2 DEF Thrown, Outcomes, HeadsWritten, SpoiledBy, Incomplete, Unanswered,
                    Answered, Lookup
<1>4. Looked' /\ Copied' /\ CopiedWhole'
  BY <1>1, <1>2 DEF Thrown, Looked, Copied, CopiedWhole, Unanswered, Lookup
<1>5. RefusalJustified'
  BY <1>1, <1>2 DEF Thrown, RefusalJustified
<1>6. BodyInOrder'
  BY <1>1 DEF IndInv, BodyInOrder
<1>7. QED
  BY <1>3, <1>4, <1>5, <1>6 DEF IndInv

\* The next bytes of the file follow those written.
LEMMA WriteIndInv ==
  ASSUME IndInv, NEW n \in 0..chunk, Write(n), TypeOK'
  PROVE  IndInv'
<1> USE DEF clientVars, fsVars, endVars
<1>1. /\ pc = "write" /\ outcome = "running" /\ heads = <<200>> /\ pc' = "read_at"
      /\ pos' = pos + chunk /\ body' = body \o [i \in 1..n |-> pos + i - 1]
      /\ UNCHANGED <<request, clientVars, fsVars, got, probe, opened, length, chunk,
                     heads, endVars, seen, lacked>>
  BY DEF Write, GoTo, IndInv, Outcomes, HeadsWritten, Unanswered, Answered, TypeOK
<1>2. /\ blame \subseteq blame' /\ ("grown" \in blame' => "grown" \in blame)
      /\ "short" \notin blame' => n = chunk
  BY DEF Write, Fault
<1>3. /\ pos \in Nat /\ chunk \in Nat /\ chunk <= ReadSize /\ ReadSize \in Nat
      /\ length \in Nat /\ size \in Nat /\ n \in Nat /\ n <= chunk
      /\ body \in Seq(Nat)
  BY SizesAssumption DEF IndInv, TypeOK
<1>4. /\ pos < length
      /\ "grown" \notin blame => size <= length /\ pos + chunk <= length
      /\ blame = {} => size = length
      /\ \A i \in DOMAIN body : body[i] < pos
      /\ "short" \notin blame => Len(body) = pos
  BY <1>1 DEF IndInv, Copied
<1> DEFINE old == Len(body)
<1>5. /\ old \in Nat /\ DOMAIN body = 1..old
      /\ \A i \in 1..old : body[i] \in Nat /\ body[i] < pos
  BY <1>3, <1>4
<1>9. /\ Len(body') = old + n /\ DOMAIN body' = 1..(old + n)
      /\ \A i \in 1..old : body'[i] = body[i]
      /\ \A i \in (old + 1)..(old + n) : body'[i] = pos + (i - old) - 1
  BY <1>1, <1>3, FollowedBy
<1>6. Outcomes' /\ HeadsWritten' /\ Incomplete'
  BY <1>1 DEF IndInv, Outcomes, HeadsWritten, Incomplete, Unanswered, Answered, Lookup
<1>7. Looked' /\ CopiedWhole'
  BY <1>1 DEF Looked, CopiedWhole, Lookup
<1>8. RefusalJustified'
  BY <1>1, <1>2 DEF IndInv, RefusalJustified, IndexFiles
<1>10. "short" \notin blame => old = pos
  BY <1>4
<1> HIDE DEF old
<1>11. \A i \in DOMAIN body' :
         \/ i \in 1..old /\ body'[i] = body[i] /\ body'[i] < pos
         \/ /\ i \in (old + 1)..(old + n) /\ i - old \in 1..n
            /\ body'[i] = pos + (i - old) - 1
  <2> TAKE i \in DOMAIN body'
  <2>1. i \in 1..(old + n)
    BY <1>9
  <2>2. CASE i \in 1..old
    BY <2>2, <1>5, <1>9
  <2>3. CASE i \in (old + 1)..(old + n)
    <3>1. i - old \in 1..n
      BY <2>3, <1>3, <1>5
    <3>2. QED BY <2>3, <3>1, <1>9
  <2>4. QED BY <2>1, <2>2, <2>3, <1>3, <1>5
<1>12. Copied'
  <2>1. \A i \in DOMAIN body' : body'[i] < pos'
    <3> TAKE i \in DOMAIN body'
    <3>1. CASE i \in 1..old /\ body'[i] = body[i] /\ body'[i] < pos
      BY <3>1, <1>1, <1>3, <1>5
    <3>2. CASE i - old \in 1..n /\ body'[i] = pos + (i - old) - 1
      BY <3>2, <1>1, <1>3
    <3>3. QED BY <3>1, <3>2, <1>11
  <2>2. "short" \notin blame' => Len(body') = pos'
    BY <1>1, <1>2, <1>9, <1>10
  <2>3. "grown" \notin blame' => size' <= length' /\ pos' <= length'
    BY <1>1, <1>2, <1>4
  <2>4. blame' = {} => size' = length'
    BY <1>1, <1>2, <1>4
  <2>5. QED
    BY <1>1, <2>1, <2>2, <2>3, <2>4 DEF Copied, Unanswered, Lookup
<1>13. BodyInOrder'
  <2>1. /\ \A i, j \in 1..old : i < j => body[i] < body[j]
        /\ "short" \notin blame => \A i \in 1..old : body[i] = i - 1
        /\ \A i \in 1..old :
             body[i] >= length => "grown" \in blame /\ body[i] < length + ReadSize - 1
    BY <1>5 DEF IndInv, BodyInOrder
  <2>2. ASSUME NEW i \in DOMAIN body', NEW j \in DOMAIN body', i < j
        PROVE  body'[i] < body'[j]
    <3>1. CASE j \in 1..old
      <4>1. i \in 1..old
        BY <3>1, <2>2, <1>3, <1>5, <1>9
      <4>2. QED BY <3>1, <4>1, <2>1, <2>2, <1>9
    <3>2. CASE i \in 1..old /\ body'[i] < pos /\ j - old \in 1..n /\ body'[j] = pos + (j - old) - 1
      <4>1. body'[i] \in Nat
        BY <3>2, <1>5, <1>9
      <4>2. body'[j] >= pos
        BY <3>2, <1>3, <1>5
      <4>3. QED BY <3>2, <4>1, <4>2, <1>3
    <3>3. CASE i - old \in 1..n /\ j - old \in 1..n
      BY <3>3, <2>2, <1>3, <1>5, <1>9, <1>11
    <3>4. QED BY <3>1, <3>2, <3>3, <1>11
  <2>3. ASSUME "short" \notin blame', NEW i \in DOMAIN body' PROVE body'[i] = i - 1
    <3>1. "short" \notin blame /\ old = pos
      BY <2>3, <1>2, <1>10
    <3>2. CASE i \in 1..old
      BY <3>1, <3>2, <2>1, <1>9
    <3>3. CASE i - old \in 1..n /\ body'[i] = pos + (i - old) - 1
      BY <3>1, <3>3, <1>3, <1>5, <1>9
    <3>4. QED BY <3>2, <3>3, <1>11
  <2>4. ASSUME NEW i \in DOMAIN body', body'[i] >= length
        PROVE  "grown" \in blame' /\ body'[i] < length + ReadSize - 1
    <3>1. CASE i \in 1..old
      BY <3>1, <2>4, <2>1, <1>2, <1>9
    <3>2. CASE i - old \in 1..n /\ body'[i] = pos + (i - old) - 1
      <4>1. body'[i] < length + ReadSize - 1 /\ ~ (pos + chunk <= length)
        BY <3>2, <2>4, <1>3, <1>4
      <4>2. QED BY <4>1, <1>2, <1>4
    <3>3. QED BY <3>1, <3>2, <1>11
  <2>5. QED BY <1>1, <2>2, <2>3, <2>4 DEF BodyInOrder
<1>14. QED
  BY <1>6, <1>7, <1>8, <1>12, <1>13 DEF IndInv

\* A failed write leaves the stream broken.
LEMMA WriteErrorIndInv ==
  ASSUME IndInv, WriteError, TypeOK'
  PROVE  IndInv'
<1> USE DEF clientVars, fsVars, fileVars, replyVars
<1>1. /\ pc = "write" /\ heads = <<200>> /\ blame' = blame \cup {"write"}
      /\ UNCHANGED <<request, clientVars, fsVars, got, fileVars, replyVars, seen, lacked>>
  BY DEF WriteError, WriteFails, IndInv, HeadsWritten, Unanswered, Answered
<1>2. Thrown(503)
  BY ThrownStatus DEF WriteError
<1>3. Outcomes' /\ HeadsWritten' /\ Incomplete'
  BY <1>1, <1>2 DEF Thrown, Outcomes, HeadsWritten, Broken, Incomplete, Unanswered,
                    Answered, Lookup
<1>4. Looked' /\ Copied' /\ CopiedWhole'
  BY <1>1, <1>2 DEF Thrown, Looked, Copied, CopiedWhole, Unanswered, Lookup
<1>5. RefusalJustified'
  BY <1>1, <1>2 DEF Thrown, RefusalJustified
<1>6. BodyInOrder'
  BY <1>1 DEF IndInv, BodyInOrder
<1>7. QED
  BY <1>3, <1>4, <1>5, <1>6 DEF IndInv

-------------------------------------------------------------------------------
(* The end of the connection.                                               *)

\* Shutdown keeps the invariant.
LEMMA ShutdownIndInv ==
  ASSUME IndInv, Shutdown, TypeOK'
  PROVE  IndInv'
<1> USE DEF clientVars, fsVars, fileVars, histVars
<1>1. /\ pc = "shutdown" /\ outcome = "running" /\ error = 0 /\ heads = <<200>>
      /\ pc' = "done" /\ outcome' = "ok" /\ flushed' = TRUE
      /\ UNCHANGED <<request, clientVars, fsVars, got, fileVars, heads, body, error, histVars>>
  BY DEF Shutdown, Return, IndInv, Outcomes, HeadsWritten, Unanswered, Answered, TypeOK
<1>2. Outcomes' /\ HeadsWritten' /\ Incomplete'
  BY <1>1 DEF Outcomes, HeadsWritten, Incomplete, Unanswered, Answered, Lookup
<1>3. Looked' /\ Copied' /\ CopiedWhole'
  BY <1>1 DEF IndInv, Looked, Copied, CopiedWhole, Unanswered, Lookup
<1>4. RefusalJustified' /\ BodyInOrder'
  BY <1>1 DEF IndInv, RefusalJustified, BodyInOrder
<1>5. QED
  BY <1>2, <1>3, <1>4 DEF IndInv

\* ShutdownError keeps the invariant.
LEMMA ShutdownErrorIndInv ==
  ASSUME IndInv, ShutdownError, TypeOK'
  PROVE  IndInv'
<1> USE DEF clientVars, fsVars, fileVars, replyVars
<1>1. /\ pc = "shutdown" /\ heads = <<200>>
      /\ blame \subseteq blame' /\ (Broken' \/ "shutdown" \in blame')
      /\ blame' \subseteq blame \cup {"shutdown"}
      /\ UNCHANGED <<request, clientVars, fsVars, got, fileVars, replyVars, seen, lacked>>
  BY DEF ShutdownError, Fault, Broken, IndInv, HeadsWritten, Unanswered, Answered
<1>2. Thrown(503)
  BY ThrownStatus DEF ShutdownError
<1>3. Outcomes' /\ HeadsWritten' /\ Incomplete'
  BY <1>1, <1>2 DEF Thrown, Outcomes, HeadsWritten, SpoiledBy, Incomplete, Unanswered,
                    Answered, Lookup
<1>4. Looked' /\ Copied' /\ CopiedWhole'
  BY <1>1, <1>2 DEF Thrown, Looked, Copied, CopiedWhole, Unanswered, Lookup
<1>5. RefusalJustified'
  BY <1>1, <1>2 DEF Thrown, RefusalJustified
<1>6. BodyInOrder'
  BY <1>1 DEF IndInv, BodyInOrder
<1>7. QED
  BY <1>3, <1>4, <1>5, <1>6 DEF IndInv

\* An error page follows a head only if nothing broke the stream between them.
LEMMA SendErrorPageIndInv ==
  ASSUME IndInv, SendErrorPage, TypeOK'
  PROVE  IndInv'
<1> USE DEF clientVars, fsVars, fileVars, endVars, replyVars
<1>1. /\ pc = "error" /\ outcome = "err" /\ pc' = "done"
      /\ heads = <<>> \/ (heads = <<200>> /\ (Broken \/ SpoiledBy(error)))
      /\ UNCHANGED <<request, clientVars, fsVars, got, fileVars, endVars, seen, lacked, body>>
  BY DEF SendErrorPage, WriteHead, WriteFails, IndInv, Outcomes, HeadsWritten
<1>2. HeadsWritten'
  <2>1. CASE WriteHead(error)
    <3>1. ~ Broken /\ heads' = Append(heads, error) /\ UNCHANGED blame
      BY <2>1 DEF WriteHead
    <3>2. CASE heads = <<>>
      BY <3>1, <3>2, <1>1 DEF HeadsWritten, SpoiledBy, Unanswered, Answered, Lookup
    <3>3. CASE heads = <<200>> /\ SpoiledBy(error)
      <4>1. heads' = <<200, error>>
        <5>1. error \in Nat
          BY DEF IndInv, TypeOK, Statuses
        <5>2. QED BY <5>1, <3>1, <3>3, AppendToOne
      <4>2. QED
        BY <4>1, <3>1, <3>3, <1>1 DEF HeadsWritten, SpoiledBy, Unanswered, Answered, Lookup
    <3>4. QED BY <1>1, <3>1, <3>2, <3>3
  <2>2. CASE WriteFails
    BY <1>1, <2>2 DEF WriteFails, Broken, HeadsWritten, Unanswered, Answered, Lookup
  <2>3. QED BY <2>1, <2>2 DEF SendErrorPage
<1>3. Outcomes' /\ Incomplete'
  BY <1>1 DEF IndInv, Outcomes, Incomplete
<1>4. Looked' /\ Copied' /\ CopiedWhole'
  BY <1>1 DEF Looked, Copied, CopiedWhole, Unanswered, Lookup
<1>5. blame \subseteq blame' /\ blame' \subseteq blame \cup {"write"}
  BY DEF SendErrorPage, WriteHead, WriteFails
<1>6. RefusalJustified' /\ BodyInOrder'
  BY <1>1, <1>5 DEF IndInv, RefusalJustified, BodyInOrder, IndexFiles
<1>7. QED
  BY <1>2, <1>3, <1>4, <1>6 DEF IndInv

-------------------------------------------------------------------------------
(* The invariants. *)

\* Every step keeps it.
LEMMA NextIndInv == IndInv /\ [Next]_vars => IndInv'
<1> SUFFICES ASSUME IndInv, [Next]_vars PROVE IndInv'
  OBVIOUS
<1>1. TypeOK'
  BY NextTypeOK DEF IndInv
<1>2. CASE Client \/ Others \/ UNCHANGED vars
  BY <1>1, <1>2, QuietIndInv
<1>3. CASE Task
  BY <1>1, <1>3, ReadIndInv, ReadNothingIndInv, ReadErrorIndInv, IsDirIndInv,
     IsFileIndInv, TryIndexIndInv, NoIndexIndInv, SendListingIndInv, OpenIndInv,
     OpenErrorIndInv, MetadataIndInv, SendHeadIndInv, ReadAtIndInv, EndOfFileIndInv,
     ReadAtErrorIndInv, WriteIndInv, WriteErrorIndInv, ShutdownIndInv,
     ShutdownErrorIndInv, SendErrorPageIndInv DEF Task
<1>4. QED BY <1>2, <1>3 DEF Next

\* All of it holds in every state: what the task knows of the file system, of
\* the file it copies and of what it has written, at each place it can be in.
THEOREM Invariant == Spec => []IndInv
BY InitIndInv, NextIndInv, PTL DEF Spec

\* The state stays within its types.
THEOREM TypeCorrect == Spec => []TypeOK
<1>1. IndInv => TypeOK
  BY DEF IndInv
<1>2. QED BY <1>1, Invariant, PTL

\* A connection that ends with nothing sent, or with something left in the
\* buffer of its stream, has a reason for it: the peer, a request too long for
\* the buffer, or an error page that TLS keeps.  Whatever error ended
\* handle_request, its page is written unless the stream is broken; a response
\* that is not an error has always left.
THEOREM SilenceIsExplained == Spec => []SilenceExplained
<1>1. IndInv => SilenceExplained
  <2> SUFFICES ASSUME IndInv, pc = "done", heads = <<>> \/ ~ flushed
               PROVE  SilenceExplained
    BY DEF SilenceExplained
  <2>1. outcome \in {"peer_closed", "ok", "err"}
    BY DEF IndInv, Outcomes, TypeOK
  <2>2. CASE outcome = "peer_closed"
    BY <2>2 DEF IndInv, Incomplete, SilenceExplained
  <2>3. CASE outcome = "ok"
    BY <2>3 DEF IndInv, HeadsWritten
  <2>4. CASE outcome = "err"
    <3>1. \/ Broken
          \/ heads = <<error>>
          \/ heads = <<200, error>>
      BY <2>4 DEF IndInv, HeadsWritten
    <3>2. CASE Broken
      BY <2>4, <3>2 DEF SilenceExplained
    <3>3. CASE heads = <<error>> \/ heads = <<200, error>>
      <4>1. heads # <<>> /\ heads[Len(heads)] = error
        <5>1. CASE heads = <<error>>
          BY <5>1
        <5>2. CASE heads = <<200, error>>
          BY <5>2
        <5>3. QED BY <3>3, <5>1, <5>2
      <4>2. Tls
        BY <4>1 DEF IndInv, TypeOK
      <4>3. QED BY <2>4, <4>1, <4>2 DEF SilenceExplained
    <3>4. QED BY <3>1, <3>2, <3>3
  <2>5. QED BY <2>1, <2>2, <2>3, <2>4
<1>2. QED BY <1>1, Invariant, PTL

\* A 404 or 403 answers to what was in the file system while the request was
\* handled, and so does a listing, whatever other processes changed between the
\* questions.
THEOREM RefusalsAreJustified == Spec => []RefusalJustified
<1>1. IndInv => RefusalJustified
  BY DEF IndInv
<1>2. QED BY <1>1, Invariant, PTL

\* The bytes of a file are sent in its order, without gaps unless a write was
\* short, and past the announced length only if the file grew.
THEOREM BodyIsInOrder == Spec => []BodyInOrder
<1>1. IndInv => BodyInOrder
  BY DEF IndInv
<1>2. QED BY <1>1, Invariant, PTL

\* A second head is that of an error page after a 200, when a read of the file
\* or the shutdown failed in between.
THEOREM SecondHeadIsAfterFailure == Spec => []SecondHeadOnlyAfterFailure
<1>1. IndInv => SecondHeadOnlyAfterFailure
  <2> SUFFICES ASSUME IndInv PROVE SecondHeadOnlyAfterFailure
    OBVIOUS
  <2>1. pc \in Unanswered \cup Answered \cup {"error", "done"}
    BY DEF IndInv, TypeOK, Unanswered, Answered, Lookup, Copying
  <2>2. outcome = "running" \/ outcome \in {"peer_closed", "ok", "err"}
    BY DEF IndInv, TypeOK
  <2>3. \/ heads = <<>>
        \/ heads = <<200>>
        \/ heads = <<error>>
        \/ heads = <<200, error>> /\ SpoiledBy(error)
    BY <2>1, <2>2 DEF IndInv, Outcomes, HeadsWritten
  <2>4. CASE heads = <<200, error>> /\ SpoiledBy(error)
    BY <2>4 DEF SecondHeadOnlyAfterFailure, SpoiledBy
  <2>5. CASE heads = <<>> \/ heads = <<200>> \/ heads = <<error>>
    BY <2>5 DEF SecondHeadOnlyAfterFailure
  <2>6. QED BY <2>3, <2>4, <2>5
<1>2. QED BY <1>1, Invariant, PTL

\* A file that nothing disturbs is sent whole, if there is a buffer to read it
\* into: file_read_buffer_size 0 sends the head alone.
THEOREM SentWhole == ASSUME ReadSize > 0 PROVE Spec => []WholeUnlessDisturbed
<1>1. IndInv => WholeUnlessDisturbed
  <2> SUFFICES ASSUME IndInv, outcome = "ok", opened = "file", blame = {}
               PROVE  heads = <<200>> /\ flushed /\ body = [i \in 1..length |-> i - 1]
    BY DEF WholeUnlessDisturbed
  <2>1. heads = <<200>> /\ flushed /\ Len(body) = length
    BY DEF IndInv, HeadsWritten, CopiedWhole
  <2>2. body \in Seq(Nat) /\ \A i \in DOMAIN body : body[i] = i - 1
    BY DEF IndInv, TypeOK, BodyInOrder
  <2>3. body = [i \in 1..Len(body) |-> body[i]]
    BY <2>2
  <2>4. QED BY <2>1, <2>2, <2>3
<1>2. QED BY <1>1, Invariant, PTL

-------------------------------------------------------------------------------
(* Connection implements Exchange: each step is one of the client's view,   *)
(* or is not seen by it.                                                    *)

\* A step of the exchange, or a stutter.
ViewStep == View!Next \/ UNCHANGED View!vars

\* Initial states map to initial states.
LEMMA InitView == Init => View!Init
BY DEF Init, View!Init

\* The head of an answer, or an error that is not written yet.
LEMMA HeadView ==
  ASSUME IndInv, pc \in Unanswered, pc' # "done", WriteHead(200) \/ WriteFails
  PROVE  ViewStep
<1>1. pc # "done" /\ heads = <<>> /\ UNCHANGED body
  BY DEF IndInv, HeadsWritten, Unanswered, Lookup, WriteHead, WriteFails, replyVars
<1>2. CASE WriteHead(200)
  <2>1. heads' = <<200>>
    BY <1>1, <1>2 DEF WriteHead
  <2>2. View!Answer
    BY <1>1, <2>1 DEF View!Answer
  <2>3. QED BY <2>2 DEF ViewStep, View!Next
<1>3. CASE WriteFails
  BY <1>1, <1>3 DEF WriteFails, replyVars, ViewStep, View!vars
<1>4. QED BY <1>2, <1>3

\* Bytes of the file follow those that came before, or none come.
LEMMA WriteView ==
  ASSUME IndInv, NEW n \in 0..chunk, Write(n)
  PROVE  ViewStep
<1>1. /\ pc = "write" /\ heads = <<200>> /\ pc' = "read_at" /\ UNCHANGED heads
      /\ body' = body \o [i \in 1..n |-> pos + i - 1]
  BY DEF Write, GoTo, IndInv, HeadsWritten, Unanswered, Answered
<1>2. body \in Seq(Nat) /\ n \in Nat /\ pos \in Nat
  BY SizesAssumption DEF IndInv, TypeOK
<1>3. /\ Len(body) \in Nat /\ Len(body') = Len(body) + n /\ DOMAIN body' = 1..(Len(body) + n)
      /\ \A i \in 1..Len(body) : body'[i] = body[i]
  BY <1>1, <1>2, FollowedBy
<1>4. CASE n = 0
  <2>1. Len(body') = Len(body) /\ DOMAIN body' = DOMAIN body
    BY <1>2, <1>3, <1>4
  <2>2. body' \in Seq(Nat)
    <3>1. \A i \in 1..n : pos + i - 1 \in Nat
      BY <1>2
    <3>2. [i \in 1..n |-> pos + i - 1] \in Seq(Nat)
      BY <1>2, <3>1
    <3>3. QED BY <1>1, <1>2, <3>2
  <2>3. body' = body
    BY <1>2, <1>3, <2>1, <2>2, SameSequence
  <2>4. QED BY <1>1, <2>3 DEF ViewStep, View!vars
<1>5. CASE n > 0
  <2>1. Len(body') > Len(body)
    BY <1>2, <1>3, <1>5
  <2>2. SubSeq(body', 1, Len(body)) = body
    <3>1. SubSeq(body', 1, Len(body)) = [i \in 1..Len(body) |-> body'[i]]
      BY <1>2, <1>3
    <3>2. body = [i \in 1..Len(body) |-> body[i]]
      BY <1>2
    <3>3. QED BY <1>3, <3>1, <3>2
  <2>3. View!Stream
    BY <1>1, <2>1, <2>2 DEF View!Stream
  <2>4. QED BY <2>3 DEF ViewStep, View!Next
<1>6. QED BY <1>2, <1>4, <1>5

\* The error page ends the exchange, or its end comes without it.
LEMMA SendErrorPageView ==
  ASSUME IndInv, SendErrorPage
  PROVE  ViewStep
<1>1. /\ pc = "error" /\ pc' = "done" /\ error \in Statuses \ {200} /\ UNCHANGED body
      /\ heads \in {<<>>, <<200>>}
  BY DEF SendErrorPage, WriteHead, WriteFails, replyVars, IndInv, Outcomes, HeadsWritten, TypeOK
<1>2. CASE WriteHead(error)
  <2>1. View!Refuse(error)
    BY <1>1, <1>2 DEF View!Refuse, WriteHead
  <2>2. QED BY <1>1, <2>1 DEF ViewStep, View!Next
<1>3. CASE WriteFails
  <2>1. View!End
    BY <1>1, <1>3 DEF View!End, WriteFails, replyVars
  <2>2. QED BY <2>1 DEF ViewStep, View!Next
<1>4. QED BY <1>2, <1>3 DEF SendErrorPage

\* The stream is dropped with no more written.
LEMMA EndView ==
  ASSUME pc # "done", pc' = "done", UNCHANGED <<heads, body>>
  PROVE  ViewStep
<1>1. View!End
  BY DEF View!End
<1>2. QED BY <1>1 DEF ViewStep, View!Next

\* A step the client does not see.
LEMMA HiddenView ==
  ASSUME pc # "done", pc' # "done", UNCHANGED <<heads, body>>
  PROVE  ViewStep
BY DEF ViewStep, View!vars

\* Every step maps to a step or a stutter.
LEMMA NextView == IndInv /\ [Next]_vars => [View!Next]_View!vars
<1> SUFFICES ASSUME IndInv, [Next]_vars PROVE ViewStep
  BY DEF ViewStep
<1> USE DEF replyVars
<1>1. CASE Client \/ Others \/ UNCHANGED vars
  <2>1. UNCHANGED <<pc, heads, body>>
    BY <1>1, QuietStep
  <2>2. QED BY <2>1 DEF ViewStep, View!vars
<1>2. ASSUME NEW n \in 1..pending, Read(n) PROVE ViewStep
  <2>1. pc = "append" /\ n \in Nat /\ got + n \in Nat /\ Dispatch(got + n) /\ UNCHANGED <<heads, body>>
    BY <1>2 DEF Read, IndInv, TypeOK
  <2>2. pc' # "done"
    BY <2>1, DispatchOutcome DEF IndInv, Thrown
  <2>3. QED BY <2>1, <2>2, HiddenView
<1>3. CASE ReadNothing \/ Shutdown
  BY <1>3, EndView DEF ReadNothing, Shutdown, Return
<1>4. CASE ReadError \/ IsDir \/ IsFile \/ TryIndex \/ NoIndex
  BY <1>4, HiddenView DEF ReadError, IsDir, IsFile, TryIndex, NoIndex, GoTo, Throw
<1>5. CASE SendListing \/ SendHead
  <2>1. pc \in Unanswered /\ pc' # "done" /\ (WriteHead(200) \/ WriteFails)
    BY <1>5 DEF SendListing, SendHead, GoTo, Throw, Unanswered, Lookup
  <2>2. QED BY <2>1, HeadView
<1>6. CASE Open \/ OpenError \/ (\E n \in 0..MaxSize : Metadata(n))
  BY <1>6, HiddenView DEF Open, OpenError, Metadata, GoTo, Throw
<1>7. CASE (\E n \in 1..ReadSize : ReadAt(n)) \/ EndOfFile \/ ReadAtError
  BY <1>7, HiddenView DEF ReadAt, EndOfFile, ReadAtError, GoTo, Throw
<1>8. ASSUME NEW n \in 0..chunk, Write(n) PROVE ViewStep
  BY <1>8, WriteView
<1>9. CASE WriteError \/ ShutdownError
  BY <1>9, HiddenView DEF WriteError, WriteFails, ShutdownError, Throw
<1>10. CASE SendErrorPage
  BY <1>10, SendErrorPageView
<1>11. QED
  BY <1>1, <1>2, <1>3, <1>4, <1>5, <1>6, <1>7, <1>8, <1>9, <1>10 DEF Next, Task

\* The client sees one response, with nothing before its head and nothing of it
\* after the error page that may spoil it, or after the end.
THEOREM ExchangeImplemented == Spec => ImplementsExchange
BY InitView, NextView, Invariant, PTL DEF Spec, View!Spec, ImplementsExchange

===============================================================================
