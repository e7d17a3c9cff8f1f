------------------------------ MODULE Connection ------------------------------
(***************************************************************************)
(* One connection, from the first read to the drop of the stream:          *)
(* handle_connection of src/src/server.rs, handle_request of               *)
(* src/src/http.rs and RouterHandler::handle_request of src/src/router.rs. *)
(*                                                                         *)
(* The request is read into a buffer of fixed capacity until it parses,    *)
(* dispatched, and answered with a file, a generated index page or an      *)
(* error page.  Every await is a boundary between actions, and so is every *)
(* question asked of the file system, because other processes change it.   *)
(*                                                                         *)
(* Abstractions.  A request is what the code finds out about it, and how   *)
(* many bytes it has to have read to find it out.  A response is its head  *)
(* (status, announced length) and, for a file, the offsets of the bytes    *)
(* sent.  An index or error page is written whole with its head.           *)
(***************************************************************************)
EXTENDS Naturals, Sequences

CONSTANTS
  Requests,     \* [method, route, length, next, indexes, autoindex] to be tried
  BufferSize,   \* connection_buffer_size
  ReadSize,     \* file_read_buffer_size
  MaxSize,      \* bound on the size of a file
  MaxChanges,   \* bound on the changes other processes make
  Faults,       \* what may go wrong, from AllFaults
  Tls           \* TRUE when the stream keeps written bytes until it is flushed

AllFaults == {"reset", "receive", "denied", "read", "short", "write", "shutdown"}

ASSUME RequestsAssumption ==
  \A q \in Requests : /\ q.method \in {"GET", "other", "malformed"}
                      /\ q.route \in {"none", "unsafe", "found"}
                      /\ q.length \in Nat \ {0} /\ q.next \in Nat /\ q.indexes \in Nat
                      /\ q.autoindex \in BOOLEAN
ASSUME SizesAssumption ==
  /\ BufferSize \in Nat /\ ReadSize \in Nat /\ MaxSize \in Nat /\ MaxChanges \in Nat
  /\ Faults \subseteq AllFaults
  /\ Tls \in BOOLEAN

VARIABLES
  request,    \* the request the client makes, and the location it goes to
  unsent,     \* bytes of it, and of a next one, the client has not sent yet
  pending,    \* bytes sent that the server has not read
  peer,       \* "open", "closed" (no more bytes will come) or "reset"
  entry,      \* what is at the requested path: "missing", "file" or "dir"
  indexes,    \* the index files that exist in it, by their place in the list
  size,       \* size of the file that is open, once metadata gave it
  changes,    \* number of changes made by other processes
  pc,         \* where the connection's task is
  got,        \* buffer.len()
  probe,      \* the index file in question, 0 for the requested path itself
  opened,     \* what File::open opened
  length,     \* file_size
  pos,        \* how far the file has been copied
  chunk,      \* number of bytes the last read_at gave
  error,      \* status of the error that ended handle_request, 0 for none
  heads,      \* statuses of the response heads written
  body,       \* offsets of the bytes of the file written
  flushed,    \* whether all that was written has left the server
  outcome,    \* how handle_request ended
  blame,      \* history: what disturbed the exchange
  seen,       \* history: values of entry since the request was dispatched
  lacked      \* history: index files absent at some moment since then

clientVars == <<unsent, pending, peer>>
fsVars == <<entry, indexes, size, changes>>
fileVars == <<probe, opened, length, pos, chunk>>
replyVars == <<heads, body, flushed>>
endVars == <<error, outcome>>
histVars == <<blame, seen, lacked>>
vars == <<request, clientVars, fsVars, pc, got, fileVars, replyVars, endVars, histVars>>

Lookup == {"is_dir", "is_file", "index", "listing", "open"}
Copying == {"metadata", "head", "read_at", "write"}
Kinds == {"missing", "file", "dir"}
Statuses == {200, 400, 403, 404, 405, 500, 503}
IndexFiles == 1..request.indexes

TypeOK ==
  /\ request \in Requests
  /\ unsent \in Nat /\ pending \in Nat /\ got \in 0..BufferSize
  /\ unsent + pending + got <= request.length + request.next
  /\ peer \in {"open", "closed", "reset"}
  /\ entry \in Kinds /\ indexes \subseteq IndexFiles /\ size \in 0..MaxSize
  /\ changes \in 0..MaxChanges
  /\ pc \in {"append", "shutdown", "error", "done"} \cup Lookup \cup Copying
  /\ probe \in 0..(request.indexes + 1) /\ opened \in {"none", "file", "dir"}
  /\ length \in 0..MaxSize /\ pos \in 0..(MaxSize + ReadSize) /\ chunk \in 0..ReadSize
  /\ heads \in Seq(Statuses) /\ body \in Seq(Nat)
  /\ flushed \in BOOLEAN /\ (flushed \/ Tls)
  /\ error \in (Statuses \ {200}) \cup {0}
  /\ outcome \in {"running", "peer_closed", "ok", "err"}
  /\ blame \subseteq AllFaults \cup {"shrunk", "grown"}
  /\ seen \subseteq Kinds /\ lacked \subseteq IndexFiles

Init ==
  /\ request \in Requests
  /\ unsent = request.length + request.next /\ pending = 0 /\ peer = "open"
  /\ entry \in Kinds /\ indexes \in SUBSET IndexFiles /\ size = 0
  /\ changes = 0
  /\ pc = "append" /\ got = 0
  /\ probe = 0 /\ opened = "none" /\ length = 0 /\ pos = 0 /\ chunk = 0
  /\ heads = <<>> /\ body = <<>> /\ flushed = TRUE
  /\ error = 0 /\ outcome = "running"
  /\ blame = {} /\ seen = {} /\ lacked = {}

-------------------------------------------------------------------------------
(* The client, and other processes, until the connection is over. *)

Send(n) ==
  /\ peer = "open" /\ pc # "done"
  /\ unsent' = unsent - n
  /\ pending' = pending + n
  /\ UNCHANGED <<request, peer, fsVars, pc, got, fileVars, replyVars, endVars, histVars>>

\* The client will send no more; what it sent can still be read.
Close ==
  /\ peer = "open" /\ pc # "done"
  /\ peer' = "closed"
  /\ UNCHANGED <<request, unsent, pending, fsVars, pc, got, fileVars, replyVars,
                 endVars, histVars>>

Reset ==
  /\ "reset" \in Faults
  /\ peer # "reset" /\ pc # "done"
  /\ peer' = "reset"
  /\ pending' = 0
  /\ blame' = blame \cup {"reset"}
  /\ UNCHANGED <<request, unsent, fsVars, pc, got, fileVars, replyVars, endVars,
                 seen, lacked>>

\* The index files that are not there when k is at the path.
Absent(k, present) == IF k = "dir" THEN IndexFiles \ present ELSE IndexFiles

Change == pc # "done" /\ changes < MaxChanges /\ changes' = changes + 1

\* The path is created, removed, or becomes something else.
ChangeEntry(k) ==
  /\ Change
  /\ entry # k
  /\ entry' = k
  /\ seen' = IF pc \in Lookup THEN seen \cup {k} ELSE seen
  /\ lacked' = IF pc \in Lookup THEN lacked \cup Absent(k, indexes) ELSE lacked
  /\ UNCHANGED <<request, clientVars, indexes, size, pc, got, fileVars, replyVars,
                 endVars, blame>>

ChangeIndex(i) ==
  /\ Change
  /\ indexes' = IF i \in indexes THEN indexes \ {i} ELSE indexes \cup {i}
  /\ lacked' = IF pc \in Lookup THEN lacked \cup Absent(entry, indexes') ELSE lacked
  /\ UNCHANGED <<request, clientVars, entry, size, pc, got, fileVars, replyVars,
                 endVars, blame, seen>>

\* The file is truncated or appended to while it is being sent.
Resize(n) ==
  /\ Change
  /\ pc \in {"head", "read_at", "write"}
  /\ n # size
  /\ size' = n
  /\ blame' = blame \cup {IF n < size THEN "shrunk" ELSE "grown"}
  /\ UNCHANGED <<request, clientVars, entry, indexes, pc, got, fileVars, replyVars,
                 endVars, seen, lacked>>

-------------------------------------------------------------------------------
(* What an action does to the course of handle_request. *)

GoTo(l) == pc' = l /\ UNCHANGED endVars

status_code ==
  [RequestParse |-> 400, Forbidden |-> 403, NotFound |-> 404, MethodNotAllowed |-> 405,
   Internal |-> 500, Io |-> 503]

\* It returns Err with this DamasError.
Throw(e) == pc' = "error" /\ error' = status_code[e] /\ outcome' = "err"

\* What `?' makes of the kind of an io::Error.  Those of a stream are of other
\* kinds; a read of a file may be denied (by a server of network files).
From == [NotFound |-> "NotFound", PermissionDenied |-> "Forbidden", other |-> "Io"]

\* It returns Ok, and the stream is dropped.
Return(how) == pc' = "done" /\ outcome' = how /\ UNCHANGED error

\* Something in Faults happens.
Fault(f) == f \in Faults /\ blame' = blame \cup {f}

\* The peer is gone: every write fails from now on.
Broken == blame \cap {"reset", "write"} # {}

\* A write of the stream fails; nothing of it reaches the client.
WriteFails ==
  /\ Broken \/ "write" \in Faults
  /\ blame' = blame \cup {"write"}
  /\ UNCHANGED replyVars

\* write_all of a head, and of the page that comes with it.
WriteHead(status) ==
  /\ ~ Broken
  /\ heads' = Append(heads, status)
  /\ flushed' = ~ Tls
  /\ UNCHANGED <<body, blame>>

-------------------------------------------------------------------------------
(* http::handle_request: reading and dispatching the request. *)

\* Faulty variant: other methods are dropped without an answer.
DispatchGetOnly(n) ==
  \/ n < request.length /\ GoTo("append")
  \/ /\ n >= request.length
     /\ \/ request.method = "malformed" /\ Throw("RequestParse")
        \/ request.method = "other" /\ Return("ok")
        \/ /\ request.method = "GET"
           /\ \/ request.route = "none" /\ Throw("NotFound")
              \/ request.route = "unsafe" /\ Throw("Internal")
              \/ request.route = "found" /\ GoTo("is_dir")

\* What follows once the buffer holds n bytes: more are needed, or the request
\* is refused, or its location handles it.
Dispatch(n) ==
  \/ n < request.length /\ GoTo("append")
  \/ /\ n >= request.length
     /\ \/ request.method = "malformed" /\ Throw("RequestParse")
        \/ request.method = "other" /\ Throw("MethodNotAllowed")
        \/ /\ request.method = "GET"
           /\ \/ request.route = "none" /\ Throw("NotFound")
              \/ request.route = "unsafe" /\ Throw("Internal")
              \/ request.route = "found" /\ GoTo("is_dir")

\* Faulty variant: more is read than the buffer can hold.
ReadTooMuch(n) ==
  /\ pc = "append"
  /\ got' = got + n
  /\ pending' = pending - n
  /\ Dispatch(got')
  /\ seen' = IF pc' = "is_dir" THEN {entry} ELSE {}
  /\ lacked' = IF pc' = "is_dir" THEN Absent(entry, indexes) ELSE {}
  /\ UNCHANGED <<request, unsent, peer, fsVars, fileVars, replyVars, blame>>

\* stream.append gave n bytes, which fit in what is left of the buffer.
Read(n) ==
  /\ pc = "append"
  /\ n <= BufferSize - got
  /\ got' = got + n
  /\ pending' = pending - n
  /\ Dispatch(got')
  /\ seen' = IF pc' = "is_dir" THEN {entry} ELSE {}
  /\ lacked' = IF pc' = "is_dir" THEN Absent(entry, indexes) ELSE {}
  /\ UNCHANGED <<request, unsent, peer, fsVars, fileVars, replyVars, blame>>

\* It gave none, because the client closed its side or the buffer is full.
ReadNothing ==
  /\ pc = "append"
  /\ (peer = "closed" /\ pending = 0) \/ got = BufferSize
  /\ Return("peer_closed")
  /\ UNCHANGED <<request, clientVars, fsVars, got, fileVars, replyVars, histVars>>

\* It failed: the client broke the connection; or what came is no TLS record, or
\* TLS was not closed before the stream, and then a write may still succeed.
ReadError ==
  /\ pc = "append"
  /\ got < BufferSize
  /\ \/ peer = "reset" /\ UNCHANGED blame
     \/ Tls /\ Fault("receive")
  /\ Throw(From["other"])
  /\ UNCHANGED <<request, clientVars, fsVars, got, fileVars, replyVars, seen, lacked>>

-------------------------------------------------------------------------------
(* RouterHandler::handle_request: finding the file. *)

IsDir ==
  /\ pc = "is_dir"
  /\ IF entry = "dir" THEN GoTo("index") /\ probe' = 1
                      ELSE GoTo("is_file") /\ UNCHANGED probe
  /\ UNCHANGED <<request, clientVars, fsVars, got, opened, length, pos, chunk,
                 replyVars, histVars>>

IsFile ==
  /\ pc = "is_file"
  /\ IF entry = "file" THEN GoTo("open") ELSE Throw("NotFound")
  /\ UNCHANGED <<request, clientVars, fsVars, got, fileVars, replyVars, histVars>>

Exists(i) == entry = "dir" /\ i \in indexes

\* Faulty variant: only the first index file is tried.
TryFirstIndex ==
  /\ pc = "index"
  /\ probe \in IndexFiles
  /\ IF Exists(probe) THEN GoTo("open") /\ UNCHANGED probe
                      ELSE GoTo("index") /\ probe' = request.indexes + 1
  /\ UNCHANGED <<request, clientVars, fsVars, got, opened, length, pos, chunk,
                 replyVars, histVars>>

\* The first index file that is there is served.
TryIndex ==
  /\ pc = "index"
  /\ probe \in IndexFiles
  /\ IF Exists(probe) THEN GoTo("open") /\ UNCHANGED probe
                      ELSE GoTo("index") /\ probe' = probe + 1
  /\ UNCHANGED <<request, clientVars, fsVars, got, opened, length, pos, chunk,
                 replyVars, histVars>>

NoIndex ==
  /\ pc = "index"
  /\ probe \notin IndexFiles
  /\ IF request.autoindex THEN GoTo("listing") ELSE Throw("Forbidden")
  /\ UNCHANGED <<request, clientVars, fsVars, got, fileVars, replyVars, histVars>>

\* Faulty variant: it goes on to send what is at the path.
SendListingAndFile ==
  /\ pc = "listing"
  /\ probe' = 0
  /\ \/ WriteHead(200) /\ GoTo("open")
     \/ WriteFails /\ Throw(From["other"])
  /\ UNCHANGED <<request, clientVars, fsVars, got, opened, length, pos, chunk, seen, lacked>>

\* index_page_response, which never fails, and write_all of what it gave.
SendListing ==
  /\ pc = "listing"
  /\ \/ WriteHead(200) /\ GoTo("shutdown")
     \/ WriteFails /\ Throw(From["other"])
  /\ UNCHANGED <<request, clientVars, fsVars, got, fileVars, seen, lacked>>

-------------------------------------------------------------------------------
(* RouterHandler::handle_request: sending the file. *)

\* What is at final_file_path now, which the checks saw to be a file.
Target == IF probe = 0 THEN entry ELSE IF Exists(probe) THEN "file" ELSE "missing"

Open ==
  /\ pc = "open"
  /\ Target # "missing"
  /\ opened' = Target
  /\ GoTo("metadata")
  /\ UNCHANGED <<request, clientVars, fsVars, got, probe, length, pos, chunk,
                 replyVars, histVars>>

\* Every error of File::open becomes Io.
OpenError ==
  /\ pc = "open"
  /\ \/ Target = "missing" /\ UNCHANGED blame
     \/ Fault("denied")
  /\ Throw("Io")
  /\ UNCHANGED <<request, clientVars, fsVars, got, fileVars, replyVars, seen, lacked>>

\* file.metadata(): n is the size the file has by now.
Metadata(n) ==
  /\ pc = "metadata"
  /\ size' = n
  /\ length' = n
  /\ GoTo("head")
  /\ UNCHANGED <<request, clientVars, entry, indexes, changes, got, probe, opened, pos,
                 chunk, replyVars, histVars>>

SendHead ==
  /\ pc = "head"
  /\ \/ WriteHead(200) /\ GoTo("read_at")
     \/ WriteFails /\ Throw(From["other"])
  /\ UNCHANGED <<request, clientVars, fsVars, got, fileVars, seen, lacked>>

\* read_at gives up to a buffer of what the file holds from pos on.
ReadAt(n) ==
  /\ pc = "read_at"
  /\ pos < length
  /\ opened = "file"
  /\ n <= ReadSize /\ pos + n <= size
  /\ chunk' = n
  /\ GoTo("write")
  /\ UNCHANGED <<request, clientVars, fsVars, got, probe, opened, length, pos,
                 replyVars, histVars>>

\* Faulty variants: the loop goes on when read_at gives nothing, or takes that
\* for an error.
EndAtLength ==
  /\ pc = "read_at"
  /\ pos >= length
  /\ GoTo("shutdown")
  /\ UNCHANGED <<request, clientVars, fsVars, got, fileVars, replyVars, histVars>>
EndOfFileIsError ==
  /\ pc = "read_at"
  /\ pos >= length \/ (opened = "file" /\ (pos >= size \/ ReadSize = 0))
  /\ IF pos >= length THEN GoTo("shutdown") ELSE Throw(From["other"])
  /\ UNCHANGED <<request, clientVars, fsVars, got, fileVars, replyVars, histVars>>

\* The loop ends: the announced length is reached, or read_at gave nothing.
EndOfFile ==
  /\ pc = "read_at"
  /\ pos >= length \/ (opened = "file" /\ (pos >= size \/ ReadSize = 0))
  /\ GoTo("shutdown")
  /\ UNCHANGED <<request, clientVars, fsVars, got, fileVars, replyVars, histVars>>

\* A read fails, as it always does when a directory was opened.
ReadAtError ==
  /\ pc \in {"metadata", "read_at"}
  /\ pc = "read_at" => pos < length
  /\ \/ Fault("read") /\ \E kind \in {"PermissionDenied", "other"} : Throw(From[kind])
     \/ /\ pc = "read_at" /\ opened = "dir" /\ blame' = blame \cup {"read"}
        /\ Throw(From["other"])
  /\ UNCHANGED <<request, clientVars, fsVars, got, fileVars, replyVars, seen, lacked>>

\* Faulty variants: pos moves by the size of the buffer, or all of the buffer
\* is written, not only what was read.
WriteSkips(n) ==
  /\ pc = "write"
  /\ ~ Broken
  /\ IF n < chunk THEN Fault("short") ELSE n = chunk /\ UNCHANGED blame
  /\ body' = body \o [i \in 1..n |-> pos + i - 1]
  /\ flushed' = ~ Tls
  /\ pos' = pos + ReadSize
  /\ GoTo("read_at")
  /\ UNCHANGED <<request, clientVars, fsVars, got, probe, opened, length, chunk,
                 heads, seen, lacked>>
WriteBuffer(n) ==
  /\ pc = "write"
  /\ ~ Broken
  /\ IF n < chunk THEN Fault("short") ELSE n = chunk /\ UNCHANGED blame
  /\ body' = body \o [i \in 1..ReadSize |-> pos + i - 1]
  /\ flushed' = ~ Tls
  /\ pos' = pos + chunk
  /\ GoTo("read_at")
  /\ UNCHANGED <<request, clientVars, fsVars, got, probe, opened, length, chunk,
                 heads, seen, lacked>>

\* stream.write takes the first n bytes of the chunk; pos moves by the whole.
Write(n) ==
  /\ pc = "write"
  /\ ~ Broken
  /\ IF n < chunk THEN Fault("short") ELSE n = chunk /\ UNCHANGED blame
  /\ body' = body \o [i \in 1..n |-> pos + i - 1]
  /\ flushed' = ~ Tls
  /\ pos' = pos + chunk
  /\ GoTo("read_at")
  /\ UNCHANGED <<request, clientVars, fsVars, got, probe, opened, length, chunk,
                 heads, seen, lacked>>

WriteError ==
  /\ pc = "write"
  /\ WriteFails
  /\ Throw(From["other"])
  /\ UNCHANGED <<request, clientVars, fsVars, got, fileVars, seen, lacked>>

-------------------------------------------------------------------------------
(* The end of http::handle_request, and handle_connection. *)

\* Faulty variant: the stream is dropped without being flushed.
Drop ==
  /\ pc = "shutdown"
  /\ ~ Broken
  /\ Return("ok")
  /\ UNCHANGED <<request, clientVars, fsVars, got, fileVars, replyVars, histVars>>

\* stream.shutdown flushes what was written.
Shutdown ==
  /\ pc = "shutdown"
  /\ ~ Broken
  /\ flushed' = TRUE
  /\ Return("ok")
  /\ UNCHANGED <<request, clientVars, fsVars, got, fileVars, heads, body, histVars>>

ShutdownError ==
  /\ pc = "shutdown"
  /\ \/ Broken /\ UNCHANGED blame
     \/ Fault("shutdown")
  /\ Throw(From["other"])
  /\ UNCHANGED <<request, clientVars, fsVars, got, fileVars, replyVars, seen, lacked>>

\* The error page is written, or that fails too; the stream is dropped.
SendErrorPage ==
  /\ pc = "error"
  /\ WriteHead(error) \/ WriteFails
  /\ pc' = "done"
  /\ UNCHANGED <<request, clientVars, fsVars, got, fileVars, endVars, seen, lacked>>

-------------------------------------------------------------------------------
Client == (\E n \in 1..unsent : Send(n)) \/ Close \/ Reset

Others ==
  \/ \E k \in Kinds : ChangeEntry(k)
  \/ \E i \in IndexFiles : ChangeIndex(i)
  \/ \E n \in 0..MaxSize : Resize(n)

Task ==
  \/ (\E n \in 1..pending : Read(n)) \/ ReadNothing \/ ReadError
  \/ IsDir \/ IsFile \/ TryIndex \/ NoIndex \/ SendListing
  \/ Open \/ OpenError \/ (\E n \in 0..MaxSize : Metadata(n)) \/ SendHead
  \/ (\E n \in 1..ReadSize : ReadAt(n)) \/ EndOfFile \/ ReadAtError
  \/ (\E n \in 0..chunk : Write(n)) \/ WriteError
  \/ Shutdown \/ ShutdownError \/ SendErrorPage

Next == Client \/ Others \/ Task

Spec == Init /\ [][Next]_vars

\* The runtime polls the task whenever it can go on.  Writes are taken to
\* complete or fail, that is, the peer reads or goes away: nothing in the code
\* would end one that does not.  No fault has to happen.
NoFault == blame' = blame \/ opened = "dir" \/ Broken
FairSpec == Spec /\ WF_vars(Task /\ NoFault)

-------------------------------------------------------------------------------
(* Properties *)

View == INSTANCE Exchange WITH Errors <- Statuses \ {200}, over <- pc = "done"

\* The client sees one response, with nothing before its head and nothing of it
\* after the error page that may spoil it, or after the end.
ImplementsExchange == View!Spec

\* A file is sent whole, and has left the server, unless something disturbs it:
\* a short write, a failed read, a file resized while it is sent
\* (router.rs:118-143).
WholeUnlessDisturbed ==
  outcome = "ok" /\ opened = "file" /\ blame = {}
    => heads = <<200>> /\ flushed /\ body = [i \in 1..length |-> i - 1]

\* However reads, writes and changes of the file interleave, the bytes sent
\* are in the file's order; only a short write leaves a gap, and only a file
\* that grew gives more than announced, by less than one read however often and
\* far it grows (router.rs:132).
BodyInOrder ==
  /\ \A i, j \in DOMAIN body : i < j => body[i] < body[j]
  /\ "short" \notin blame => \A i \in DOMAIN body : body[i] = i - 1
  /\ \A i \in DOMAIN body :
       body[i] >= length => "grown" \in blame /\ body[i] < length + ReadSize - 1

\* The client gets a second head only when a read of the file or the shutdown
\* failed after the first, and never a third.
SecondHeadOnlyAfterFailure ==
  /\ Len(heads) <= 2
  /\ Len(heads) = 2 => heads \in {<<200, 503>>, <<200, 403>>} /\ blame \cap {"read", "shutdown"} # {}

\* A connection ends with nothing sent, or with something written that need not
\* have left the server, only if the client closed or broke it, or the request
\* does not fit in the buffer, or what was written last is an error page and the
\* stream is TLS (server.rs:130 does not flush it).
SilenceExplained ==
  pc = "done" /\ (heads = <<>> \/ ~ flushed) =>
    \/ outcome = "peer_closed" /\ got < request.length
         /\ (peer # "open" \/ got = BufferSize)
    \/ outcome = "err" /\ Broken
    \/ outcome = "err" /\ Tls /\ heads # <<>> /\ heads[Len(heads)] = error

\* 404 and 403 answer to what was there while the request was handled: the
\* path was missing at some moment or changed kind between the two checks; it
\* was a directory, and each index file was absent at some moment, as before a
\* listing of it is sent.  The only other 403 is for a read that was denied.
RefusalJustified ==
  /\ error = 404 /\ request.route = "found" =>
       "missing" \in seen \/ {"file", "dir"} \subseteq seen
  /\ error = 403 =>
       \/ "dir" \in seen /\ ~ request.autoindex /\ lacked = IndexFiles
       \/ "read" \in blame
  /\ pc = "listing" => "dir" \in seen /\ request.autoindex /\ lacked = IndexFiles

\* Once the request can be answered, the buffer is full or the client is done
\* sending, the connection ends, also if the file is cut short while it is sent.
Ends == pc # "append" \/ peer # "open" \/ got = BufferSize ~> pc = "done"

\* http.rs:17 logs "Connection closed by peer".  Fails when the buffer is full.
ClosedByPeerIsTrue == outcome = "peer_closed" => peer # "open"

\* The head announces as Content-Length what is sent (response.rs:140).  Fails
\* when stream.write takes only part of a chunk.
BodyMatchesContentLength == outcome = "ok" /\ opened = "file" => Len(body) = length
===============================================================================
