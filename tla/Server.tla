-------------------------------- MODULE Server --------------------------------
(***************************************************************************)
(* The process: main of src/src/main.rs, parse_config and the decoding of  *)
(* certificate and key of src/src/config.rs, build_rustls_server_config of *)
(* src/src/cert.rs, and Server::from_config, Server::run and               *)
(* handle_connection of src/src/server.rs.                                 *)
(*                                                                         *)
(* A start reads the configuration, and certificate and key while it is    *)
(* decoded; it builds the router, loads the error pages, pairs certificate *)
(* and key, binds, and then accepts connections for ever, each handled by  *)
(* a task of its own.  Meanwhile the certificate may be being renewed.     *)
(* The tasks share file descriptors, and the error registry, of which this *)
(* module uses the promise, ErrorPages.                                    *)
(*                                                                         *)
(* Abstractions.  A configuration is what decides whether it can be served.*)
(* A certificate or key is the number of the renewal it comes from, 0 when *)
(* the file is missing, cannot be parsed or has none in it.  What happens  *)
(* inside http::handle_request is in Connection.                           *)
(***************************************************************************)
EXTENDS Naturals, Sequences, FiniteSets

CONSTANTS
  Configs,     \* [syntax, tls, provider, locations] to be tried
  Clients,     \* clients, each with at most one connection at a time
  Silent,      \* those that connect and then neither send nor close
  FdLimit,     \* descriptors there are for connections and files
  MaxRenewal   \* bound on the renewals of the certificate

ASSUME ConfigsAssumption ==
  Configs \subseteq [syntax : BOOLEAN, tls : {"none", "files", "unsafe"},
                     provider : BOOLEAN, locations : {"good", "unsafe", "panic"}]
ASSUME NumbersAssumption ==
  /\ FdLimit \in Nat /\ MaxRenewal \in Nat \ {0}
  /\ IsFiniteSet(Clients) /\ Silent \subseteq Clients

Files == {"cert", "key"}
Statuses == {404, 503}
Default(s) == <<s, "default">>
Candidates(s) == {Default(s), <<s, "custom">>}

VARIABLES
  config,     \* what config.kdl says
  issued,     \* the last renewal
  content,    \* content[f]: the renewal file f is of
  taken,      \* whether another process listens at the address
  pc,         \* where main is
  decoded,    \* decoded[f]: what ServerConfig.tls got from f, 0 for nothing yet
  acceptor,   \* [cert, key] of the TlsAcceptor, 0 and 0 for None
  disturbed,  \* history: a start that could not succeed, or during which files changed
  queue,      \* connections waiting to be accepted
  conn,       \* conn[c]: how far the connection of c is
  open, page, phase, status, answer   \* ErrorPages

Pages == INSTANCE ErrorPages WITH Callers <- Clients

fileVars == <<issued, content, taken>>
startVars == <<config, pc, decoded, acceptor, disturbed>>
connVars == <<queue, conn>>
pageVars == <<open, page, phase, status, answer>>
vars == <<fileVars, startVars, connVars, pageVars>>

Starting == {"parse", "decode", "router", "registry", "tls", "bind"}
\* Connections that hold a descriptor.
Accepted == {"handshake", "request", "sending", "asking"}

\* Descriptors in use: one for each connection, one more while a file is sent.
Used == Cardinality({c \in Clients : conn[c] \in Accepted})
          + Cardinality({c \in Clients : conn[c] = "sending"})

TypeOK ==
  /\ config \in Configs
  /\ issued \in 1..MaxRenewal /\ content \in [Files -> 0..issued] /\ taken \in BOOLEAN
  /\ pc \in Starting \cup {"serving", "failed", "panicked"}
  /\ decoded \in [Files -> 0..issued] /\ acceptor \in [Files -> 0..issued]
  /\ disturbed \in BOOLEAN
  /\ conn \in [Clients -> Accepted \cup {"away", "queued", "aborted"}]
  /\ \A i \in DOMAIN queue : conn[queue[i]] \in {"queued", "aborted"}
  /\ \A c \in Clients : conn[c] \in {"queued", "aborted"} <=> \E i \in DOMAIN queue : queue[i] = c
  /\ Used <= FdLimit

\* The files hold a certificate and its key.
Paired == content["cert"] = content["key"] /\ content["cert"] # 0

NothingYet == [f \in Files |-> 0]

Init ==
  /\ config \in Configs
  /\ issued = 1 /\ content \in [Files -> 0..1] /\ taken \in BOOLEAN
  /\ pc = "parse" /\ decoded = NothingYet /\ acceptor = NothingYet
  /\ disturbed = (taken \/ ~ Paired)
  /\ queue = <<>> /\ conn = [c \in Clients |-> "away"]
  /\ Pages!Init /\ status = [c \in Clients |-> 404]
  /\ answer = [c \in Clients |-> Default(404)]

-------------------------------------------------------------------------------
(* Around the server. *)

Renew ==
  /\ pc # "serving"
  /\ Paired /\ issued < MaxRenewal
  /\ issued' = issued + 1
  /\ UNCHANGED <<content, taken, startVars, connVars, pageVars>>

\* A file of an older renewal is emptied to be written, or replaced.
Replace(f) ==
  /\ pc # "serving"
  /\ content[f] # issued
  /\ \E v \in {0, issued} \ {content[f]} : content' = [content EXCEPT ![f] = v]
  /\ disturbed' = TRUE
  /\ UNCHANGED <<issued, taken, config, pc, decoded, acceptor, connVars, pageVars>>

FreeAddress ==
  /\ taken
  /\ taken' = FALSE
  /\ UNCHANGED <<issued, content, startVars, connVars, pageVars>>

\* The server is started again.
Restart ==
  /\ pc \in {"failed", "panicked"}
  /\ pc' = "parse" /\ decoded' = NothingYet /\ acceptor' = NothingYet
  /\ disturbed' = (taken \/ ~ Paired)
  /\ open' = FALSE /\ page' = [s \in Statuses |-> Default(s)]
  /\ UNCHANGED <<fileVars, config, connVars, phase, status, answer>>

-------------------------------------------------------------------------------
(* main, parse_config and Server::from_config *)

GoTo(l) == pc' = l /\ UNCHANGED <<config, decoded, acceptor, disturbed>>

\* read_to_string, and knus::parse but for the decoding of certificate and key.
ParseConfig ==
  /\ pc = "parse"
  /\ GoTo(IF config.syntax THEN "decode" ELSE "failed")
  /\ UNCHANGED <<fileVars, connVars, pageVars>>

\* raw_decode of TLSCertificate or TLSPrivateKey; the configuration may name
\* them in either order.
Decode(f) ==
  /\ pc = "decode" /\ config.tls # "none" /\ decoded[f] = 0
  /\ IF config.tls = "unsafe" \/ content[f] = 0
     THEN GoTo("failed")
     ELSE /\ decoded' = [decoded EXCEPT ![f] = content[f]]
          /\ UNCHANGED <<config, pc, acceptor, disturbed>>
  /\ UNCHANGED <<fileVars, connVars, pageVars>>

\* LocationConfig::validate of every location; PathSafety has its checks.
validate == config.locations # "unsafe"

Validate ==
  /\ pc = "decode"
  /\ config.tls # "none" => \A f \in Files : decoded[f] # 0
  /\ GoTo(IF validate THEN "router" ELSE "failed")
  /\ UNCHANGED <<fileVars, connVars, pageVars>>

\* RouterNode::from_config
BuildRouter ==
  /\ pc = "router"
  /\ GoTo(IF config.locations = "panic" THEN "panicked" ELSE "registry")
  /\ UNCHANGED <<fileVars, connVars, pageVars>>

\* error_registry.init_with_config
LoadPages ==
  /\ pc = "registry"
  /\ page' \in {p \in [Statuses -> UNION {Candidates(s) : s \in Statuses}] :
                  \A s \in Statuses : p[s] \in Candidates(s)}
  /\ Pages!Open
  /\ GoTo("tls")
  /\ UNCHANGED <<fileVars, connVars>>

\* The CryptoProvider of this name is not compiled in.
ProviderPanics == ~ config.provider

\* rustls refuses a key that is not that of the certificate.
build_rustls_server_config == decoded["cert"] = decoded["key"]

WithAcceptor ==
  /\ pc' = "bind" /\ acceptor' = decoded
  /\ UNCHANGED <<config, decoded, disturbed>>

\* Faulty variants: the provider is built whether it is needed or not; a
\* server with a pair that is refused runs without, or tries it again.
BuildTlsEagerly ==
  /\ pc = "tls"
  /\ \/ ProviderPanics /\ GoTo("panicked")
     \/ ~ ProviderPanics /\ config.tls = "none" /\ GoTo("bind")
     \/ /\ ~ ProviderPanics /\ config.tls # "none"
        /\ IF build_rustls_server_config THEN WithAcceptor ELSE GoTo("failed")
  /\ UNCHANGED <<fileVars, connVars, pageVars>>
BuildTlsIfPossible ==
  /\ pc = "tls"
  /\ \/ config.tls = "none" /\ GoTo("bind")
     \/ config.tls # "none" /\ ProviderPanics /\ GoTo("panicked")
     \/ /\ config.tls # "none" /\ ~ ProviderPanics
        /\ IF build_rustls_server_config THEN WithAcceptor ELSE GoTo("bind")
  /\ UNCHANGED <<fileVars, connVars, pageVars>>
BuildTlsAgain ==
  /\ pc = "tls"
  /\ \/ config.tls = "none" /\ GoTo("bind")
     \/ config.tls # "none" /\ ProviderPanics /\ GoTo("panicked")
     \/ /\ config.tls # "none" /\ ~ ProviderPanics
        /\ IF build_rustls_server_config THEN WithAcceptor ELSE GoTo("tls")
  /\ UNCHANGED <<fileVars, connVars, pageVars>>

\* The acceptor is built from what was decoded, if TLS is configured.
BuildTls ==
  /\ pc = "tls"
  /\ \/ config.tls = "none" /\ GoTo("bind")
     \/ config.tls # "none" /\ ProviderPanics /\ GoTo("panicked")
     \/ /\ config.tls # "none" /\ ~ ProviderPanics
        /\ IF build_rustls_server_config THEN WithAcceptor ELSE GoTo("failed")
  /\ UNCHANGED <<fileVars, connVars, pageVars>>

\* Once the server is bound it has what it needs: the files, what was decoded
\* and the history are no longer looked at, and are given one value.
Bind ==
  /\ pc = "bind" /\ ~ taken
  /\ pc' = "serving"
  /\ issued' = MaxRenewal /\ content' = NothingYet /\ decoded' = NothingYet
  /\ disturbed' = FALSE
  /\ UNCHANGED <<taken, config, acceptor, connVars, pageVars>>

BindError ==
  /\ pc = "bind" /\ taken
  /\ GoTo("failed")
  /\ UNCHANGED <<fileVars, connVars, pageVars>>

-------------------------------------------------------------------------------
(* The accept loop of Server::run *)

Connect(c) ==
  /\ pc = "serving"
  /\ conn[c] = "away"
  /\ conn' = [conn EXCEPT ![c] = "queued"]
  /\ queue' = Append(queue, c)
  /\ UNCHANGED <<fileVars, startVars, pageVars>>

Abort(c) ==
  /\ conn[c] = "queued"
  /\ conn' = [conn EXCEPT ![c] = "aborted"]
  /\ UNCHANGED <<fileVars, startVars, queue, pageVars>>

\* The task spawned for a connection begins with the handshake, if any.
Spawn(c) == conn' = [conn EXCEPT ![c] = IF acceptor = NothingYet THEN "request" ELSE "handshake"]

\* Faulty variant: the loop does the handshake before it accepts the next.
AcceptInTurn ==
  /\ pc = "serving" /\ queue # <<>>
  /\ \A c \in Clients : conn[c] # "handshake"
  /\ conn[Head(queue)] = "queued" /\ Used < FdLimit
  /\ Spawn(Head(queue))
  /\ queue' = Tail(queue)
  /\ UNCHANGED <<fileVars, startVars, pageVars>>

Accept ==
  /\ pc = "serving" /\ queue # <<>>
  /\ conn[Head(queue)] = "queued" /\ Used < FdLimit
  /\ Spawn(Head(queue))
  /\ queue' = Tail(queue)
  /\ UNCHANGED <<fileVars, startVars, pageVars>>

\* Faulty variant: an aborted connection stays in the queue.
AcceptErrorKeeps ==
  /\ pc = "serving" /\ queue # <<>>
  /\ conn[Head(queue)] = "aborted"
  /\ conn' = [conn EXCEPT ![Head(queue)] = "away"]
  /\ UNCHANGED <<fileVars, startVars, queue, pageVars>>

\* accept fails, which is logged: the connection was aborted, or there is no
\* descriptor for it, and the loop comes back to it.
AcceptError ==
  /\ pc = "serving" /\ queue # <<>>
  /\ \/ /\ conn[Head(queue)] = "aborted"
        /\ conn' = [conn EXCEPT ![Head(queue)] = "away"]
        /\ queue' = Tail(queue)
     \/ Used = FdLimit /\ UNCHANGED <<queue, conn>>
  /\ UNCHANGED <<fileVars, startVars, pageVars>>

-------------------------------------------------------------------------------
(* The task of a connection *)

Step(c, from, to) == conn[c] = from /\ conn' = [conn EXCEPT ![c] = to]

Handshake(c) ==
  /\ c \notin Silent
  /\ Step(c, "handshake", "request")
  /\ UNCHANGED <<fileVars, startVars, queue, pageVars>>

\* The handshake fails or the client closes; the stream is dropped.
GiveUp(c) ==
  /\ Step(c, "handshake", "away") \/ Step(c, "request", "away")
  /\ UNCHANGED <<fileVars, startVars, queue, pageVars>>

\* handle_request finds the file and opens it.
OpenFile(c) ==
  /\ c \notin Silent /\ Used < FdLimit
  /\ Step(c, "request", "sending")
  /\ UNCHANGED <<fileVars, startVars, queue, pageVars>>

SendFile(c) ==
  /\ Step(c, "sending", "away")
  /\ UNCHANGED <<fileVars, startVars, queue, pageVars>>

\* handle_request fails: nothing is there, or there is no descriptor for it;
\* error_response asks the registry for the page of the error,
HandleError(c) ==
  /\ c \notin Silent
  /\ Step(c, "request", "asking")
  /\ \E s \in Statuses : (s = 503 => Used = FdLimit) /\ Pages!Ask(c, s)
  /\ UNCHANGED <<fileVars, startVars, queue>>

\* which answers all that wait for the same page together,
AnswerWithPage(C, s) ==
  /\ C # {}
  /\ Pages!Answer(C, s)
  /\ UNCHANGED <<fileVars, startVars, connVars>>

\* and it is written, or cannot be; the stream is dropped.
SendErrorPage(c) ==
  /\ Step(c, "asking", "away")
  /\ Pages!Forget(c)
  /\ UNCHANGED <<fileVars, startVars, queue>>

\* The registry loses a page.
LosePage(s) ==
  /\ pc = "serving"
  /\ Pages!Lose(s)
  /\ UNCHANGED <<fileVars, startVars, connVars>>

-------------------------------------------------------------------------------
Start ==
  \/ ParseConfig \/ (\E f \in Files : Decode(f)) \/ Validate
  \/ BuildRouter \/ LoadPages \/ BuildTls \/ Bind \/ BindError
AcceptLoop == Accept \/ AcceptError
Task(c) ==
  Handshake(c) \/ OpenFile(c) \/ SendFile(c) \/ HandleError(c) \/ SendErrorPage(c)
Resolve(c) == \E C \in SUBSET Clients, s \in Statuses : c \in C /\ AnswerWithPage(C, s)

Environment ==
  \/ Renew \/ (\E f \in Files : Replace(f)) \/ FreeAddress \/ Restart
  \/ \E c \in Clients : Connect(c) \/ Abort(c) \/ GiveUp(c)
  \/ \E s \in Statuses : LosePage(s)

Next == Start \/ AcceptLoop \/ (\E c \in Clients : Task(c) \/ Resolve(c)) \/ Environment

Spec == Init /\ [][Next]_vars

\* The runtime polls main and every task that can go on, and the registry
\* answers (ErrorRegistry's EveryCallReturns).  Renewals are completed, the
\* address is given up in the end, and the server is started again when it
\* fails.  No client has to connect, to hang up or, if silent, to do anything.
FairSpec ==
  /\ Spec
  /\ WF_vars(Start) /\ WF_vars(AcceptLoop)
  /\ \A c \in Clients : WF_vars(Task(c)) /\ WF_vars(Resolve(c))
  /\ WF_vars(\E f \in Files : Replace(f) /\ content'[f] = issued)
  /\ WF_vars(FreeAddress) /\ WF_vars(Restart)

-------------------------------------------------------------------------------
(* Properties *)

Good(k) == k.syntax /\ k.tls # "unsafe" /\ k.locations = "good" /\ (k.tls # "none" => k.provider)

\* Whatever a renewal does to the files during a start, a server that serves
\* has the certificate it was configured with, and the key of that certificate;
\* one that has a defect in its configuration does not serve.
ServesMatchingPair ==
  pc = "serving" =>
    /\ Good(config)
    /\ config.tls # "none" <=> acceptor # NothingYet
    /\ acceptor["cert"] = acceptor["key"]

\* A start fails only for a defect of the configuration, or because the address
\* or the files were not as they should be at its beginning or changed during
\* it; and it panics only for the two defects that nothing refuses.
FailureExplained ==
  /\ pc = "failed" => ~ Good(config) \/ disturbed
  /\ pc = "panicked" =>
       config.locations = "panic" \/ (config.tls # "none" /\ ~ config.provider)

\* A server with a good configuration serves in the end, once renewals are
\* over: no start is stuck.
ServesAtLast == Good(config) => <>(pc = "serving")

\* Every connection that is not silent ends, and its client has been answered
\* or has given up, no matter how many silent ones hold on to theirs and how
\* often descriptors run out, as long as one is left for the others.
EveryoneServed ==
  \A c \in Clients \ Silent : conn[c] = "queued" ~> conn[c] = "away"
===============================================================================
