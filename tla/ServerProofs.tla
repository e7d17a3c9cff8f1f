----------------------------- MODULE ServerProofs -----------------------------
(***************************************************************************)
(* Proofs about Server, for any configurations, any finite set of clients  *)
(* and any number of descriptors and renewals.                             *)
(*                                                                         *)
(* A step either belongs to a start, or to what is around it, and leaves   *)
(* the connections alone; or it belongs to the connections and leaves the  *)
(* start alone.  So the invariant has two halves.  That of the start says  *)
(* what each place main can be in has established, and what is still as it *)
(* was when nothing disturbed the start.  That of the connections says     *)
(* that each one waits at most once in the queue of accept.                *)
(***************************************************************************)
EXTENDS Server, FiniteSetTheorems, SequenceTheorems, TLAPS

\* The types of what a start reads and holds.
StartTypes ==
  /\ config \in Configs
  /\ issued \in 1..MaxRenewal /\ content \in [Files -> 0..issued] /\ taken \in BOOLEAN
  /\ pc \in Starting \cup {"serving", "failed", "panicked"}
  /\ decoded \in [Files -> 0..issued] /\ acceptor \in [Files -> 0..issued]
  /\ disturbed \in BOOLEAN

\* What the steps main has taken have made sure of.
Established ==
  /\ pc \in {"decode", "router", "registry", "tls", "bind"} => config.syntax
  /\ config.tls # "files" => decoded = NothingYet
  /\ pc \in {"router", "registry", "tls", "bind"} =>
       /\ validate
       /\ config.tls # "none" => \A f \in Files : decoded[f] # 0
  /\ pc \in {"registry", "tls", "bind"} => config.locations # "panic"
  /\ pc \in Starting \ {"bind"} => acceptor = NothingYet
  /\ pc = "bind" =>
       /\ acceptor = decoded /\ decoded["cert"] = decoded["key"]
       /\ config.tls # "none" => config.provider

\* What holds of the surroundings of a start that nothing has disturbed.
Undisturbed ==
  pc # "serving" /\ ~ disturbed =>
    Paired /\ ~ taken /\ \A f \in Files : decoded[f] \in {0, content[f]}

\* The invariant of the start.
StartInv ==
  StartTypes /\ Established /\ Undisturbed /\ ServesMatchingPair /\ FailureExplained

\* Connections that are still in the backlog.
Waiting == {"queued", "aborted"}

\* What a connection may be.
ConnTypes == conn \in [Clients -> Accepted \cup {"away"} \cup Waiting]

\* The queue holds the connections that wait, each once.
QueuedOnce ==
  /\ queue \in Seq(Clients)
  /\ \A i \in DOMAIN queue : conn[queue[i]] \in Waiting
  /\ \A c \in Clients : conn[c] \in Waiting => \E i \in DOMAIN queue : queue[i] = c
  /\ \A i, j \in DOMAIN queue : queue[i] = queue[j] => i = j

\* The invariant of the connections.
ConnInv == ConnTypes /\ QueuedOnce /\ Used <= FdLimit

\* The inductive invariant.
IndInv == StartInv /\ ConnInv

\* The types follow from it.
LEMMA TypeOKFollows == IndInv => TypeOK
BY DEF IndInv, StartInv, StartTypes, ConnInv, ConnTypes, QueuedOnce, Waiting, TypeOK

\* The steps of the start and of the files it reads.
StartStep ==
  Start \/ Renew \/ (\E f \in Files : Replace(f)) \/ FreeAddress \/ Restart

\* The steps of clients, the accept loop and its tasks.
ConnStep ==
  \/ AcceptLoop
  \/ \E c \in Clients :
       Task(c) \/ Resolve(c) \/ Connect(c) \/ Abort(c) \/ GiveUp(c)
  \/ \E s \in Statuses : LosePage(s)

\* There are no other steps.
LEMMA StepIsEither == Next => StartStep \/ ConnStep
BY DEF Next, Environment, StartStep, ConnStep

\* A start touches no connection.
LEMMA StartStepLeaves == StartStep => UNCHANGED connVars
BY DEF StartStep, Start, ParseConfig, Decode, Validate, BuildRouter, LoadPages, BuildTls,
       Bind, BindError, Renew, Replace, FreeAddress, Restart

\* A connection touches nothing of the start.
LEMMA ConnStepLeaves == ConnStep => UNCHANGED <<fileVars, startVars>>
BY DEF ConnStep, AcceptLoop, Accept, AcceptError, Task, Handshake, OpenFile, SendFile,
       HandleError, SendErrorPage, Resolve, AnswerWithPage, Connect, Abort, GiveUp, LosePage

\* The fields of a configuration.
LEMMA ConfigType ==
  ASSUME config \in Configs
  PROVE  /\ config.syntax \in BOOLEAN /\ config.provider \in BOOLEAN
         /\ config.tls \in {"none", "files", "unsafe"}
         /\ config.locations \in {"good", "unsafe", "panic"}
BY ConfigsAssumption

-------------------------------------------------------------------------------
(* The start. *)

\* It holds initially.
LEMMA InitStartInv == Init => StartInv
<1> SUFFICES ASSUME Init PROVE StartInv
  OBVIOUS
<1>1. StartTypes
  BY NumbersAssumption DEF Init, StartTypes, NothingYet, Files, Starting
<1>2. Established /\ ServesMatchingPair /\ FailureExplained
  BY DEF Init, Established, ServesMatchingPair, FailureExplained
<1>3. Undisturbed
  BY DEF Init, Undisturbed, NothingYet, Files
<1>4. QED BY <1>1, <1>2, <1>3 DEF StartInv

\* Steps that do not touch what is decoded, the acceptor or the history.
LEMMA GoToInv ==
  ASSUME StartInv, NEW l \in Starting \cup {"failed", "panicked"}, GoTo(l),
         UNCHANGED fileVars, pc # "serving", Established', FailureExplained'
  PROVE  StartInv'
<1>1. StartTypes'
  BY DEF StartInv, StartTypes, GoTo, fileVars
<1>2. Undisturbed' /\ ServesMatchingPair'
  BY DEF StartInv, Undisturbed, ServesMatchingPair, Paired, GoTo, fileVars, Starting
<1>3. QED BY <1>1, <1>2 DEF StartInv

\* ParseConfig keeps the invariant.
LEMMA ParseConfigInv == ASSUME StartInv, ParseConfig PROVE StartInv'
<1>1. config.syntax \in BOOLEAN /\ pc = "parse" /\ UNCHANGED fileVars
  BY ConfigType DEF StartInv, StartTypes, ParseConfig
<1>2. CASE config.syntax
  <2>1. GoTo("decode")
    BY <1>2 DEF ParseConfig
  <2>2. Established' /\ FailureExplained'
    BY <1>1, <1>2, <2>1 DEF StartInv, Established, FailureExplained, GoTo, Starting
  <2>3. QED BY <1>1, <2>1, <2>2, GoToInv DEF Starting
<1>3. CASE ~ config.syntax
  <2>1. GoTo("failed")
    BY <1>3 DEF ParseConfig
  <2>2. Established' /\ FailureExplained'
    BY <1>1, <1>3, <2>1 DEF StartInv, Established, FailureExplained, Good, GoTo, Starting
  <2>3. QED BY <1>1, <2>1, <2>2, GoToInv
<1>4. QED BY <1>1, <1>2, <1>3

\* A file that is not there or cannot be parsed disturbed the start.
LEMMA DecodeInv == ASSUME StartInv, NEW f \in Files, Decode(f) PROVE StartInv'
<1>1. /\ pc = "decode" /\ config.tls # "none" /\ decoded[f] = 0 /\ UNCHANGED fileVars
      /\ config.tls \in {"none", "files", "unsafe"}
  BY ConfigType DEF StartInv, StartTypes, Decode
<1>2. CASE config.tls = "unsafe" \/ content[f] = 0
  <2>1. GoTo("failed")
    BY <1>2 DEF Decode
  <2>2. ~ Good(config) \/ disturbed
    BY <1>1, <1>2 DEF StartInv, Undisturbed, Paired, Good, Files
  <2>3. Established' /\ FailureExplained'
    BY <1>1, <2>1, <2>2 DEF StartInv, Established, FailureExplained, Good, GoTo, Starting
  <2>4. QED BY <1>1, <2>1, <2>3, GoToInv
<1>3. CASE config.tls = "files" /\ content[f] # 0
  <2>1. /\ decoded' = [decoded EXCEPT ![f] = content[f]]
        /\ UNCHANGED <<config, pc, acceptor, disturbed>>
    BY <1>3 DEF Decode
  <2>2. StartTypes'
    BY <1>1, <2>1 DEF StartInv, StartTypes, fileVars
  <2>3. Established'
    BY <1>1, <1>3, <2>1 DEF StartInv, Established
  <2>4. Undisturbed'
    BY <1>1, <2>1 DEF StartInv, StartTypes, Undisturbed, Paired, fileVars
  <2>5. ServesMatchingPair' /\ FailureExplained'
    BY <1>1, <2>1 DEF ServesMatchingPair, FailureExplained
  <2>6. QED BY <2>2, <2>3, <2>4, <2>5 DEF StartInv
<1>4. QED BY <1>1, <1>2, <1>3

\* Validate keeps the invariant.
LEMMA ValidateInv == ASSUME StartInv, Validate PROVE StartInv'
<1>1. /\ pc = "decode" /\ UNCHANGED fileVars
      /\ config.tls # "none" => \A f \in Files : decoded[f] # 0
  BY DEF Validate
<1>2. CASE validate
  <2>1. GoTo("router")
    BY <1>2 DEF Validate
  <2>2. Established' /\ FailureExplained'
    BY <1>1, <1>2, <2>1 DEF StartInv, Established, FailureExplained, validate, GoTo, Starting
  <2>3. QED BY <1>1, <2>1, <2>2, GoToInv DEF Starting
<1>3. CASE ~ validate
  <2>1. GoTo("failed")
    BY <1>3 DEF Validate
  <2>2. Established' /\ FailureExplained'
    BY <1>1, <1>3, <2>1 DEF StartInv, Established, FailureExplained, Good, validate, GoTo, Starting
  <2>3. QED BY <1>1, <2>1, <2>2, GoToInv
<1>4. QED BY <1>2, <1>3

\* BuildRouter keeps the invariant.
LEMMA BuildRouterInv == ASSUME StartInv, BuildRouter PROVE StartInv'
<1>1. pc = "router" /\ UNCHANGED fileVars
  BY DEF BuildRouter
<1>2. CASE config.locations # "panic"
  <2>1. GoTo("registry")
    BY <1>2 DEF BuildRouter
  <2>2. Established' /\ FailureExplained'
    BY <1>1, <1>2, <2>1 DEF StartInv, Established, FailureExplained, validate, GoTo, Starting
  <2>3. QED BY <1>1, <2>1, <2>2, GoToInv DEF Starting
<1>3. CASE config.locations = "panic"
  <2>1. GoTo("panicked")
    BY <1>3 DEF BuildRouter
  <2>2. Established' /\ FailureExplained'
    BY <1>1, <1>3, <2>1 DEF StartInv, Established, FailureExplained, GoTo, Starting
  <2>3. QED BY <1>1, <2>1, <2>2, GoToInv
<1>4. QED BY <1>2, <1>3

\* LoadPages keeps the invariant.
LEMMA LoadPagesInv == ASSUME StartInv, LoadPages PROVE StartInv'
<1>1. pc = "registry" /\ UNCHANGED fileVars /\ GoTo("tls")
  BY DEF LoadPages
<1>2. Established' /\ FailureExplained'
  BY <1>1 DEF StartInv, Established, FailureExplained, validate, GoTo, Starting
<1>3. QED BY <1>1, <1>2, GoToInv DEF Starting

\* A pair that rustls refuses was disturbed: both files were decoded, and one
\* of them was not of the renewal of the other.
LEMMA BuildTlsInv == ASSUME StartInv, BuildTls PROVE StartInv'
<1>1. pc = "tls" /\ UNCHANGED fileVars /\ acceptor = NothingYet
  BY DEF BuildTls, StartInv, Established, Starting
<1>2. CASE config.tls = "none" /\ GoTo("bind")
  <2>1. decoded = NothingYet
    BY <1>2 DEF StartInv, Established
  <2>2. Established' /\ FailureExplained'
    BY <1>1, <1>2, <2>1 DEF StartInv, Established, FailureExplained, validate, GoTo,
                            Starting, NothingYet, Files
  <2>3. QED BY <1>1, <1>2, <2>2, GoToInv DEF Starting
<1>3. CASE config.tls # "none" /\ ProviderPanics /\ GoTo("panicked")
  <2>1. Established' /\ FailureExplained'
    BY <1>1, <1>3 DEF StartInv, Established, FailureExplained, ProviderPanics, GoTo, Starting
  <2>2. QED BY <1>1, <1>3, <2>1, GoToInv
<1>4. CASE config.tls # "none" /\ ~ ProviderPanics /\ ~ build_rustls_server_config /\ GoTo("failed")
  <2>1. \A f \in Files : decoded[f] # 0
    BY <1>1, <1>4 DEF StartInv, Established
  <2>2. disturbed
    BY <1>1, <1>4, <2>1 DEF StartInv, Undisturbed, Paired, Files, build_rustls_server_config
  <2>3. Established' /\ FailureExplained'
    BY <1>1, <1>4, <2>2 DEF StartInv, Established, FailureExplained, GoTo, Starting
  <2>4. QED BY <1>1, <1>4, <2>3, GoToInv
<1>5. CASE config.tls # "none" /\ ~ ProviderPanics /\ build_rustls_server_config /\ WithAcceptor
  <2>1. /\ pc' = "bind" /\ acceptor' = decoded /\ UNCHANGED <<config, decoded, disturbed>>
        /\ decoded["cert"] = decoded["key"] /\ config.provider
    BY <1>5 DEF WithAcceptor, ProviderPanics, build_rustls_server_config
  <2>2. StartTypes'
    BY <1>1, <2>1 DEF StartInv, StartTypes, Starting, fileVars
  <2>3. Established'
    BY <1>1, <2>1 DEF StartInv, Established, validate
  <2>4. Undisturbed' /\ ServesMatchingPair' /\ FailureExplained'
    BY <1>1, <2>1 DEF StartInv, Undisturbed, Paired, ServesMatchingPair, FailureExplained, fileVars
  <2>5. QED BY <2>2, <2>3, <2>4 DEF StartInv
<1>6. QED BY <1>2, <1>3, <1>4, <1>5 DEF BuildTls

\* A server that is bound has passed every check.
LEMMA BindInv == ASSUME StartInv, Bind PROVE StartInv'
<1>1. /\ pc = "bind" /\ pc' = "serving" /\ issued' = MaxRenewal
      /\ content' = NothingYet /\ decoded' = NothingYet /\ disturbed' = FALSE
      /\ UNCHANGED <<taken, config, acceptor>>
  BY DEF Bind
<1>2. StartTypes'
  <2>1. issued \in 1..MaxRenewal /\ MaxRenewal \in Nat \ {0}
    BY NumbersAssumption DEF StartInv, StartTypes
  <2>2. 0..issued \subseteq 0..MaxRenewal
    BY <2>1
  <2>3. acceptor \in [Files -> 0..MaxRenewal]
    BY <2>2 DEF StartInv, StartTypes
  <2>4. NothingYet \in [Files -> 0..MaxRenewal]
    BY <2>1 DEF NothingYet
  <2>5. config' \in Configs /\ taken' \in BOOLEAN /\ issued' \in 1..MaxRenewal
    BY <1>1, <2>1 DEF StartInv, StartTypes
  <2>6. /\ content' \in [Files -> 0..issued'] /\ decoded' \in [Files -> 0..issued']
        /\ acceptor' \in [Files -> 0..issued']
    BY <1>1, <2>3, <2>4
  <2>7. QED BY <1>1, <2>5, <2>6 DEF StartTypes
<1>3. ServesMatchingPair'
  <2>1. /\ config.syntax /\ config.locations = "good"
        /\ config.tls # "none" => config.provider
    BY <1>1, ConfigType DEF StartInv, StartTypes, Established, validate
  <2>2. /\ config.tls # "files" => decoded = NothingYet
        /\ config.tls # "none" => decoded["cert"] # 0
        /\ acceptor = decoded /\ decoded["cert"] = decoded["key"]
    BY <1>1 DEF StartInv, Established, Files
  <2>3. NothingYet["cert"] = 0
    BY DEF NothingYet, Files
  <2>4. config.tls # "unsafe" /\ (config.tls # "none" <=> acceptor # NothingYet)
    BY <2>2, <2>3, ConfigType DEF StartInv, StartTypes
  <2>5. QED BY <1>1, <2>1, <2>2, <2>4 DEF ServesMatchingPair, Good
<1>4. Established' /\ Undisturbed' /\ FailureExplained'
  BY <1>1 DEF Established, Undisturbed, FailureExplained, Starting
<1>5. QED BY <1>2, <1>3, <1>4 DEF StartInv

\* BindError keeps the invariant.
LEMMA BindErrorInv == ASSUME StartInv, BindError PROVE StartInv'
<1>1. pc = "bind" /\ UNCHANGED fileVars /\ GoTo("failed") /\ disturbed
  BY DEF BindError, StartInv, Undisturbed
<1>2. Established' /\ FailureExplained'
  BY <1>1 DEF StartInv, Established, FailureExplained, GoTo, Starting
<1>3. QED BY <1>1, <1>2, GoToInv

\* A renewal and the address change nothing the start holds; what they change
\* under it is recorded.
LEMMA AroundInv ==
  ASSUME StartInv, Renew \/ (\E f \in Files : Replace(f)) \/ FreeAddress
  PROVE  StartInv'
<1>1. UNCHANGED <<config, pc, decoded, acceptor>>
  BY DEF Renew, Replace, FreeAddress, startVars
<1>2. disturbed' = disturbed \/ (disturbed' = TRUE /\ pc # "serving")
  BY DEF Renew, Replace, FreeAddress, startVars
<1>3. StartTypes'
  <2>1. CASE Renew
    BY <1>1, <2>1, NumbersAssumption DEF Renew, StartInv, StartTypes, startVars
  <2>2. CASE \E f \in Files : Replace(f)
    BY <1>1, <2>2, NumbersAssumption DEF Replace, StartInv, StartTypes
  <2>3. CASE FreeAddress
    BY <1>1, <2>3 DEF FreeAddress, StartInv, StartTypes, startVars
  <2>4. QED BY <2>1, <2>2, <2>3
<1>4. Undisturbed'
  BY <1>1 DEF Renew, Replace, FreeAddress, startVars, StartInv, Undisturbed, Paired
<1>5. Established' /\ ServesMatchingPair' /\ FailureExplained'
  BY <1>1, <1>2 DEF StartInv, Established, validate, ServesMatchingPair, FailureExplained
<1>6. QED BY <1>3, <1>4, <1>5 DEF StartInv

\* Restart keeps the invariant.
LEMMA RestartInv == ASSUME StartInv, Restart PROVE StartInv'
<1>1. /\ pc' = "parse" /\ decoded' = NothingYet /\ acceptor' = NothingYet
      /\ disturbed' = (taken \/ ~ Paired) /\ UNCHANGED <<fileVars, config>>
  BY DEF Restart
<1>2. StartTypes'
  BY <1>1 DEF StartInv, StartTypes, NothingYet, Starting, fileVars
<1>3. Established' /\ ServesMatchingPair' /\ FailureExplained'
  BY <1>1 DEF Established, ServesMatchingPair, FailureExplained
<1>4. Undisturbed'
  BY <1>1 DEF Undisturbed, Paired, NothingYet, Files, fileVars
<1>5. QED BY <1>2, <1>3, <1>4 DEF StartInv

\* Every one of these steps keeps the invariant.
LEMMA StartStepInv == ASSUME StartInv, StartStep PROVE StartInv'
BY ParseConfigInv, DecodeInv, ValidateInv, BuildRouterInv, LoadPagesInv, BuildTlsInv,
   BindInv, BindErrorInv, AroundInv, RestartInv DEF StartStep, Start

\* The steps of connections keep the invariant of the start.
LEMMA StartUnchanged ==
  ASSUME StartInv, UNCHANGED <<fileVars, startVars>>
  PROVE  StartInv'
BY DEF fileVars, startVars, StartInv, StartTypes, Established, Undisturbed, Paired, validate,
       ServesMatchingPair, FailureExplained

-------------------------------------------------------------------------------
(* The connections. *)

\* It holds initially.
LEMMA InitConnInv == Init => ConnInv
<1> SUFFICES ASSUME Init PROVE ConnInv
  OBVIOUS
<1>1. ConnTypes
  BY DEF Init, ConnTypes
<1>2. QueuedOnce
  BY DEF Init, QueuedOnce, Waiting
<1>3. Used = 0
  <2>1. /\ {c \in Clients : conn[c] \in Accepted} = {}
        /\ {c \in Clients : conn[c] = "sending"} = {}
    BY DEF Init, Accepted
  <2>2. QED BY <2>1, FS_EmptySet DEF Used
<1>4. QED BY <1>1, <1>2, <1>3, NumbersAssumption DEF ConnInv

\* What becomes of the descriptors when one connection goes on.
LEMMA UsedAfter ==
  ASSUME ConnTypes, NEW c \in Clients, NEW to, conn' = [conn EXCEPT ![c] = to]
  PROVE  /\ Used \in Nat /\ Used' \in Nat
         /\ to \notin Accepted => Used' <= Used
         /\ conn[c] \in Accepted /\ to # "sending" => Used' <= Used
         /\ to # "sending" => Used' <= Used + 1
         /\ conn[c] \in Accepted => Used' <= Used + 1
<1> DEFINE H == {d \in Clients : conn[d] \in Accepted}
           S == {d \in Clients : conn[d] = "sending"}
<1>1. /\ H' = IF to \in Accepted THEN H \cup {c} ELSE H \ {c}
      /\ S' = IF to = "sending" THEN S \cup {c} ELSE S \ {c}
      /\ c \in H <=> conn[c] \in Accepted
  BY DEF ConnTypes
<1>2. Used = Cardinality(H) + Cardinality(S) /\ Used' = Cardinality(H') + Cardinality(S')
  BY DEF Used
<1>3. IsFiniteSet(H) /\ IsFiniteSet(S)
  BY NumbersAssumption, FS_Subset
<1>4. "sending" \in Accepted
  BY DEF Accepted
<1> HIDE DEF H, S
<1>5. Cardinality(H) \in Nat /\ Cardinality(S) \in Nat
  BY <1>3, FS_CardinalityType
<1>6. /\ Cardinality(H') \in Nat
      /\ to \notin Accepted \/ c \in H => Cardinality(H') <= Cardinality(H)
      /\ Cardinality(H') <= Cardinality(H) + 1
  <2>1. CASE to \in Accepted
    <3>1. H' = H \cup {c}
      BY <2>1, <1>1
    <3>2. Cardinality(H \cup {c}) = IF c \in H THEN Cardinality(H) ELSE Cardinality(H) + 1
      BY <1>3, FS_AddElement
    <3>3. QED BY <2>1, <3>1, <3>2, <1>5
  <2>2. CASE to \notin Accepted
    <3>1. H' = H \ {c} /\ H' \in SUBSET H
      BY <2>2, <1>1
    <3>2. IsFiniteSet(H') /\ Cardinality(H') <= Cardinality(H)
      BY <3>1, <1>3, FS_Subset
    <3>3. QED BY <3>2, <1>5, FS_CardinalityType
  <2>3. QED BY <2>1, <2>2
<1>7. /\ Cardinality(S') \in Nat
      /\ to # "sending" => Cardinality(S') <= Cardinality(S)
      /\ Cardinality(S') <= Cardinality(S) + 1
  <2>1. CASE to = "sending"
    <3>1. S' = S \cup {c}
      BY <2>1, <1>1
    <3>2. Cardinality(S \cup {c}) = IF c \in S THEN Cardinality(S) ELSE Cardinality(S) + 1
      BY <1>3, FS_AddElement
    <3>3. QED BY <2>1, <3>1, <3>2, <1>5
  <2>2. CASE to # "sending"
    <3>1. S' \in SUBSET S
      BY <2>2, <1>1
    <3>2. IsFiniteSet(S') /\ Cardinality(S') <= Cardinality(S)
      BY <3>1, <1>3, FS_Subset
    <3>3. QED BY <2>2, <3>2, <1>5, FS_CardinalityType
  <2>3. QED BY <2>1, <2>2
<1>8. QED BY <1>1, <1>2, <1>4, <1>5, <1>6, <1>7

\* A connection goes on without entering the queue or leaving it.
LEMMA StepInv ==
  ASSUME ConnInv, NEW c \in Clients, NEW to, conn' = [conn EXCEPT ![c] = to],
         to \in Accepted \cup {"away"} \cup Waiting,
         conn[c] \in Waiting <=> to \in Waiting,
         UNCHANGED queue, Used' <= FdLimit
  PROVE  ConnInv'
<1>1. ConnTypes'
  BY DEF ConnInv, ConnTypes
<1>2. \A d \in Clients : conn'[d] \in Waiting <=> conn[d] \in Waiting
  BY DEF ConnInv, ConnTypes
<1>3. \A i \in DOMAIN queue : queue[i] \in Clients
  BY DEF ConnInv, QueuedOnce
<1>4. QueuedOnce'
  BY <1>2, <1>3 DEF ConnInv, QueuedOnce
<1>5. QED BY <1>1, <1>4, NumbersAssumption DEF ConnInv

\* Connect keeps the invariant.
LEMMA ConnectInv == ASSUME ConnInv, NEW c \in Clients, Connect(c) PROVE ConnInv'
<1>1. /\ conn[c] = "away" /\ conn' = [conn EXCEPT ![c] = "queued"]
      /\ queue' = Append(queue, c)
  BY DEF Connect
<1>2. ConnTypes' /\ Used' <= FdLimit
  <2>1. Used' <= Used /\ Used \in Nat /\ Used' \in Nat
    <3>1. "queued" \notin Accepted
      BY DEF Accepted
    <3>2. QED BY <1>1, <3>1, UsedAfter DEF ConnInv
  <2>2. QED BY <1>1, <2>1, NumbersAssumption DEF ConnInv, ConnTypes, Waiting
<1>3. /\ queue \in Seq(Clients) /\ queue' \in Seq(Clients)
      /\ Len(queue) \in Nat /\ DOMAIN queue = 1..Len(queue)
      /\ DOMAIN queue' = 1..(Len(queue) + 1)
      /\ \A i \in DOMAIN queue : queue'[i] = queue[i]
      /\ queue'[Len(queue) + 1] = c
  BY <1>1, AppendProperties DEF ConnInv, QueuedOnce
<1>4. \A i \in DOMAIN queue : queue[i] \in Clients /\ queue[i] # c
  BY <1>1, <1>3 DEF ConnInv, QueuedOnce, Waiting
<1>5. \A d \in Clients \ {c} : conn'[d] = conn[d]
  BY <1>1 DEF ConnInv, ConnTypes
<1>6. \A i \in DOMAIN queue' : i \in DOMAIN queue \/ i = Len(queue) + 1
  BY <1>3
<1>7. \A i \in DOMAIN queue' : conn'[queue'[i]] \in Waiting
  <2> TAKE i \in DOMAIN queue'
  <2>1. CASE i \in DOMAIN queue
    BY <2>1, <1>3, <1>4, <1>5 DEF ConnInv, QueuedOnce
  <2>2. CASE i = Len(queue) + 1
    BY <2>2, <1>1, <1>3 DEF ConnInv, ConnTypes, Waiting
  <2>3. QED BY <2>1, <2>2, <1>6
<1>8. ASSUME NEW d \in Clients, conn'[d] \in Waiting PROVE \E i \in DOMAIN queue' : queue'[i] = d
  <2>1. CASE d = c
    BY <2>1, <1>3
  <2>2. CASE d # c
    <3>1. PICK i \in DOMAIN queue : queue[i] = d
      BY <2>2, <1>5, <1>8 DEF ConnInv, QueuedOnce
    <3>2. i \in DOMAIN queue' /\ queue'[i] = d
      BY <3>1, <1>3
    <3>3. QED BY <3>2
  <2>3. QED BY <2>1, <2>2
<1>9. ASSUME NEW i \in DOMAIN queue', NEW j \in DOMAIN queue', queue'[i] = queue'[j]
      PROVE  i = j
  <2>1. CASE i \in DOMAIN queue /\ j \in DOMAIN queue
    BY <2>1, <1>3, <1>9 DEF ConnInv, QueuedOnce
  <2>2. CASE i \in DOMAIN queue /\ j = Len(queue) + 1
    BY <2>2, <1>3, <1>4, <1>9
  <2>3. CASE j \in DOMAIN queue /\ i = Len(queue) + 1
    BY <2>3, <1>3, <1>4, <1>9
  <2>4. QED BY <2>1, <2>2, <2>3, <1>6
<1>10. QED BY <1>2, <1>3, <1>7, <1>8, <1>9 DEF ConnInv, QueuedOnce

\* The connection at the head of the queue leaves it: no other place has it.
LEMMA DequeueInv ==
  ASSUME ConnInv, queue # <<>>, queue' = Tail(queue),
         NEW to \in Accepted \cup {"away"}, conn' = [conn EXCEPT ![Head(queue)] = to],
         Used' <= FdLimit
  PROVE  ConnInv'
<1> DEFINE h == Head(queue)
<1>1. /\ queue \in Seq(Clients) /\ queue' \in Seq(Clients)
      /\ Len(queue) \in Nat /\ Len(queue) > 0
      /\ DOMAIN queue = 1..Len(queue) /\ DOMAIN queue' = 1..(Len(queue) - 1)
      /\ h \in Clients /\ queue[1] = h
      /\ \A i \in 1..(Len(queue) - 1) : queue'[i] = queue[i + 1]
  BY HeadTailProperties DEF ConnInv, QueuedOnce
<1>2. conn' = [conn EXCEPT ![h] = to]
  OBVIOUS
<1> HIDE DEF h
<1>3. ConnTypes'
  BY <1>2 DEF ConnInv, ConnTypes
<1>4. conn'[h] \notin Waiting /\ \A d \in Clients \ {h} : conn'[d] = conn[d]
  BY <1>1, <1>2 DEF ConnInv, ConnTypes, Waiting, Accepted
<1>5. \A i \in DOMAIN queue' : /\ i + 1 \in DOMAIN queue /\ queue'[i] = queue[i + 1]
                               /\ queue[i + 1] \in Clients \ {h}
  <2> TAKE i \in DOMAIN queue'
  <2>1. i \in Nat /\ i + 1 \in DOMAIN queue /\ 1 \in DOMAIN queue /\ i + 1 # 1
    BY <1>1
  <2>2. queue[i + 1] # h
    BY <2>1, <1>1 DEF ConnInv, QueuedOnce
  <2>3. QED BY <2>1, <2>2, <1>1
<1>6. \A i \in DOMAIN queue' : conn'[queue'[i]] \in Waiting
  BY <1>4, <1>5 DEF ConnInv, QueuedOnce
<1>7. ASSUME NEW d \in Clients, conn'[d] \in Waiting PROVE \E i \in DOMAIN queue' : queue'[i] = d
  <2>1. d # h /\ conn[d] \in Waiting
    BY <1>4, <1>7
  <2>2. PICK i \in DOMAIN queue : queue[i] = d
    BY <2>1 DEF ConnInv, QueuedOnce
  <2>3. i - 1 \in DOMAIN queue' /\ (i - 1) + 1 = i
    BY <2>1, <2>2, <1>1
  <2>4. queue'[i - 1] = d
    BY <2>2, <2>3, <1>5
  <2>5. QED BY <2>3, <2>4
<1>8. ASSUME NEW i \in DOMAIN queue', NEW j \in DOMAIN queue', queue'[i] = queue'[j]
      PROVE  i = j
  <2>1. i + 1 = j + 1
    BY <1>5, <1>8 DEF ConnInv, QueuedOnce
  <2>2. QED BY <2>1, <1>1
<1>9. QED BY <1>1, <1>3, <1>6, <1>7, <1>8 DEF ConnInv, QueuedOnce

\* AcceptLoop keeps the invariant.
LEMMA AcceptLoopInv == ASSUME ConnInv, AcceptLoop PROVE ConnInv'
<1> Head(queue) \in Clients \/ queue = <<>>
  BY HeadTailProperties DEF ConnInv, QueuedOnce
<1> Used \in Nat /\ FdLimit \in Nat /\ Used <= FdLimit
  <2>1. IsFiniteSet({c \in Clients : conn[c] \in Accepted})
    BY NumbersAssumption, FS_Subset
  <2>2. IsFiniteSet({c \in Clients : conn[c] = "sending"})
    BY NumbersAssumption, FS_Subset
  <2>3. Used \in Nat
    BY <2>1, <2>2, FS_CardinalityType DEF Used
  <2>4. QED BY <2>3, NumbersAssumption DEF ConnInv
<1>1. CASE Accept
  <2>1. /\ queue # <<>> /\ Used < FdLimit /\ queue' = Tail(queue)
    BY <1>1 DEF Accept
  <2>2. PICK to \in {"request", "handshake"} : conn' = [conn EXCEPT ![Head(queue)] = to]
    BY <1>1 DEF Accept, Spawn
  <2>3. Used' <= Used + 1 /\ Used' \in Nat
    BY <2>1, <2>2, UsedAfter DEF ConnInv
  <2>4. Used' <= FdLimit
    BY <2>1, <2>3
  <2>5. QED BY <2>1, <2>2, <2>4, DequeueInv DEF Accepted
<1>2. CASE AcceptError /\ UNCHANGED <<queue, conn>>
  BY <1>2 DEF ConnInv, ConnTypes, QueuedOnce, Used
<1>3. CASE /\ AcceptError /\ queue # <<>> /\ conn' = [conn EXCEPT ![Head(queue)] = "away"]
           /\ queue' = Tail(queue)
  <2>1. Used' <= Used /\ Used' \in Nat
    <3>1. "away" \notin Accepted
      BY DEF Accepted
    <3>2. QED BY <1>3, <3>1, UsedAfter DEF ConnInv
  <2>2. Used' <= FdLimit
    BY <2>1
  <2>3. QED BY <1>3, <2>2, DequeueInv
<1>4. QED BY <1>1, <1>2, <1>3 DEF AcceptLoop, AcceptError

\* The task of a connection takes another descriptor only when there is one.
LEMMA TaskInv ==
  ASSUME ConnInv, NEW c \in Clients, Task(c) \/ Abort(c) \/ GiveUp(c)
  PROVE  ConnInv'
<1> Used \in Nat /\ Used <= FdLimit /\ FdLimit \in Nat
  <2>1. IsFiniteSet({d \in Clients : conn[d] \in Accepted})
    BY NumbersAssumption, FS_Subset
  <2>2. IsFiniteSet({d \in Clients : conn[d] = "sending"})
    BY NumbersAssumption, FS_Subset
  <2>3. Used \in Nat
    BY <2>1, <2>2, FS_CardinalityType DEF Used
  <2>4. QED BY <2>3, NumbersAssumption DEF ConnInv
<1>1. UNCHANGED queue
  BY DEF Task, Handshake, OpenFile, SendFile, HandleError, SendErrorPage, Abort, GiveUp
<1>2. CASE OpenFile(c)
  <2>1. conn[c] = "request" /\ conn' = [conn EXCEPT ![c] = "sending"] /\ Used < FdLimit
    BY <1>2 DEF OpenFile, Step
  <2>2. Used' <= Used + 1 /\ Used' \in Nat
    BY <2>1, UsedAfter DEF ConnInv, Accepted
  <2>3. Used' <= FdLimit
    BY <2>1, <2>2
  <2>4. QED BY <1>1, <2>1, <2>3, StepInv DEF Accepted, Waiting
<1>3. CASE Handshake(c) \/ SendFile(c) \/ HandleError(c) \/ SendErrorPage(c) \/ GiveUp(c)
  <2>1. PICK to \in {"request", "away", "asking"} :
          conn[c] \in Accepted /\ conn' = [conn EXCEPT ![c] = to]
    BY <1>3 DEF Handshake, SendFile, HandleError, SendErrorPage, GiveUp, Step, Accepted
  <2>2. Used' <= Used /\ Used' \in Nat
    BY <2>1, UsedAfter DEF ConnInv
  <2>3. Used' <= FdLimit
    BY <2>2
  <2>4. QED BY <1>1, <2>1, <2>3, StepInv DEF Accepted, Waiting
<1>4. CASE Abort(c)
  <2>1. conn[c] = "queued" /\ conn' = [conn EXCEPT ![c] = "aborted"]
    BY <1>4 DEF Abort
  <2>2. Used' <= Used /\ Used' \in Nat
    <3>1. "aborted" \notin Accepted
      BY DEF Accepted
    <3>2. QED BY <2>1, <3>1, UsedAfter DEF ConnInv
  <2>3. Used' <= FdLimit
    BY <2>2
  <2>4. QED BY <1>1, <2>1, <2>3, StepInv DEF Accepted, Waiting
<1>5. QED BY <1>2, <1>3, <1>4 DEF Task

\* The steps of a start keep the invariant of the connections.
LEMMA ConnUnchanged == ASSUME ConnInv, UNCHANGED connVars PROVE ConnInv'
BY DEF connVars, ConnInv, ConnTypes, QueuedOnce, Used

\* Every one of these steps keeps the invariant.
LEMMA ConnStepInv == ASSUME ConnInv, ConnStep PROVE ConnInv'
<1>1. CASE (\E c \in Clients : Resolve(c)) \/ \E s \in Statuses : LosePage(s)
  <2>1. UNCHANGED connVars
    BY <1>1 DEF Resolve, AnswerWithPage, LosePage
  <2>2. QED BY <2>1, ConnUnchanged
<1>2. QED BY <1>1, AcceptLoopInv, TaskInv, ConnectInv DEF ConnStep

-------------------------------------------------------------------------------
(* The invariants. *)

\* Every step keeps it.
LEMMA NextIndInv == IndInv /\ [Next]_vars => IndInv'
<1> SUFFICES ASSUME IndInv, [Next]_vars PROVE IndInv'
  OBVIOUS
<1>1. CASE StartStep
  BY <1>1, StartStepLeaves, StartStepInv, ConnUnchanged DEF IndInv
<1>2. CASE ConnStep
  BY <1>2, ConnStepLeaves, ConnStepInv, StartUnchanged DEF IndInv
<1>3. CASE UNCHANGED vars
  BY <1>3, StartUnchanged, ConnUnchanged DEF IndInv, vars
<1>4. QED BY <1>1, <1>2, <1>3, StepIsEither

\* What the steps of a start have established, and the queue of accept, are as
\* they should be in every state.
THEOREM Invariant == Spec => []IndInv
<1>1. Init => IndInv
  BY InitStartInv, InitConnInv DEF IndInv
<1>2. QED BY <1>1, NextIndInv, PTL DEF Spec

\* The state stays within its types; no more descriptors are in use than there
\* are, and the queue holds the connections that wait.
THEOREM TypeCorrect == Spec => []TypeOK
BY Invariant, TypeOKFollows, PTL

\* No renewal in the middle of a start makes a server serve with a certificate
\* and the key of another, and none with a defect in its configuration serves.
THEOREM ServesItsPair == Spec => []ServesMatchingPair
<1>1. IndInv => ServesMatchingPair
  BY DEF IndInv, StartInv
<1>2. QED BY <1>1, Invariant, PTL

\* A start that nothing disturbs and that has a good configuration does not
\* fail, at whatever moment before or after it the files are renewed.
THEOREM FailureIsExplained == Spec => []FailureExplained
<1>1. IndInv => FailureExplained
  BY DEF IndInv, StartInv
<1>2. QED BY <1>1, Invariant, PTL

===============================================================================
