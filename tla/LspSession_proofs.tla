------------------------- MODULE LspSession_proofs -------------------------
(***************************************************************************)
(* Proofs about a session of the language client and server, for every set *)
(* of documents and every number of user operations: its settings cache,   *)
(* the order of its messages, and that it shows diagnostics as             *)
(* DiagnosticsContract says they may change.                               *)
(***************************************************************************)
EXTENDS LspSession, SequenceTheorems, TLAPS

(***************************************************************************)
(* Reading the head of a channel keeps what is left of the channel typed.  *)
(***************************************************************************)
LEMMA ReadTyped ==
  ASSUME NEW S, NEW q \in Seq(S), q # << >>
  PROVE  Head(q) \in S /\ Tail(q) \in Seq(S)
  BY HeadTailProperties

(***************************************************************************)
(* The fields a message to the server has, by its type.                    *)
(***************************************************************************)
LEMMA ToServerFields ==
  ASSUME NEW m \in ToServerMessage
  PROVE  /\ m.type = "initialize" => m.configuration \in BOOLEAN
         /\ m.type \in {"didOpen", "didChange"} => m.doc \in Docs /\ m.version \in Versions
         /\ m.type = "didClose" => m.doc \in Docs
         /\ m.type = "didChangeConfiguration" => m.epoch \in Epochs
         /\ m.type = "configuration" =>
              /\ m.outcome \in Outcomes /\ m.epoch \in Epochs
              /\ m.outcome = "value" => m.epoch \in ConfiguredEpochs
  BY DEF ToServerMessage, Outcomes, ConfiguredEpochs

(***************************************************************************)
(* The fields a message to the client has, by its type.                    *)
(***************************************************************************)
LEMMA ToClientFields ==
  ASSUME NEW m \in ToClientMessage
  PROVE  /\ m.type = "configuration" => m.id \in Nat /\ m.doc \in Docs
         /\ m.type = "publishDiagnostics" =>
              /\ m.doc \in Docs /\ m.version \in Versions
              /\ m.epoch \in Epochs /\ m.count \in Nat
  BY DEF ToClientMessage

(***************************************************************************)
(* Settling a promise keeps the table of promises typed and as long.       *)
(***************************************************************************)
LEMMA SettleTyped ==
  ASSUME NEW S, NEW q \in Seq(S), NEW i, NEW x \in S
  PROVE  [q EXCEPT ![i] = x] \in Seq(S) /\ Len([q EXCEPT ![i] = x]) = Len(q)
<1>1. q \in [1 .. Len(q) -> S] /\ Len(q) \in Nat
  BY LenProperties
<1>2. [q EXCEPT ![i] = x] \in [1 .. Len(q) -> S]
  BY <1>1
<1> QED
  BY <1>1, <1>2, SeqDef, LenProperties
(***************************************************************************)
(* The first half of validateTextDocument: the tables grow together, the   *)
(* cache gains an entry for d at most, and the new run is live.            *)
(***************************************************************************)
LEMMA StartTyped ==
  ASSUME TypeOK, NEW d \in Docs, StartValidation(d)
  PROVE  /\ toClient' \in Seq(ToClientMessage)
         /\ promises' \in Seq(Promise)
         /\ documentSettings' \in [Docs -> 0 .. Len(promises')]
         /\ \A v \in validating' : v \in Validation /\ v.awaits \in 1 .. Len(promises')
         /\ \A c \in Docs : documentSettings'[c] # NoPromise =>
                              c = d \/ documentSettings[c] # NoPromise
         /\ \A v \in validating' : v \in validating \/ v.doc = d
<1> USE DefaultAssumption, BoundAssumption
<1> DEFINE p == Len(promises) + 1
<1>1. Len(promises) \in Nat
  BY LenProperties DEF TypeOK
<1>2. globalSettings \in Settings /\ defaultSettings \in Settings
  BY DEF TypeOK, defaultSettings, Settings, Epochs
<1>3. ASSUME NEW q \in 1 .. Len(promises'), Await(d, q), Len(promises) <= Len(promises'),
             Len(promises') \in Nat
      PROVE  /\ \A v \in validating' : v \in Validation /\ v.awaits \in 1 .. Len(promises')
             /\ \A v \in validating' : v \in validating \/ v.doc = d
  BY <1>1, <1>3 DEF TypeOK, Await, Validation
<1>4. CASE UseGlobalSettings(d)
  <2>1. promises' \in Seq(Promise) /\ Len(promises') = p
    BY <1>2, <1>4, AppendProperties DEF UseGlobalSettings, Promise, Outcomes, TypeOK
  <2>2. documentSettings' \in [Docs -> 0 .. Len(promises')]
    BY <1>1, <1>4, <2>1 DEF UseGlobalSettings, TypeOK
  <2>3. Await(d, p) /\ toClient' = toClient /\ documentSettings' = documentSettings
    BY <1>4 DEF UseGlobalSettings
  <2>4. toClient' \in Seq(ToClientMessage)
    BY <2>3 DEF TypeOK
  <2> QED
    BY <1>1, <1>3, <2>1, <2>2, <2>3, <2>4
<1>5. CASE UseCachedSettings(d)
  <2>1. documentSettings[d] \in 1 .. Len(promises')
    BY <1>1, <1>5 DEF UseCachedSettings, NoPromise, TypeOK
  <2> QED
    BY <1>1, <1>3, <1>5, <2>1 DEF UseCachedSettings, TypeOK
<1>6. CASE RequestSettings(d)
  <2>1. promises' \in Seq(Promise) /\ Len(promises') = p
    BY <1>2, <1>6, AppendProperties DEF RequestSettings, Promise, Outcomes, TypeOK
  <2>2. documentSettings' \in [Docs -> 0 .. Len(promises')]
    BY <1>1, <1>6, <2>1 DEF RequestSettings, TypeOK
  <2>3. [type |-> "configuration", id |-> p, doc |-> d] \in ToClientMessage
    BY <1>1 DEF ToClientMessage
  <2>4. toClient' \in Seq(ToClientMessage)
    BY <1>6, <2>3, AppendProperties DEF RequestSettings, TypeOK
  <2>5. \A c \in Docs : documentSettings'[c] # NoPromise =>
                          c = d \/ documentSettings[c] # NoPromise
    BY <1>6 DEF RequestSettings, TypeOK
  <2> QED
    BY <1>1, <1>3, <1>6, <2>1, <2>2, <2>4, <2>5 DEF RequestSettings
<1> QED
  BY <1>4, <1>5, <1>6 DEF StartValidation

(***************************************************************************)
(* The handlers of document events share this: the manager holds version n *)
(* of d, d is validated, and the invariant is kept.                        *)
(***************************************************************************)
LEMMA StartKeepsInv ==
  ASSUME SettingsInv, NEW d \in Docs, NEW n \in Versions,
         documents' = [documents EXCEPT ![d] = n],
         StartValidation(d),
         toServer' \in Seq(ToServerMessage),
         revalidate' \subseteq revalidate,
         UNCHANGED <<hasConfigurationCapability, globalSettings, clientVars>>
  PROVE  SettingsInv'
<1> USE DEF SettingsInv
<1>1. n # Closed /\ documents'[d] = n
  BY ClosedAssumption, BoundAssumption DEF TypeOK, Versions
<1>2. TypeOK'
  BY StartTyped DEF TypeOK, clientVars
<1>3. CountersBounded'
  BY DEF CountersBounded, clientVars
<1>4. RevalidatesOpenDocuments'
  BY <1>1 DEF RevalidatesOpenDocuments, OpenDocuments, TypeOK
<1>5. LiveRunsAreManaged'
  BY <1>1, StartTyped DEF LiveRunsAreManaged, TypeOK, Validation
<1>6. OnlySettingsOfOpenDocuments'
  BY <1>1, StartTyped DEF OnlySettingsOfOpenDocuments, TypeOK
<1> QED
  BY <1>2, <1>3, <1>4, <1>5, <1>6

(***************************************************************************)
(* No step of the server breaks the invariant.                             *)
(***************************************************************************)
LEMMA ServerKeepsInv ==
  ASSUME SettingsInv, ServerStep
  PROVE  SettingsInv'
<1> USE DEF SettingsInv
<1> DEFINE m == Head(toServer)
<1>0. Len(promises) \in Nat
  BY LenProperties DEF TypeOK
<1>1. ASSUME NEW type, Reads(type)
      PROVE  /\ m \in ToServerMessage /\ m.type = type
             /\ toServer' \in Seq(ToServerMessage)
  BY <1>1, ReadTyped DEF Reads, Receives, TypeOK
<1>2. UNCHANGED clientVars
  BY DEF ServerStep
<1>3. CASE OnInitialize
  <2>1. hasConfigurationCapability' \in BOOLEAN /\ toServer' \in Seq(ToServerMessage)
    BY <1>1, <1>3, ToServerFields DEF OnInitialize
  <2>2. toClient' \in Seq(ToClientMessage)
    BY <1>3, AppendProperties DEF OnInitialize, TypeOK, ToClientMessage
  <2> QED
    BY <1>2, <1>3, <2>1, <2>2 DEF OnInitialize, TypeOK, CountersBounded, clientVars,
       RevalidatesOpenDocuments, OpenDocuments, LiveRunsAreManaged, OnlySettingsOfOpenDocuments
<1>4. CASE OnInitialized
  <2>1. toServer' \in Seq(ToServerMessage)
    BY <1>1, <1>4 DEF OnInitialized
  <2>2. toClient' \in Seq(ToClientMessage)
    BY <1>4, AppendProperties DEF OnInitialized, TypeOK, ToClientMessage
  <2> QED
    BY <1>2, <1>4, <2>1, <2>2 DEF OnInitialized, serverVars, TypeOK, CountersBounded, clientVars,
       RevalidatesOpenDocuments, OpenDocuments, LiveRunsAreManaged, OnlySettingsOfOpenDocuments
<1>5. CASE OnDidOpen
  <2>1. m.doc \in Docs /\ m.version \in Versions /\ toServer' \in Seq(ToServerMessage)
    BY <1>1, <1>5, ToServerFields DEF OnDidOpen
  <2> QED
    BY <1>2, <1>5, <2>1, StartKeepsInv DEF OnDidOpen
<1>6. CASE OnDidChangeContent
  <2>1. m.doc \in Docs /\ m.version \in Versions /\ toServer' \in Seq(ToServerMessage)
    BY <1>1, <1>6, ToServerFields DEF OnDidChangeContent
  <2> QED
    BY <1>2, <1>6, <2>1, StartKeepsInv DEF OnDidChangeContent
<1>7. CASE OnDidClose
  <2> DEFINE d == m.doc
  <2>1. d \in Docs /\ toServer' \in Seq(ToServerMessage)
    BY <1>1, <1>7, ToServerFields DEF OnDidClose
  <2>2. /\ documents' = [documents EXCEPT ![d] = Closed]
        /\ documentSettings' = [documentSettings EXCEPT ![d] = NoPromise]
        /\ validating' = {Detach(v, d) : v \in validating}
        /\ revalidate = {} /\ revalidate' = {} /\ promises' = promises
    BY <1>7 DEF OnDidClose, Reads, Idle
  <2>3. ASSUME NEW v \in validating
        PROVE  /\ Detach(v, d) \in Validation
               /\ Detach(v, d).awaits = v.awaits
               /\ Detach(v, d).text = Live => v.doc # d /\ Detach(v, d) = v
    <3>1. v \in Validation /\ (v.text = Live => documents[v.doc] \in Versions)
      BY DEF TypeOK, LiveRunsAreManaged, Validation
    <3>2. CASE v.doc = d /\ v.text = Live
      <4>1. /\ documents[d] \in Versions
            /\ Detach(v, d) = [doc |-> d, awaits |-> v.awaits, text |-> documents[d]]
        BY <3>1, <3>2 DEF Detach
      <4> QED
        BY <2>1, <3>1, <4>1, ClosedAssumption, BoundAssumption DEF Validation, Versions
    <3>3. CASE ~ (v.doc = d /\ v.text = Live)
      BY <3>1, <3>3 DEF Detach
    <3> QED
      BY <3>2, <3>3
  <2>4. \A w \in validating' : w \in Validation /\ w.awaits \in 1 .. Len(promises')
    <3>1. \A v \in validating : v.awaits \in 1 .. Len(promises)
      BY DEF TypeOK
    <3> QED
      BY <2>2, <2>3, <3>1
  <2>5. documentSettings' \in [Docs -> 0 .. Len(promises')]
    <3>1. documentSettings \in [Docs -> 0 .. Len(promises)]
      BY DEF TypeOK
    <3>2. documentSettings' = [documentSettings EXCEPT ![d] = 0] /\ promises' = promises
      BY <2>2 DEF NoPromise
    <3>3. 0 \in 0 .. Len(promises) /\ Len(promises') = Len(promises)
      BY <1>0, <3>2
    <3> HIDE DEF d
    <3>4. [documentSettings EXCEPT ![d] = 0] \in [Docs -> 0 .. Len(promises)]
      BY <3>1, <3>3
    <3> QED
      BY <3>2, <3>3, <3>4
  <2>6. TypeOK'
    BY <1>2, <1>7, <2>1, <2>2, <2>4, <2>5 DEF OnDidClose, TypeOK, clientVars
  <2>7. CountersBounded' /\ RevalidatesOpenDocuments'
    BY <1>2, <2>2 DEF CountersBounded, clientVars, RevalidatesOpenDocuments
  <2>8. LiveRunsAreManaged'
    <3>1. \A w \in validating' : w.text = Live => w \in validating /\ w.doc # d
      BY <2>2, <2>3
    <3> QED
      BY <2>1, <2>2, <3>1 DEF LiveRunsAreManaged, TypeOK, Validation
  <2>9. OnlySettingsOfOpenDocuments'
    BY <2>1, <2>2 DEF OnlySettingsOfOpenDocuments, TypeOK
  <2> QED
    BY <2>6, <2>7, <2>8, <2>9
<1>8. CASE OnDidChangeConfiguration
  <2>1. m.epoch \in Epochs /\ toServer' \in Seq(ToServerMessage)
    BY <1>1, <1>8, ToServerFields DEF OnDidChangeConfiguration
  <2>2. Pushed(m.epoch) \in Settings
    BY <2>1, LimitAssumption, DefaultAssumption DEF Pushed, Settings
  <2>3. globalSettings' \in Settings
    BY <1>8, <2>2 DEF OnDidChangeConfiguration, TypeOK
  <2>4. documentSettings' \in [Docs -> 0 .. Len(promises')]
    BY <1>0, <1>8 DEF OnDidChangeConfiguration, TypeOK, NoPromise
  <2>5. revalidate' = OpenDocuments
    BY <1>8 DEF OnDidChangeConfiguration
  <2>6. TypeOK'
    BY <1>2, <1>8, <2>1, <2>3, <2>4, <2>5
       DEF OnDidChangeConfiguration, TypeOK, clientVars, OpenDocuments
  <2>7. CountersBounded' /\ RevalidatesOpenDocuments' /\ LiveRunsAreManaged'
    BY <1>2, <1>8, <2>5 DEF OnDidChangeConfiguration, CountersBounded, clientVars,
       RevalidatesOpenDocuments, OpenDocuments, LiveRunsAreManaged
  <2>8. OnlySettingsOfOpenDocuments'
    BY <1>8 DEF OnDidChangeConfiguration, OnlySettingsOfOpenDocuments
  <2> QED
    BY <2>6, <2>7, <2>8
<1>9. CASE OnConfiguration
  <2>1. /\ m.outcome \in Outcomes /\ m.epoch \in Epochs
        /\ m.outcome = "value" => m.epoch \in ConfiguredEpochs
        /\ toServer' \in Seq(ToServerMessage)
    BY <1>1, <1>9, ToServerFields DEF OnConfiguration
  <2>2. Received(m) \in Promise
    BY <2>1, LimitAssumption DEF Received, Promise, Settings, ConfiguredEpochs
  <2>3. promises' \in Seq(Promise) /\ Len(promises') = Len(promises)
    BY <1>9, <2>2, SettleTyped DEF OnConfiguration, TypeOK
  <2>4. UNCHANGED <<hasConfigurationCapability, globalSettings, documents, documentSettings,
                    validating, revalidate, toClient>>
    BY <1>9 DEF OnConfiguration
  <2> QED
    BY <1>2, <2>1, <2>3, <2>4 DEF TypeOK, CountersBounded, clientVars,
       RevalidatesOpenDocuments, OpenDocuments, LiveRunsAreManaged, OnlySettingsOfOpenDocuments
<1>10. ASSUME NEW d \in Docs, RevalidateOne(d)
       PROVE  SettingsInv'
  <2>1. documents[d] \in Versions
    BY <1>10 DEF RevalidateOne, RevalidatesOpenDocuments, OpenDocuments, TypeOK
  <2>2. documents' = [documents EXCEPT ![d] = documents[d]]
    BY <1>10 DEF RevalidateOne, TypeOK
  <2>3. toServer' \in Seq(ToServerMessage) /\ revalidate' \subseteq revalidate
    BY <1>10 DEF RevalidateOne, TypeOK
  <2> QED
    BY <1>2, <1>10, <2>1, <2>2, <2>3, StartKeepsInv DEF RevalidateOne
<1>11. ASSUME NEW v \in validating, Resume(v)
       PROVE  SettingsInv'
  <2>1. v \in Validation /\ v.awaits \in 1 .. Len(promises) /\ TextOf(v) \in Versions
    <3>1. v \in Validation /\ v.awaits \in 1 .. Len(promises)
      BY DEF TypeOK
    <3>2. v.doc \in Docs /\ v.text \in Versions \cup {Live}
      BY <3>1 DEF Validation
    <3>3. v.text = Live => documents[v.doc] \in Versions
      BY <3>2 DEF TypeOK, LiveRunsAreManaged
    <3> QED
      BY <3>1, <3>2, <3>3 DEF TextOf
  <2>2. promises[v.awaits].settings \in Settings
    <3>1. promises[v.awaits] \in Promise
      BY <2>1, ElementOfSeq DEF TypeOK
    <3> QED
      BY <3>1 DEF Promise
  <2>3. Diagnostics(v) \in ToClientMessage
    <3>1. Words[TextOf(v)] \in Nat
      BY <2>1, WordsAssumption
    <3> QED
    BY <2>1, <2>2, <3>1 DEF Diagnostics, ToClientMessage, Lesser, Settings, Validation
  <2>4. toClient' \in Seq(ToClientMessage)
    BY <1>11, <2>3, AppendProperties DEF Resume, TypeOK
  <2>5. validating' \subseteq validating
    BY <1>11 DEF Resume
  <2>6. UNCHANGED <<hasConfigurationCapability, globalSettings, documents,
                    documentSettings, promises, revalidate, toServer>>
    BY <1>11 DEF Resume
  <2> QED
    BY <1>2, <2>4, <2>5, <2>6 DEF TypeOK, CountersBounded, clientVars,
       RevalidatesOpenDocuments, OpenDocuments, LiveRunsAreManaged, OnlySettingsOfOpenDocuments
<1> QED
  BY <1>3, <1>4, <1>5, <1>6, <1>7, <1>8, <1>9, <1>10, <1>11 DEF ServerStep, ServerNext

(***************************************************************************)
(* Sending a message keeps the channel to the server typed.                *)
(***************************************************************************)
LEMMA SendTyped ==
  ASSUME TypeOK, NEW m \in ToServerMessage, Send(m)
  PROVE  toServer' \in Seq(ToServerMessage)
  BY AppendProperties DEF TypeOK, Send

(***************************************************************************)
(* No step of the client breaks the invariant.                             *)
(***************************************************************************)
LEMMA ClientKeepsInv ==
  ASSUME SettingsInv, ClientStep
  PROVE  SettingsInv'
<1> USE DEF SettingsInv
<1> DEFINE m == Head(toClient)
<1>1. ASSUME NEW type, Takes(type)
      PROVE  /\ m \in ToClientMessage /\ m.type = type
             /\ toClient' \in Seq(ToClientMessage)
  BY <1>1, ReadTyped DEF Takes, Receives, TypeOK
<1>2. UNCHANGED serverVars
  BY DEF ClientStep
<1>3. RevalidatesOpenDocuments' /\ LiveRunsAreManaged' /\ OnlySettingsOfOpenDocuments'
  BY <1>2 DEF serverVars, RevalidatesOpenDocuments, OpenDocuments, LiveRunsAreManaged,
     OnlySettingsOfOpenDocuments
<1>4. CASE Activate
  <2>1. [type |-> "initialize", configuration |-> configuration] \in ToServerMessage
    BY DEF TypeOK, ToServerMessage
  <2>2. toServer' \in Seq(ToServerMessage)
    BY <1>4, <2>1, SendTyped DEF Activate
  <2> QED
    BY <1>2, <1>3, <1>4, <2>2 DEF Activate, TypeOK, serverVars, CountersBounded
<1>5. CASE OnInitializeResult
  <2>1. Greeting \in Seq(ToServerMessage)
    <3> DEFINE started == [type |-> "initialized"]
               pushed == [type |-> "didChangeConfiguration", epoch |-> epoch]
    <3>1. started \in ToServerMessage /\ pushed \in ToServerMessage
      BY DEF TypeOK, ToServerMessage
    <3>2. Greeting = << started >> \/ Greeting = << started, pushed >>
      BY DEF Greeting
    <3> HIDE DEF started, pushed
    <3>3. << started >> \in Seq(ToServerMessage) /\ << started, pushed >> \in Seq(ToServerMessage)
      BY <3>1
    <3> QED
      BY <3>2, <3>3
  <2>2. toServer' \in Seq(ToServerMessage)
    BY <1>5, <2>1, ConcatProperties DEF OnInitializeResult, TypeOK
  <2>3. toClient' \in Seq(ToClientMessage)
    BY <1>1, <1>5 DEF OnInitializeResult
  <2> QED
    BY <1>2, <1>3, <1>5, <2>2, <2>3 DEF OnInitializeResult, TypeOK, serverVars, CountersBounded
<1>6. CASE OnRegisterCapability
  <2>1. toClient' \in Seq(ToClientMessage)
    BY <1>1, <1>6 DEF OnRegisterCapability
  <2> QED
    BY <1>2, <1>3, <1>6, <2>1 DEF OnRegisterCapability, TypeOK, serverVars, CountersBounded
<1>7. CASE OnConfigurationRequest
  <2>1. m.id \in Nat /\ toClient' \in Seq(ToClientMessage)
    BY <1>1, <1>7, ToClientFields DEF OnConfigurationRequest
  <2>2. PICK outcome \in Answers :
          Send([type |-> "configuration", id |-> m.id, outcome |-> outcome, epoch |-> epoch])
    BY <1>7 DEF OnConfigurationRequest
  <2>3. outcome \in {"null", "error"} \/ (outcome = "value" /\ epoch \in ConfiguredEpochs)
    BY FaultAssumption DEF Answers, Outcomes, ConfiguredEpochs, TypeOK
  <2>4. [type |-> "configuration", id |-> m.id, outcome |-> outcome, epoch |-> epoch]
          \in ToServerMessage
    BY <2>1, <2>3 DEF ToServerMessage, TypeOK
  <2>5. toServer' \in Seq(ToServerMessage)
    BY <2>2, <2>4, SendTyped
  <2> QED
    BY <1>2, <1>3, <1>7, <2>1, <2>5
       DEF OnConfigurationRequest, TypeOK, serverVars, clientVars, CountersBounded
<1>8. CASE OnPublishDiagnostics
  <2>1. /\ m.doc \in Docs /\ m.version \in Versions /\ m.epoch \in Epochs /\ m.count \in Nat
        /\ toClient' \in Seq(ToClientMessage)
    BY <1>1, <1>8, ToClientFields DEF OnPublishDiagnostics
  <2>2. [version |-> m.version, epoch |-> m.epoch, count |-> m.count] \in Display
    BY <2>1 DEF Display
  <2>3. displayed' \in [Docs -> Display \cup {None}]
    BY <1>8, <2>2 DEF OnPublishDiagnostics, TypeOK
  <2> QED
    BY <1>2, <1>3, <1>8, <2>1, <2>3 DEF OnPublishDiagnostics, TypeOK, serverVars, CountersBounded
<1>9. ASSUME NEW d \in Docs, SyncOpen(d)
      PROVE  SettingsInv'
  <2>1. [type |-> "didOpen", doc |-> d, version |-> version[d]] \in ToServerMessage
    BY DEF TypeOK, ToServerMessage
  <2>2. toServer' \in Seq(ToServerMessage)
    BY <1>9, <2>1, SendTyped DEF SyncOpen
  <2> QED
    BY <1>2, <1>3, <1>9, <2>2 DEF SyncOpen, TypeOK, serverVars, CountersBounded
<1> QED
  BY <1>4, <1>5, <1>6, <1>7, <1>8, <1>9 DEF ClientStep, ClientNext

(***************************************************************************)
(* No operation of the user breaks the invariant.                          *)
(***************************************************************************)
LEMMA UserKeepsInv ==
  ASSUME SettingsInv, UserStep
  PROVE  SettingsInv'
<1> USE BoundAssumption DEF SettingsInv
<1>1. UNCHANGED serverVars
  BY DEF UserStep
<1>2. RevalidatesOpenDocuments' /\ LiveRunsAreManaged' /\ OnlySettingsOfOpenDocuments'
  BY <1>1 DEF serverVars, RevalidatesOpenDocuments, OpenDocuments, LiveRunsAreManaged,
     OnlySettingsOfOpenDocuments
<1>3. ASSUME UserActs
      PROVE  /\ operations' = operations + 1 /\ operations' \in 0 .. MaxOperations
             /\ \A d \in Docs : version[d] + 1 \in Versions /\ version[d] + 1 <= operations'
             /\ epoch + 1 \in Epochs /\ epoch + 1 <= operations'
  BY <1>3 DEF UserActs, TypeOK, CountersBounded, Versions, Epochs
<1>4. ASSUME NEW d \in Docs, UserOpen(d)
      PROVE  SettingsInv'
  BY <1>1, <1>2, <1>3, <1>4 DEF UserOpen, UserActs, TypeOK, serverVars, CountersBounded,
     Versions, Epochs
<1>5. ASSUME NEW d \in Docs, UserEdit(d)
      PROVE  SettingsInv'
  <2>1. UserActs /\ version' = [version EXCEPT ![d] = version[d] + 1]
    BY <1>5 DEF UserEdit, TypeOK
  <2>2. version' \in [Docs -> Versions]
    BY <1>3, <2>1 DEF TypeOK
  <2>3. [type |-> "didChange", doc |-> d, version |-> version[d] + 1] \in ToServerMessage
    BY <1>3, <2>1 DEF ToServerMessage
  <2>4. toServer' \in Seq(ToServerMessage)
    BY <1>5, <2>3, SendTyped DEF UserEdit, TypeOK
  <2>5. CountersBounded'
    BY <1>3, <1>5, <2>1 DEF CountersBounded, UserEdit, TypeOK, Versions, Epochs
  <2> QED
    BY <1>1, <1>2, <1>3, <1>5, <2>1, <2>2, <2>4, <2>5 DEF UserEdit, UserActs, TypeOK, serverVars
<1>6. ASSUME NEW d \in Docs, UserClose(d)
      PROVE  SettingsInv'
  <2>1. [type |-> "didClose", doc |-> d] \in ToServerMessage
    BY DEF ToServerMessage
  <2>2. toServer' \in Seq(ToServerMessage)
    BY <1>6, <2>1, SendTyped DEF UserClose, TypeOK
  <2>3. UserActs
    BY <1>6 DEF UserClose
  <2> QED
    BY <1>1, <1>2, <1>3, <1>6, <2>2, <2>3 DEF UserClose, UserActs, TypeOK, serverVars,
       CountersBounded, Versions, Epochs
<1>7. CASE UserConfigure
  <2>1. UserActs
    BY <1>7 DEF UserConfigure
  <2>2. [type |-> "didChangeConfiguration", epoch |-> epoch + 1] \in ToServerMessage
    BY <1>3, <2>1 DEF ToServerMessage
  <2>3. toServer' \in Seq(ToServerMessage)
    BY <1>7, <2>2, SendTyped DEF UserConfigure, TypeOK
  <2> QED
    BY <1>1, <1>2, <1>3, <1>7, <2>1, <2>3 DEF UserConfigure, UserActs, TypeOK, serverVars,
       CountersBounded, Versions, Epochs
<1> QED
  BY <1>4, <1>5, <1>6, <1>7 DEF UserStep, UserNext

(***************************************************************************)
(* The invariant of the settings cache (server.ts:96-130) holds throughout *)
(* every session.                                                          *)
(***************************************************************************)
THEOREM SettingsInvariant == Spec => []SettingsInv
<1>1. Init => SettingsInv
  <2> SUFFICES ASSUME Init PROVE SettingsInv
    OBVIOUS
  <2> USE BoundAssumption, DefaultAssumption
  <2>1. 0 \in Versions /\ 0 \in Epochs /\ defaultSettings \in Settings
    BY DEF Versions, Epochs, defaultSettings, Settings
  <2>2. << >> \in Seq(ToServerMessage) /\ << >> \in Seq(ToClientMessage)
        /\ << >> \in Seq(Promise) /\ Len(<< >>) = 0
    BY EmptySeq
  <2>3. TypeOK
    <3>1. documentSettings \in [Docs -> 0 .. Len(promises)] /\ promises \in Seq(Promise)
      BY <2>2 DEF Init, ServerInit, NoPromise
    <3>2. documents \in [Docs -> Versions \cup {Closed}]
      BY DEF Init, ServerInit
    <3>3. displayed \in [Docs -> Display \cup {None}] /\ version \in [Docs -> Versions]
      BY <2>1 DEF Init, ClientInit
    <3>4. toServer \in Seq(ToServerMessage) /\ toClient \in Seq(ToClientMessage)
      BY <2>2 DEF Init
    <3>5. operations \in 0 .. MaxOperations /\ epoch \in Epochs
      BY <2>1 DEF Init, ClientInit, Epochs
    <3> QED
      BY <2>1, <3>1, <3>2, <3>3, <3>4, <3>5 DEF Init, ClientInit, ServerInit, TypeOK
  <2>4. CountersBounded
    BY DEF Init, ClientInit, CountersBounded
  <2> QED
    BY <2>3, <2>4 DEF Init, ServerInit, SettingsInv, RevalidatesOpenDocuments,
       LiveRunsAreManaged, OnlySettingsOfOpenDocuments
<1>2. SettingsInv /\ [Next]_vars => SettingsInv'
  <2> SUFFICES ASSUME SettingsInv, [Next]_vars PROVE SettingsInv'
    OBVIOUS
  <2>1. CASE UNCHANGED vars
    BY <2>1 DEF vars, channels, clientVars, serverVars, SettingsInv, TypeOK, CountersBounded,
       RevalidatesOpenDocuments, OpenDocuments, LiveRunsAreManaged, OnlySettingsOfOpenDocuments
  <2> QED
    BY <2>1, ServerKeepsInv, ClientKeepsInv, UserKeepsInv DEF Next
<1> QED
  BY <1>1, <1>2, PTL DEF Spec

(***************************************************************************)
(* Every variable and message of a session keeps its type.                 *)
(***************************************************************************)
THEOREM TypeCorrectness == Spec => []TypeOK
<1>1. SettingsInv => TypeOK
  BY DEF SettingsInv
<1> QED
  BY <1>1, SettingsInvariant, PTL

(***************************************************************************)
(* server.ts:127, "Only keep settings for open documents".                 *)
(***************************************************************************)
THEOREM SettingsCacheCoherence == Spec => []OnlySettingsOfOpenDocuments
<1>1. SettingsInv => OnlySettingsOfOpenDocuments
  BY DEF SettingsInv
<1> QED
  BY <1>1, SettingsInvariant, PTL

-----------------------------------------------------------------------------
(***************************************************************************)
(* What the order of the messages of a session guarantees, for every set   *)
(* of documents and every number of user operations: no validation waits   *)
(* for an answer that does not come, and no stale setting stays.           *)
(***************************************************************************)

(***************************************************************************)
(* What a channel holds: a request or answer about promise p; a message of *)
(* a type; no message of some types but behind one of another type; no     *)
(* outdated message of a type but before the notification of a change; and *)
(* the capability that initialize announces.                               *)
(***************************************************************************)
Carries(q, p) == \E i \in DOMAIN q : q[i].type = "configuration" /\ q[i].id = p

Sends(q, type) == \E i \in DOMAIN q : q[i].type = type

OnlyAfter(q, types, type) ==
  \A i \in DOMAIN q : q[i].type \in types => \E j \in DOMAIN q : j < i /\ q[j].type = type

NoneOutdated(q, type, e) ==
  \A i \in DOMAIN q : q[i].type = type /\ q[i].epoch # e =>
    \E j \in DOMAIN q : i < j /\ q[j].type = "didChangeConfiguration"

Announces(q, c) == \A i \in DOMAIN q : q[i].type = "initialize" => q[i].configuration = c

-----------------------------------------------------------------------------
(***************************************************************************)
(* Sending a message, and reading one.                                     *)
(***************************************************************************)
LEMMA SentFacts ==
  ASSUME NEW S, NEW q \in Seq(S), NEW m
  PROVE  /\ Len(q) \in Nat /\ DOMAIN q = 1 .. Len(q)
         /\ DOMAIN Append(q, m) = 1 .. Len(q) + 1
         /\ Append(q, m)[Len(q) + 1] = m
         /\ \A i \in 1 .. Len(q) : Append(q, m)[i] = q[i]
<1>1. q \in Seq(S \cup {m}) /\ m \in S \cup {m}
  BY SeqMonotonic
<1>2. /\ Append(q, m) \in Seq(S \cup {m}) /\ Len(Append(q, m)) = Len(q) + 1
      /\ Append(q, m)[Len(q) + 1] = m
      /\ \A i \in 1 .. Len(q) : Append(q, m)[i] = q[i]
  BY <1>1, AppendProperties
<1> QED
  BY <1>1, <1>2, LenProperties

LEMMA ReadFacts ==
  ASSUME NEW S, NEW q \in Seq(S), q # << >>
  PROVE  /\ Len(q) \in Nat \ {0} /\ DOMAIN q = 1 .. Len(q) /\ Head(q) = q[1]
         /\ DOMAIN Tail(q) = 1 .. Len(q) - 1
         /\ \A i \in 1 .. Len(q) - 1 : Tail(q)[i] = q[i + 1]
<1>1. /\ Head(q) = q[1] /\ Tail(q) \in Seq(S) /\ Len(Tail(q)) = Len(q) - 1
      /\ \A i \in 1 .. Len(Tail(q)) : Tail(q)[i] = q[i + 1]
  BY HeadTailProperties
<1>2. Len(q) \in Nat /\ Len(q) # 0 /\ DOMAIN q = 1 .. Len(q)
  BY LenProperties, EmptySeq
<1>3. DOMAIN Tail(q) = 1 .. Len(Tail(q))
  BY <1>1, LenProperties
<1> QED
  BY <1>1, <1>2, <1>3

LEMMA CarriesSent ==
  ASSUME NEW S, NEW q \in Seq(S), NEW m, NEW p
  PROVE  /\ Carries(q, p) => Carries(Append(q, m), p)
         /\ m.type = "configuration" /\ m.id = p => Carries(Append(q, m), p)
<1> DEFINE r == Append(q, m)
<1>1. /\ Len(q) \in Nat /\ DOMAIN q = 1 .. Len(q) /\ DOMAIN r = 1 .. Len(q) + 1
      /\ r[Len(q) + 1] = m /\ \A i \in 1 .. Len(q) : r[i] = q[i]
  BY SentFacts
<1> HIDE DEF r
<1>2. ASSUME Carries(q, p)
      PROVE  Carries(r, p)
  <2>1. PICK i \in 1 .. Len(q) : q[i].type = "configuration" /\ q[i].id = p
    BY <1>1, <1>2 DEF Carries
  <2>2. i \in DOMAIN r /\ r[i] = q[i]
    BY <1>1
  <2> QED
    BY <2>1, <2>2 DEF Carries
<1>3. ASSUME m.type = "configuration", m.id = p
      PROVE  Carries(r, p)
  <2>1. Len(q) + 1 \in DOMAIN r
    BY <1>1
  <2> QED
    BY <1>1, <1>3, <2>1 DEF Carries
<1> QED
  BY <1>2, <1>3 DEF r

LEMMA CarriesRead ==
  ASSUME NEW S, NEW q \in Seq(S), q # << >>, NEW p, Carries(q, p)
  PROVE  (Head(q).type = "configuration" /\ Head(q).id = p) \/ Carries(Tail(q), p)
<1> DEFINE r == Tail(q)
<1>1. /\ Len(q) \in Nat \ {0} /\ DOMAIN q = 1 .. Len(q) /\ Head(q) = q[1]
      /\ DOMAIN r = 1 .. Len(q) - 1 /\ \A i \in 1 .. Len(q) - 1 : r[i] = q[i + 1]
  BY ReadFacts
<1> HIDE DEF r
<1>2. PICK i \in 1 .. Len(q) : q[i].type = "configuration" /\ q[i].id = p
  BY <1>1 DEF Carries
<1>3. CASE i = 1
  BY <1>1, <1>2, <1>3
<1>4. CASE i # 1
  <2>1. i - 1 \in 1 .. Len(q) - 1 /\ r[i - 1] = q[i]
    BY <1>1, <1>4
  <2>2. Carries(r, p)
    BY <1>1, <1>2, <2>1 DEF Carries
  <2> QED
    BY <2>2 DEF r
<1> QED
  BY <1>3, <1>4

LEMMA SendsSent ==
  ASSUME NEW S, NEW q \in Seq(S), NEW m, NEW type
  PROVE  Sends(Append(q, m), type) <=> Sends(q, type) \/ m.type = type
<1> DEFINE r == Append(q, m)
<1>1. /\ Len(q) \in Nat /\ DOMAIN q = 1 .. Len(q) /\ DOMAIN r = 1 .. Len(q) + 1
      /\ r[Len(q) + 1] = m /\ \A i \in 1 .. Len(q) : r[i] = q[i]
  BY SentFacts
<1> HIDE DEF r
<1>2. Sends(q, type) \/ m.type = type => Sends(r, type)
  BY <1>1 DEF Sends
<1>3. ASSUME NEW i \in DOMAIN r, r[i].type = type
      PROVE  Sends(q, type) \/ m.type = type
  <2>1. i = Len(q) + 1 \/ i \in 1 .. Len(q)
    BY <1>1
  <2> QED
    BY <1>1, <1>3, <2>1 DEF Sends
<1>4. Sends(r, type) => Sends(q, type) \/ m.type = type
  BY <1>3 DEF Sends
<1> QED
  BY <1>2, <1>4 DEF r

LEMMA SendsRead ==
  ASSUME NEW S, NEW q \in Seq(S), q # << >>, NEW type
  PROVE  Sends(q, type) <=> Head(q).type = type \/ Sends(Tail(q), type)
<1> DEFINE r == Tail(q)
<1>1. /\ Len(q) \in Nat \ {0} /\ DOMAIN q = 1 .. Len(q) /\ Head(q) = q[1]
      /\ DOMAIN r = 1 .. Len(q) - 1 /\ \A i \in 1 .. Len(q) - 1 : r[i] = q[i + 1]
  BY ReadFacts
<1> HIDE DEF r
<1>2. ASSUME NEW i \in DOMAIN q, q[i].type = type
      PROVE  Head(q).type = type \/ Sends(r, type)
  <2>1. CASE i = 1
    BY <1>1, <1>2, <2>1
  <2>2. CASE i # 1
    <3>1. i - 1 \in 1 .. Len(q) - 1 /\ r[i - 1] = q[i]
      BY <1>1, <2>2
    <3> QED
      BY <1>1, <1>2, <3>1 DEF Sends
  <2> QED
    BY <2>1, <2>2
<1>3. Head(q).type = type => Sends(q, type)
  BY <1>1 DEF Sends
<1>4. ASSUME NEW i \in DOMAIN r, r[i].type = type
      PROVE  Sends(q, type)
  <2>1. i + 1 \in 1 .. Len(q) /\ q[i + 1] = r[i]
    BY <1>1
  <2> QED
    BY <1>1, <1>4, <2>1 DEF Sends
<1>5. Sends(q, type) <=> Head(q).type = type \/ Sends(r, type)
  BY <1>2, <1>3, <1>4 DEF Sends
<1> QED
  BY <1>5 DEF r

LEMMA OnlyAfterSent ==
  ASSUME NEW S, NEW q \in Seq(S), NEW m, NEW types, NEW type, OnlyAfter(q, types, type),
         m.type \in types => Sends(q, type)
  PROVE  OnlyAfter(Append(q, m), types, type)
<1> DEFINE r == Append(q, m)
<1>1. /\ Len(q) \in Nat /\ DOMAIN q = 1 .. Len(q) /\ DOMAIN r = 1 .. Len(q) + 1
      /\ r[Len(q) + 1] = m /\ \A i \in 1 .. Len(q) : r[i] = q[i]
  BY SentFacts
<1> HIDE DEF r
<1>2. ASSUME NEW i \in DOMAIN r, r[i].type \in types
      PROVE  \E j \in DOMAIN r : j < i /\ r[j].type = type
  <2>1. CASE i = Len(q) + 1
    <3>1. PICK j \in 1 .. Len(q) : q[j].type = type
      BY <1>1, <1>2, <2>1 DEF Sends
    <3> QED
      BY <1>1, <2>1, <3>1
  <2>2. CASE i \in 1 .. Len(q)
    <3>1. PICK j \in 1 .. Len(q) : j < i /\ q[j].type = type
      BY <1>1, <1>2, <2>2 DEF OnlyAfter
    <3> QED
      BY <1>1, <3>1
  <2> QED
    BY <1>1, <2>1, <2>2
<1>3. OnlyAfter(r, types, type)
  BY <1>2 DEF OnlyAfter
<1> QED
  BY <1>3 DEF r

LEMMA OnlyAfterRead ==
  ASSUME NEW S, NEW q \in Seq(S), q # << >>, NEW types, NEW type, OnlyAfter(q, types, type)
  PROVE  /\ Head(q).type \notin types
         /\ Head(q).type # type => OnlyAfter(Tail(q), types, type)
<1> DEFINE r == Tail(q)
<1>1. /\ Len(q) \in Nat \ {0} /\ DOMAIN q = 1 .. Len(q) /\ Head(q) = q[1]
      /\ DOMAIN r = 1 .. Len(q) - 1 /\ \A i \in 1 .. Len(q) - 1 : r[i] = q[i + 1]
  BY ReadFacts
<1> HIDE DEF r
<1>2. q[1].type \notin types
  BY <1>1 DEF OnlyAfter
<1>3. ASSUME Head(q).type # type, NEW i \in DOMAIN r, r[i].type \in types
      PROVE  \E j \in DOMAIN r : j < i /\ r[j].type = type
  <2>1. i + 1 \in 1 .. Len(q) /\ q[i + 1] = r[i] /\ i \in Nat
    BY <1>1
  <2>2. PICK j \in 1 .. Len(q) : j < i + 1 /\ q[j].type = type
    BY <1>1, <1>3, <2>1 DEF OnlyAfter
  <2>3. j # 1
    BY <1>1, <1>3, <2>2
  <2>4. j - 1 \in 1 .. Len(q) - 1 /\ r[j - 1] = q[j] /\ j - 1 < i
    BY <1>1, <2>1, <2>2, <2>3
  <2> QED
    BY <1>1, <2>2, <2>4
<1>4. Head(q).type # type => OnlyAfter(r, types, type)
  BY <1>3 DEF OnlyAfter
<1> QED
  BY <1>1, <1>2, <1>4 DEF r

LEMMA NoneOutdatedSent ==
  ASSUME NEW S, NEW q \in Seq(S), NEW m, NEW type, NEW e,
         NoneOutdated(q, type, e) \/ m.type = "didChangeConfiguration",
         m.type = type => m.epoch = e
  PROVE  NoneOutdated(Append(q, m), type, e)
<1> DEFINE r == Append(q, m)
<1>1. /\ Len(q) \in Nat /\ DOMAIN q = 1 .. Len(q) /\ DOMAIN r = 1 .. Len(q) + 1
      /\ r[Len(q) + 1] = m /\ \A i \in 1 .. Len(q) : r[i] = q[i]
  BY SentFacts
<1> HIDE DEF r
<1>2. ASSUME NEW i \in DOMAIN r, r[i].type = type, r[i].epoch # e
      PROVE  \E j \in DOMAIN r : i < j /\ r[j].type = "didChangeConfiguration"
  <2>1. i \in 1 .. Len(q) /\ i < Len(q) + 1
    BY <1>1, <1>2
  <2>2. CASE m.type = "didChangeConfiguration"
    BY <1>1, <2>1, <2>2
  <2>3. CASE NoneOutdated(q, type, e)
    <3>1. PICK j \in 1 .. Len(q) : i < j /\ q[j].type = "didChangeConfiguration"
      BY <1>1, <1>2, <2>1, <2>3 DEF NoneOutdated
    <3> QED
      BY <1>1, <3>1
  <2> QED
    BY <2>2, <2>3
<1>3. NoneOutdated(r, type, e)
  BY <1>2 DEF NoneOutdated
<1> QED
  BY <1>3 DEF r

LEMMA NoneOutdatedRead ==
  ASSUME NEW S, NEW q \in Seq(S), q # << >>, NEW type, NEW e, NoneOutdated(q, type, e)
  PROVE  /\ NoneOutdated(Tail(q), type, e)
         /\ Head(q).type = type /\ Head(q).epoch # e => Sends(Tail(q), "didChangeConfiguration")
<1> DEFINE r == Tail(q)
<1>1. /\ Len(q) \in Nat \ {0} /\ DOMAIN q = 1 .. Len(q) /\ Head(q) = q[1]
      /\ DOMAIN r = 1 .. Len(q) - 1 /\ \A i \in 1 .. Len(q) - 1 : r[i] = q[i + 1]
  BY ReadFacts
<1> HIDE DEF r
<1>2. ASSUME NEW i \in DOMAIN q, q[i].type = type, q[i].epoch # e
      PROVE  \E j \in DOMAIN r : i < j + 1 /\ r[j].type = "didChangeConfiguration"
  <2>1. PICK j \in 1 .. Len(q) : i < j /\ q[j].type = "didChangeConfiguration"
    BY <1>1, <1>2 DEF NoneOutdated
  <2>2. j - 1 \in 1 .. Len(q) - 1 /\ r[j - 1] = q[j] /\ i < (j - 1) + 1
    BY <1>1, <2>1
  <2> QED
    BY <1>1, <2>1, <2>2
<1>3. Head(q).type = type /\ Head(q).epoch # e => Sends(r, "didChangeConfiguration")
  BY <1>1, <1>2 DEF Sends
<1>4. ASSUME NEW i \in DOMAIN r, r[i].type = type, r[i].epoch # e
      PROVE  \E j \in DOMAIN r : i < j /\ r[j].type = "didChangeConfiguration"
  <2>1. i + 1 \in DOMAIN q /\ q[i + 1] = r[i] /\ i \in Nat
    BY <1>1
  <2>2. PICK j \in DOMAIN r : i + 1 < j + 1 /\ r[j].type = "didChangeConfiguration"
    BY <1>2, <1>4, <2>1
  <2>3. i < j
    BY <1>1, <2>1, <2>2
  <2> QED
    BY <2>2, <2>3
<1>5. NoneOutdated(r, type, e)
  BY <1>4 DEF NoneOutdated
<1> QED
  BY <1>3, <1>5 DEF r

LEMMA NotSentNoneOutdated ==
  ASSUME NEW q, NEW type, NEW e, ~ Sends(q, type)
  PROVE  NoneOutdated(q, type, e)
BY DEF Sends, NoneOutdated

LEMMA AnnouncesSent ==
  ASSUME NEW S, NEW q \in Seq(S), NEW m, NEW c, Announces(q, c),
         m.type = "initialize" => m.configuration = c
  PROVE  Announces(Append(q, m), c)
<1> DEFINE r == Append(q, m)
<1>1. /\ Len(q) \in Nat /\ DOMAIN q = 1 .. Len(q) /\ DOMAIN r = 1 .. Len(q) + 1
      /\ r[Len(q) + 1] = m /\ \A i \in 1 .. Len(q) : r[i] = q[i]
  BY SentFacts
<1> HIDE DEF r
<1>2. ASSUME NEW i \in DOMAIN r, r[i].type = "initialize"
      PROVE  r[i].configuration = c
  <2>1. i = Len(q) + 1 \/ i \in 1 .. Len(q)
    BY <1>1
  <2> QED
    BY <1>1, <1>2, <2>1 DEF Announces
<1>3. Announces(r, c)
  BY <1>2 DEF Announces
<1> QED
  BY <1>3 DEF r

LEMMA AnnouncesRead ==
  ASSUME NEW S, NEW q \in Seq(S), q # << >>, NEW c, Announces(q, c)
  PROVE  /\ Announces(Tail(q), c)
         /\ Head(q).type = "initialize" => Head(q).configuration = c
<1> DEFINE r == Tail(q)
<1>1. /\ Len(q) \in Nat \ {0} /\ DOMAIN q = 1 .. Len(q) /\ Head(q) = q[1]
      /\ DOMAIN r = 1 .. Len(q) - 1 /\ \A i \in 1 .. Len(q) - 1 : r[i] = q[i + 1]
  BY ReadFacts
<1> HIDE DEF r
<1>2. ASSUME NEW i \in DOMAIN r, r[i].type = "initialize"
      PROVE  r[i].configuration = c
  <2>1. i + 1 \in DOMAIN q /\ q[i + 1] = r[i]
    BY <1>1
  <2> QED
    BY <1>2, <2>1 DEF Announces
<1>3. Announces(r, c) /\ (Head(q).type = "initialize" => Head(q).configuration = c)
  BY <1>1, <1>2 DEF Announces
<1> QED
  BY <1>3 DEF r

-----------------------------------------------------------------------------
(***************************************************************************)
(* Every promise of settings is settled, or its request is on its way to   *)
(* the client, or the answer to it on its way back.                        *)
(***************************************************************************)
PromisesAnswered ==
  \A p \in 1 .. Len(promises) : Settled(p) \/ Carries(toClient, p) \/ Carries(toServer, p)

(***************************************************************************)
(* The first half of validateTextDocument: a promise it makes is settled   *)
(* or requested, and no other changes.                                     *)
(***************************************************************************)
LEMMA StartAnswered ==
  ASSUME SettingsInv, PromisesAnswered, NEW d \in Docs, StartValidation(d),
         NEW p \in 1 .. Len(promises')
  PROVE  Settled(p)' \/ Carries(toClient', p) \/ Carries(toServer, p)
<1>1. /\ toClient \in Seq(ToClientMessage) /\ promises \in Seq(Promise)
      /\ Len(promises) \in Nat
  BY LenProperties DEF SettingsInv, TypeOK
<1>2. CASE UseCachedSettings(d)
  BY <1>2 DEF UseCachedSettings, PromisesAnswered, Settled
<1>3. CASE UseGlobalSettings(d)
  <2> DEFINE x == [state |-> "value", settings |-> globalSettings]
  <2>1. promises' = Append(promises, x) /\ toClient' = toClient /\ x.state # "pending"
    BY <1>3 DEF UseGlobalSettings
  <2> HIDE DEF x
  <2>2. p = Len(promises) + 1 => promises'[p] = x
    BY <1>1, <2>1, SentFacts
  <2>3. p # Len(promises) + 1 => p \in 1 .. Len(promises) /\ promises'[p] = promises[p]
    BY <1>1, <2>1, SentFacts, LenProperties
  <2> QED
    BY <2>1, <2>2, <2>3 DEF PromisesAnswered, Settled
<1>4. CASE RequestSettings(d)
  <2> DEFINE x == [state |-> "pending", settings |-> defaultSettings]
  <2> DEFINE m == [type |-> "configuration", id |-> Len(promises) + 1, doc |-> d]
  <2>1. /\ promises' = Append(promises, x) /\ toClient' = Append(toClient, m)
        /\ m.type = "configuration" /\ m.id = Len(promises) + 1
    BY <1>4 DEF RequestSettings
  <2> HIDE DEF x, m
  <2>2. p # Len(promises) + 1 => p \in 1 .. Len(promises) /\ promises'[p] = promises[p]
    BY <1>1, <2>1, SentFacts, LenProperties
  <2>3. p = Len(promises) + 1 => Carries(toClient', p)
    BY <1>1, <2>1, CarriesSent
  <2>4. Carries(toClient, p) => Carries(toClient', p)
    BY <1>1, <2>1, CarriesSent
  <2> QED
    BY <2>2, <2>3, <2>4 DEF PromisesAnswered, Settled
<1> QED
  BY <1>2, <1>3, <1>4 DEF StartValidation

(***************************************************************************)
(* A step that settles nothing back and takes no request and no answer     *)
(* away keeps every promise answered.                                      *)
(***************************************************************************)
LEMMA SamePromisesAnswered ==
  ASSUME PromisesAnswered, promises' = promises,
         \A p \in 1 .. Len(promises) :
           Carries(toClient, p) \/ Carries(toServer, p)
             => Carries(toClient', p) \/ Carries(toServer', p)
  PROVE  PromisesAnswered'
BY DEF PromisesAnswered, Settled

LEMMA MoreToServerCarries ==
  ASSUME SettingsInv, NEW m, Send(m), NEW p, Carries(toServer, p)
  PROVE  Carries(toServer', p)
BY CarriesSent DEF SettingsInv, TypeOK, Send

LEMMA MoreToClientCarries ==
  ASSUME SettingsInv, NEW m, toClient' = Append(toClient, m), NEW p, Carries(toClient, p)
  PROVE  Carries(toClient', p)
BY CarriesSent DEF SettingsInv, TypeOK

LEMMA LessToServerCarries ==
  ASSUME SettingsInv, NEW type, Reads(type), type # "configuration", NEW p, Carries(toServer, p)
  PROVE  Carries(toServer', p)
BY CarriesRead DEF SettingsInv, TypeOK, Reads, Receives

LEMMA LessToClientCarries ==
  ASSUME SettingsInv, NEW type, Takes(type), type # "configuration", NEW p, Carries(toClient, p)
  PROVE  Carries(toClient', p)
BY CarriesRead DEF SettingsInv, TypeOK, Takes, Receives

LEMMA ServerKeepsAnswered ==
  ASSUME SettingsInv, PromisesAnswered, ServerNext
  PROVE  PromisesAnswered'
<1>1. /\ toServer \in Seq(ToServerMessage) /\ toClient \in Seq(ToClientMessage)
      /\ promises \in Seq(Promise)
  BY DEF SettingsInv, TypeOK
<1>2. CASE OnInitialize
  <2>1. /\ Reads("initialize") /\ promises' = promises
        /\ toClient' = Append(toClient, [type |-> "initializeResult"])
    BY <1>2 DEF OnInitialize
  <2>2. \A p : Carries(toClient, p) => Carries(toClient', p)
    BY <2>1, MoreToClientCarries
  <2> QED
    BY <2>1, <2>2, LessToServerCarries, SamePromisesAnswered
<1>3. CASE OnInitialized
  <2>1. /\ Reads("initialized") /\ promises' = promises
        /\ \/ toClient' = toClient
           \/ toClient' = Append(toClient, [type |-> "registerCapability"])
    BY <1>3 DEF OnInitialized, serverVars
  <2>2. \A p : Carries(toClient, p) => Carries(toClient', p)
    BY <2>1, MoreToClientCarries
  <2> QED
    BY <2>1, <2>2, LessToServerCarries, SamePromisesAnswered
<1>4. ASSUME NEW d \in Docs, StartValidation(d),
             \A p \in 1 .. Len(promises') : Carries(toServer, p) => Carries(toServer', p)
      PROVE  PromisesAnswered'
  BY <1>4, StartAnswered DEF PromisesAnswered
<1>5. CASE OnDidOpen
  <2>1. Reads("didOpen") /\ StartValidation(Head(toServer).doc) /\ Head(toServer).doc \in Docs
    BY <1>1, <1>5, ReadTyped, ToServerFields DEF OnDidOpen, Reads, Receives
  <2> QED
    BY <1>4, <2>1, LessToServerCarries
<1>6. CASE OnDidChangeContent
  <2>1. Reads("didChange") /\ StartValidation(Head(toServer).doc) /\ Head(toServer).doc \in Docs
    BY <1>1, <1>6, ReadTyped, ToServerFields DEF OnDidChangeContent, Reads, Receives
  <2> QED
    BY <1>4, <2>1, LessToServerCarries
<1>7. CASE OnDidClose
  <2>1. Reads("didClose") /\ promises' = promises /\ toClient' = toClient
    BY <1>7 DEF OnDidClose
  <2> QED
    BY <2>1, LessToServerCarries, SamePromisesAnswered
<1>8. CASE OnDidChangeConfiguration
  <2>1. Reads("didChangeConfiguration") /\ promises' = promises /\ toClient' = toClient
    BY <1>8 DEF OnDidChangeConfiguration
  <2> QED
    BY <2>1, LessToServerCarries, SamePromisesAnswered
<1>9. CASE OnConfiguration
  <2> DEFINE m == Head(toServer)
  <2> DEFINE x == Received(m)
  <2>1. /\ toServer # << >> /\ m.type = "configuration" /\ toServer' = Tail(toServer)
        /\ promises' = [promises EXCEPT ![m.id] = x] /\ toClient' = toClient
    BY <1>9 DEF OnConfiguration, Reads, Receives
  <2>2. x.state # "pending"
    <3>1. m.outcome \in Outcomes
      BY <1>1, <2>1, ReadTyped, ToServerFields
    <3> QED
      BY <3>1 DEF Received, Outcomes
  <2>3. Len(promises') = Len(promises) /\ DOMAIN promises = 1 .. Len(promises)
    BY <1>1, <2>1, LenProperties
  <2>4. ASSUME NEW p \in 1 .. Len(promises)
        PROVE  Settled(p)' \/ Carries(toClient', p) \/ Carries(toServer', p)
    <3>1. CASE p = m.id
      BY <2>1, <2>2, <2>3, <3>1 DEF Settled
    <3>2. CASE p # m.id
      <4>1. promises'[p] = promises[p]
        BY <2>1, <2>3, <3>2
      <4>2. Carries(toServer, p) => Carries(toServer', p)
        BY <1>1, <2>1, <3>2, CarriesRead
      <4> QED
        BY <2>1, <4>1, <4>2 DEF PromisesAnswered, Settled
    <3> QED
      BY <3>1, <3>2
  <2> QED
    BY <2>3, <2>4 DEF PromisesAnswered
<1>10. ASSUME NEW d \in Docs, RevalidateOne(d)
       PROVE  PromisesAnswered'
  BY <1>4, <1>10 DEF RevalidateOne
<1>11. ASSUME NEW v \in validating, Resume(v)
       PROVE  PromisesAnswered'
  <2>1. /\ promises' = promises /\ toServer' = toServer
        /\ toClient' = toClient \/ toClient' = Append(toClient, Diagnostics(v))
    BY <1>11 DEF Resume
  <2>2. \A p : Carries(toClient, p) => Carries(toClient', p)
    BY <2>1, MoreToClientCarries
  <2> QED
    BY <2>1, <2>2, SamePromisesAnswered
<1> QED
  BY <1>2, <1>3, <1>5, <1>6, <1>7, <1>8, <1>9, <1>10, <1>11 DEF ServerNext

LEMMA ConcatenatedIsSent ==
  ASSUME NEW S, NEW q \in Seq(S), NEW m, NEW n
  PROVE  /\ q \o << m >> = Append(q, m)
         /\ q \o << m, n >> = Append(Append(q, m), n)
OBVIOUS

(***************************************************************************)
(* The greeting of the client, sent message by message.                    *)
(***************************************************************************)
LEMMA GreetingSent ==
  ASSUME SettingsInv, OnInitializeResult
  PROVE  /\ Takes("initializeResult") /\ connection' = "running"
         /\ \E q \in Seq(ToServerMessage) :
              /\ q = Append(toServer, [type |-> "initialized"])
              /\ toServer' = IF configuration THEN q
                             ELSE Append(q, [type |-> "didChangeConfiguration", epoch |-> epoch])
<1>1. [type |-> "initialized"] \in ToServerMessage /\ toServer \in Seq(ToServerMessage)
  BY DEF ToServerMessage, SettingsInv, TypeOK
<1>2. Append(toServer, [type |-> "initialized"]) \in Seq(ToServerMessage)
  BY <1>1, AppendProperties
<1> DEFINE started == [type |-> "initialized"]
<1> DEFINE pushed == [type |-> "didChangeConfiguration", epoch |-> epoch]
<1>3. toServer' = toServer \o (IF configuration THEN << started >> ELSE << started, pushed >>)
  BY DEF OnInitializeResult, Greeting
<1> HIDE DEF started, pushed
<1>4. toServer' = IF configuration THEN Append(toServer, started)
                  ELSE Append(Append(toServer, started), pushed)
  BY <1>1, <1>3, ConcatenatedIsSent
<1>5. Takes("initializeResult") /\ connection' = "running"
  BY DEF OnInitializeResult
<1> QED
  BY <1>2, <1>4, <1>5 DEF started, pushed

LEMMA ClientKeepsAnswered ==
  ASSUME SettingsInv, PromisesAnswered, ClientNext, UNCHANGED serverVars
  PROVE  PromisesAnswered'
<1>1. /\ toServer \in Seq(ToServerMessage) /\ toClient \in Seq(ToClientMessage)
      /\ promises' = promises
  BY DEF SettingsInv, TypeOK, serverVars
<1>2. CASE Activate
  <2>1. Send([type |-> "initialize", configuration |-> configuration]) /\ toClient' = toClient
    BY <1>2 DEF Activate
  <2> QED
    BY <1>1, <2>1, MoreToServerCarries, SamePromisesAnswered
<1>3. CASE OnInitializeResult
  <2>1. \A p : Carries(toServer, p) => Carries(toServer', p)
    <3> DEFINE started == [type |-> "initialized"]
    <3> DEFINE pushed == [type |-> "didChangeConfiguration", epoch |-> epoch]
    <3>1. PICK q \in Seq(ToServerMessage) :
            /\ q = Append(toServer, started)
            /\ toServer' = IF configuration THEN q ELSE Append(q, pushed)
      BY <1>3, GreetingSent
    <3> HIDE DEF started, pushed
    <3>2. \A p : Carries(toServer, p) => Carries(q, p)
      BY <1>1, <3>1, CarriesSent
    <3>3. \A p : Carries(q, p) => Carries(Append(q, pushed), p)
      BY CarriesSent
    <3> QED
      BY <3>1, <3>2, <3>3
  <2>2. Takes("initializeResult")
    BY <1>3 DEF OnInitializeResult
  <2> QED
    BY <1>1, <2>1, <2>2, LessToClientCarries, SamePromisesAnswered
<1>4. CASE OnRegisterCapability
  <2>1. Takes("registerCapability") /\ toServer' = toServer
    BY <1>4 DEF OnRegisterCapability
  <2> QED
    BY <1>1, <2>1, LessToClientCarries, SamePromisesAnswered
<1>5. CASE OnConfigurationRequest
  <2>1. PICK outcome \in Answers :
          Send([type |-> "configuration", id |-> Head(toClient).id,
                outcome |-> outcome, epoch |-> epoch])
    BY <1>5 DEF OnConfigurationRequest
  <2> DEFINE m == [type |-> "configuration", id |-> Head(toClient).id,
                   outcome |-> outcome, epoch |-> epoch]
  <2>2. /\ Send(m) /\ m.type = "configuration" /\ m.id = Head(toClient).id
        /\ toClient # << >> /\ toClient' = Tail(toClient)
    BY <1>5, <2>1 DEF OnConfigurationRequest, Takes, Receives
  <2> HIDE DEF m
  <2>3. ASSUME NEW p, Carries(toClient, p)
        PROVE  Carries(toClient', p) \/ Carries(toServer', p)
    BY <1>1, <2>2, <2>3, CarriesRead, CarriesSent DEF Send
  <2> QED
    BY <1>1, <2>2, <2>3, MoreToServerCarries, SamePromisesAnswered
<1>6. CASE OnPublishDiagnostics
  <2>1. Takes("publishDiagnostics") /\ toServer' = toServer
    BY <1>6 DEF OnPublishDiagnostics
  <2> QED
    BY <1>1, <2>1, LessToClientCarries, SamePromisesAnswered
<1>7. ASSUME NEW d \in Docs, SyncOpen(d)
      PROVE  PromisesAnswered'
  <2>1. /\ Send([type |-> "didOpen", doc |-> d, version |-> version[d]])
        /\ toClient' = toClient
    BY <1>7 DEF SyncOpen
  <2> QED
    BY <1>1, <2>1, MoreToServerCarries, SamePromisesAnswered
<1> QED
  BY <1>2, <1>3, <1>4, <1>5, <1>6, <1>7 DEF ClientNext

(***************************************************************************)
(* An operation of the user sends a message at most.                       *)
(***************************************************************************)
LEMMA UserKeepsAnswered ==
  ASSUME SettingsInv, PromisesAnswered, UserNext, UNCHANGED serverVars
  PROVE  PromisesAnswered'
<1>1. promises' = promises /\ toClient' = toClient
  BY DEF serverVars, UserNext, UserOpen, UserEdit, UserClose, UserConfigure, UserActs
<1>2. toServer' = toServer \/ \E m : Send(m)
  <2>1. ASSUME NEW d \in Docs, UserOpen(d) \/ UserEdit(d) \/ UserClose(d)
        PROVE  toServer' = toServer \/ \E m : Send(m)
    BY <2>1 DEF UserOpen, UserEdit, UserClose
  <2>2. CASE UserConfigure
    BY <2>2 DEF UserConfigure
  <2> QED
    BY <2>1, <2>2 DEF UserNext
<1> QED
  BY <1>1, <1>2, MoreToServerCarries, SamePromisesAnswered

(***************************************************************************)
(* Every request of settings is answered, or is on its way (server.ts:119).*)
(***************************************************************************)
THEOREM PromisesInvariant == Spec => []PromisesAnswered
<1>1. Init => PromisesAnswered
  BY DEF Init, ServerInit, PromisesAnswered
<1>2. SettingsInv /\ PromisesAnswered /\ [Next]_vars => PromisesAnswered'
  <2> SUFFICES ASSUME SettingsInv, PromisesAnswered, [Next]_vars PROVE PromisesAnswered'
    OBVIOUS
  <2>1. CASE UNCHANGED vars
    BY <2>1 DEF vars, channels, serverVars, PromisesAnswered, Settled
  <2>2. CASE ServerStep
    BY <2>2, ServerKeepsAnswered DEF ServerStep
  <2>3. CASE ClientStep
    BY <2>3, ClientKeepsAnswered DEF ClientStep
  <2>4. CASE UserStep
    BY <2>4, UserKeepsAnswered DEF UserStep
  <2> QED
    BY <2>1, <2>2, <2>3, <2>4 DEF Next
<1> QED
  BY <1>1, <1>2, SettingsInvariant, PTL DEF Spec

(***************************************************************************)
(* No validation waits for ever (server.ts:117-122,141): whatever the      *)
(* order of requests, answers and closes.                                  *)
(***************************************************************************)
THEOREM AwaitsAnswered == Spec => []EveryAwaitIsAnswered
<1>1. SettingsInv /\ PromisesAnswered => EveryAwaitIsAnswered
  BY DEF SettingsInv, TypeOK, PromisesAnswered, EveryAwaitIsAnswered, Carries
<1> QED
  BY <1>1, SettingsInvariant, PromisesInvariant, PTL

-----------------------------------------------------------------------------
(***************************************************************************)
(* The handshake: what initialize announces is what the server knows once  *)
(* the client runs, and without the capability no settings are requested.  *)
(***************************************************************************)
HandshakeInv ==
  /\ Announces(toServer, configuration)
  /\ hasConfigurationCapability => configuration
  /\ connection = "running" \/ Sends(toClient, "initializeResult")
       => hasConfigurationCapability = configuration
  /\ Sends(toServer, "initialized") => connection = "running"
  /\ synced # {} => connection = "running"
  /\ ~ hasConfigurationCapability => \A d \in Docs : documentSettings[d] = NoPromise

(***************************************************************************)
(* With the capability: the server registers before it knows of any        *)
(* document, the client takes note of it before the first request of       *)
(* settings, and so before any settings are cached.                        *)
(***************************************************************************)
Registering == registered \/ Sends(toClient, "registerCapability")

CachedSettled(d) == documentSettings[d] # NoPromise /\ Settled(documentSettings[d])

RegistrationInv ==
  configuration =>
    /\ connection = "running" => Registering \/ Sends(toServer, "initialized")
    /\ Registering \/ OnlyAfter(toServer, {"didOpen", "didChange"}, "initialized")
    /\ OpenDocuments # {} => Registering
    /\ registered \/ OnlyAfter(toClient, {"configuration"}, "registerCapability")
    /\ Sends(toServer, "configuration") => registered
    /\ \A d \in Docs : CachedSettled(d) => registered

(***************************************************************************)
(* Without it: nothing is requested, and a running client has told every   *)
(* change.                                                                 *)
(***************************************************************************)
PushInv ==
  ~ configuration =>
    /\ ~ Sends(toClient, "configuration") /\ ~ Sends(toServer, "configuration")
    /\ connection # "running" => ~ Sends(toServer, "didChangeConfiguration")
    /\ NoneOutdated(toServer, "didChangeConfiguration", epoch)
    /\ connection = "running" /\ globalSettings.epoch # epoch
         => Sends(toServer, "didChangeConfiguration")

(***************************************************************************)
(* An outdated answer, and an outdated setting in the cache, are followed  *)
(* by the notification that clears the cache.                              *)
(***************************************************************************)
StaleInv ==
  /\ NoneOutdated(toServer, "configuration", epoch)
  /\ \A d \in Docs :
       CachedSettled(d) /\ promises[documentSettings[d]].settings.epoch # epoch
         => Sends(toServer, "didChangeConfiguration")

OrderInv == HandshakeInv /\ RegistrationInv /\ PushInv /\ StaleInv

(***************************************************************************)
(* What the server knows of the message it reads and of those left.        *)
(***************************************************************************)
LEMMA ServerReads ==
  ASSUME SettingsInv, OrderInv, NEW type, Reads(type)
  PROVE  /\ Head(toServer) \in ToServerMessage /\ Head(toServer).type = type
         /\ \A t : Sends(toServer, t) <=> type = t \/ Sends(toServer', t)
         /\ Announces(toServer', configuration)
         /\ type = "initialize" => Head(toServer).configuration = configuration
         /\ NoneOutdated(toServer', "configuration", epoch)
         /\ type = "configuration" /\ Head(toServer).epoch # epoch
              => Sends(toServer', "didChangeConfiguration")
         /\ ~ configuration =>
              /\ NoneOutdated(toServer', "didChangeConfiguration", epoch)
              /\ type = "didChangeConfiguration" /\ Head(toServer).epoch # epoch
                   => Sends(toServer', "didChangeConfiguration")
         /\ configuration =>
              \/ Registering
              \/ /\ type \notin {"didOpen", "didChange"}
                 /\ type # "initialized"
                      => OnlyAfter(toServer', {"didOpen", "didChange"}, "initialized")
<1>1. /\ toServer \in Seq(ToServerMessage) /\ toServer # << >>
      /\ Head(toServer).type = type /\ toServer' = Tail(toServer)
  BY DEF SettingsInv, TypeOK, Reads, Receives
<1>2. Head(toServer) \in ToServerMessage
  BY <1>1, ReadTyped
<1>3. \A t : Sends(toServer, t) <=> type = t \/ Sends(toServer', t)
  BY <1>1, SendsRead
<1>4. /\ Announces(toServer', configuration)
      /\ type = "initialize" => Head(toServer).configuration = configuration
  BY <1>1, AnnouncesRead DEF OrderInv, HandshakeInv
<1>5. ASSUME NEW t, NoneOutdated(toServer, t, epoch)
      PROVE  /\ NoneOutdated(toServer', t, epoch)
             /\ type = t /\ Head(toServer).epoch # epoch
                  => Sends(toServer', "didChangeConfiguration")
  BY <1>1, <1>5, NoneOutdatedRead
<1>6. NoneOutdated(toServer, "configuration", epoch)
  BY DEF OrderInv, StaleInv
<1>7. ~ configuration => NoneOutdated(toServer, "didChangeConfiguration", epoch)
  BY DEF OrderInv, PushInv
<1>8. ASSUME configuration, ~ Registering
      PROVE  /\ type \notin {"didOpen", "didChange"}
             /\ type # "initialized"
                  => OnlyAfter(toServer', {"didOpen", "didChange"}, "initialized")
  <2>1. OnlyAfter(toServer, {"didOpen", "didChange"}, "initialized")
    BY <1>8 DEF OrderInv, RegistrationInv
  <2> QED
    BY <1>1, <2>1, OnlyAfterRead
<1> QED
  BY <1>1, <1>2, <1>3, <1>4, <1>5, <1>6, <1>7, <1>8

(***************************************************************************)
(* What the client knows of the message it takes and of those left.        *)
(***************************************************************************)
LEMMA ClientTakes ==
  ASSUME SettingsInv, OrderInv, NEW type, Takes(type)
  PROVE  /\ \A t : Sends(toClient, t) <=> type = t \/ Sends(toClient', t)
         /\ configuration =>
              \/ registered
              \/ /\ type # "configuration"
                 /\ type # "registerCapability"
                      => OnlyAfter(toClient', {"configuration"}, "registerCapability")
<1>1. /\ toClient \in Seq(ToClientMessage) /\ toClient # << >>
      /\ Head(toClient).type = type /\ toClient' = Tail(toClient)
  BY DEF SettingsInv, TypeOK, Takes, Receives
<1>2. \A t : Sends(toClient, t) <=> type = t \/ Sends(toClient', t)
  BY <1>1, SendsRead
<1>3. ASSUME configuration, ~ registered
      PROVE  /\ type # "configuration"
             /\ type # "registerCapability"
                  => OnlyAfter(toClient', {"configuration"}, "registerCapability")
  <2>1. OnlyAfter(toClient, {"configuration"}, "registerCapability")
    BY <1>3 DEF OrderInv, RegistrationInv
  <2> QED
    BY <1>1, <2>1, OnlyAfterRead
<1> QED
  BY <1>2, <1>3

(***************************************************************************)
(* Sending a message to the server that is up to date.                     *)
(***************************************************************************)
LEMMA ServerIsSent ==
  ASSUME SettingsInv, OrderInv, NEW m, Send(m),
         m.type = "initialize" => m.configuration = configuration,
         m.type \in {"configuration", "didChangeConfiguration"} => m.epoch = epoch,
         m.type \in {"didOpen", "didChange"} => connection = "running"
  PROVE  /\ \A t : Sends(toServer', t) <=> Sends(toServer, t) \/ m.type = t
         /\ Announces(toServer', configuration)
         /\ NoneOutdated(toServer', "configuration", epoch)
         /\ ~ configuration => NoneOutdated(toServer', "didChangeConfiguration", epoch)
         /\ configuration =>
              Registering \/ OnlyAfter(toServer', {"didOpen", "didChange"}, "initialized")
<1>1. toServer \in Seq(ToServerMessage) /\ toServer' = Append(toServer, m)
  BY DEF SettingsInv, TypeOK, Send
<1>2. \A t : Sends(toServer', t) <=> Sends(toServer, t) \/ m.type = t
  BY <1>1, SendsSent
<1>3. Announces(toServer', configuration)
  BY <1>1, AnnouncesSent DEF OrderInv, HandshakeInv
<1>4. NoneOutdated(toServer', "configuration", epoch)
  BY <1>1, NoneOutdatedSent DEF OrderInv, StaleInv
<1>5. ~ configuration => NoneOutdated(toServer', "didChangeConfiguration", epoch)
  BY <1>1, NoneOutdatedSent DEF OrderInv, PushInv
<1>6. ASSUME configuration, ~ Registering
      PROVE  OnlyAfter(toServer', {"didOpen", "didChange"}, "initialized")
  <2>1. /\ OnlyAfter(toServer, {"didOpen", "didChange"}, "initialized")
        /\ m.type \in {"didOpen", "didChange"} => Sends(toServer, "initialized")
    BY <1>6 DEF OrderInv, RegistrationInv
  <2> QED
    BY <1>1, <2>1, OnlyAfterSent
<1> QED
  BY <1>2, <1>3, <1>4, <1>5, <1>6

(***************************************************************************)
(* The first half of validateTextDocument requests settings at most, of a  *)
(* client that was told of the registration, and settles nothing cached.   *)
(***************************************************************************)
LEMMA StartOrder ==
  ASSUME SettingsInv, OrderInv, NEW d \in Docs, StartValidation(d)
  PROVE  /\ \A t : Sends(toClient', t) =>
                Sends(toClient, t) \/ (hasConfigurationCapability /\ t = "configuration")
         /\ \A t : Sends(toClient, t) => Sends(toClient', t)
         /\ configuration /\ Registering =>
              registered \/ OnlyAfter(toClient', {"configuration"}, "registerCapability")
         /\ ~ hasConfigurationCapability => documentSettings' = documentSettings
         /\ \A c \in Docs : CachedSettled(c)' =>
              /\ CachedSettled(c)
              /\ promises'[documentSettings'[c]] = promises[documentSettings[c]]
<1>1. /\ toClient \in Seq(ToClientMessage) /\ promises \in Seq(Promise)
      /\ Len(promises) \in Nat /\ documentSettings \in [Docs -> 0 .. Len(promises)]
  BY LenProperties DEF SettingsInv, TypeOK
<1>2. configuration => registered \/ OnlyAfter(toClient, {"configuration"}, "registerCapability")
  BY DEF OrderInv, RegistrationInv
<1>3. CASE UseCachedSettings(d)
  BY <1>2, <1>3 DEF UseCachedSettings, CachedSettled, Settled
<1>4. CASE UseGlobalSettings(d)
  <2> DEFINE x == [state |-> "value", settings |-> globalSettings]
  <2>1. /\ promises' = Append(promises, x) /\ toClient' = toClient
        /\ documentSettings' = documentSettings
    BY <1>4 DEF UseGlobalSettings
  <2> HIDE DEF x
  <2>2. ASSUME NEW c \in Docs, documentSettings[c] # NoPromise
        PROVE  promises'[documentSettings[c]] = promises[documentSettings[c]]
    <3>1. documentSettings[c] \in 1 .. Len(promises)
      BY <1>1, <2>2 DEF NoPromise
    <3> QED
      BY <1>1, <2>1, <3>1, SentFacts
  <2>3. \A c \in Docs : CachedSettled(c)' =>
              /\ CachedSettled(c)
              /\ promises'[documentSettings'[c]] = promises[documentSettings[c]]
    BY <2>1, <2>2 DEF CachedSettled, Settled
  <2> QED
    BY <1>2, <2>1, <2>3
<1>5. CASE RequestSettings(d)
  <2> DEFINE x == [state |-> "pending", settings |-> defaultSettings]
  <2> DEFINE m == [type |-> "configuration", id |-> Len(promises) + 1, doc |-> d]
  <2>1. /\ promises' = Append(promises, x) /\ toClient' = Append(toClient, m)
        /\ m.type = "configuration" /\ x.state = "pending" /\ hasConfigurationCapability
        /\ documentSettings' = [documentSettings EXCEPT ![d] = Len(promises) + 1]
    BY <1>5 DEF RequestSettings
  <2> HIDE DEF x, m
  <2>2. \A t : Sends(toClient', t) <=> Sends(toClient, t) \/ t = "configuration"
    BY <1>1, <2>1, SendsSent
  <2>3. ASSUME configuration, Registering, ~ registered
        PROVE  OnlyAfter(toClient', {"configuration"}, "registerCapability")
    <3>1. /\ OnlyAfter(toClient, {"configuration"}, "registerCapability")
          /\ Sends(toClient, "registerCapability")
      BY <1>2, <2>3 DEF Registering
    <3> QED
      BY <1>1, <2>1, <3>1, OnlyAfterSent
  <2>4. promises'[Len(promises) + 1] = x
    BY <1>1, <2>1, SentFacts
  <2>5. ASSUME NEW c \in Docs, CachedSettled(c)'
        PROVE  /\ CachedSettled(c)
               /\ promises'[documentSettings'[c]] = promises[documentSettings[c]]
    <3>1. c # d
      BY <1>1, <2>1, <2>4, <2>5 DEF CachedSettled, Settled
    <3>2. documentSettings'[c] = documentSettings[c] /\ documentSettings[c] \in 1 .. Len(promises)
      BY <1>1, <2>1, <2>5, <3>1 DEF CachedSettled, NoPromise
    <3>3. promises'[documentSettings[c]] = promises[documentSettings[c]]
      BY <1>1, <2>1, <3>2, SentFacts
    <3> QED
      BY <2>5, <3>2, <3>3 DEF CachedSettled, Settled
  <2> QED
    BY <2>1, <2>2, <2>3, <2>5
<1> QED
  BY <1>3, <1>4, <1>5 DEF StartValidation

(***************************************************************************)
(* A handler of the server that validates a document of the manager.       *)
(***************************************************************************)
LEMMA StartKeepsOrder ==
  ASSUME SettingsInv, OrderInv, NEW d \in Docs, StartValidation(d),
         UNCHANGED <<clientVars, hasConfigurationCapability, globalSettings>>,
         configuration => Registering,
         \/ toServer' = toServer
         \/ \E type \in {"didOpen", "didChange"} : Reads(type)
  PROVE  OrderInv'
<1>1. /\ \A t : Sends(toClient', t) =>
                Sends(toClient, t) \/ (hasConfigurationCapability /\ t = "configuration")
      /\ \A t : Sends(toClient, t) => Sends(toClient', t)
      /\ configuration /\ Registering =>
           registered \/ OnlyAfter(toClient', {"configuration"}, "registerCapability")
      /\ ~ hasConfigurationCapability => documentSettings' = documentSettings
      /\ \A c \in Docs : CachedSettled(c)' =>
           /\ CachedSettled(c)
           /\ promises'[documentSettings'[c]] = promises[documentSettings[c]]
  BY StartOrder
<1>2. /\ configuration' = configuration /\ connection' = connection /\ epoch' = epoch
      /\ registered' = registered /\ synced' = synced
      /\ hasConfigurationCapability' = hasConfigurationCapability
      /\ globalSettings' = globalSettings
  BY DEF clientVars
<1>3. /\ Announces(toServer', configuration) /\ NoneOutdated(toServer', "configuration", epoch)
      /\ ~ configuration => NoneOutdated(toServer', "didChangeConfiguration", epoch)
  BY ServerReads DEF OrderInv, HandshakeInv, PushInv, StaleInv
<1>4. \A t : t \notin {"didOpen", "didChange"} => (Sends(toServer', t) <=> Sends(toServer, t))
  BY ServerReads
<1>5. configuration => Registering'
  BY <1>1, <1>2 DEF Registering
<1>6. HandshakeInv'
  BY <1>1, <1>2, <1>3, <1>4 DEF OrderInv, HandshakeInv
<1>7. RegistrationInv'
  BY <1>1, <1>2, <1>4, <1>5 DEF OrderInv, RegistrationInv
<1>8. PushInv'
  BY <1>1, <1>2, <1>3, <1>4 DEF OrderInv, HandshakeInv, PushInv
<1>9. StaleInv'
  BY <1>1, <1>2, <1>3, <1>4 DEF OrderInv, StaleInv
<1> QED
  BY <1>6, <1>7, <1>8, <1>9 DEF OrderInv

LEMMA ServerKeepsOrder ==
  ASSUME SettingsInv, OrderInv, ServerNext, UNCHANGED clientVars
  PROVE  OrderInv'
<1>1. /\ configuration' = configuration /\ connection' = connection /\ epoch' = epoch
      /\ registered' = registered /\ synced' = synced
  BY DEF clientVars
<1>2. toServer \in Seq(ToServerMessage) /\ toClient \in Seq(ToClientMessage)
  BY DEF SettingsInv, TypeOK
<1>3. CASE OnInitialize
  <2> DEFINE m == [type |-> "initializeResult"]
  <2>1. /\ Reads("initialize") /\ hasConfigurationCapability' = Head(toServer).configuration
        /\ toClient' = Append(toClient, m) /\ m.type = "initializeResult"
        /\ documents' = documents
        /\ UNCHANGED <<globalSettings, documentSettings, promises>>
    BY <1>3 DEF OnInitialize
  <2> HIDE DEF m
  <2>2. \A t : Sends(toClient', t) <=> Sends(toClient, t) \/ t = "initializeResult"
    BY <1>2, <2>1, SendsSent
  <2>3. configuration =>
          registered \/ OnlyAfter(toClient', {"configuration"}, "registerCapability")
    BY <1>2, <2>1, OnlyAfterSent DEF OrderInv, RegistrationInv
  <2>4. /\ hasConfigurationCapability' = configuration
        /\ Announces(toServer', configuration) /\ NoneOutdated(toServer', "configuration", epoch)
        /\ ~ configuration => NoneOutdated(toServer', "didChangeConfiguration", epoch)
        /\ configuration =>
             Registering \/ OnlyAfter(toServer', {"didOpen", "didChange"}, "initialized")
        /\ \A t : t # "initialize" => (Sends(toServer', t) <=> Sends(toServer, t))
    BY <2>1, ServerReads
  <2>5. Registering' <=> Registering
    BY <1>1, <2>2 DEF Registering
  <2>6. \A c \in Docs : CachedSettled(c)' <=> CachedSettled(c)
    BY <2>1 DEF CachedSettled, Settled
  <2>7. HandshakeInv'
    BY <1>1, <2>1, <2>2, <2>4 DEF OrderInv, HandshakeInv
  <2>8. RegistrationInv'
    BY <1>1, <2>1, <2>3, <2>4, <2>5, <2>6 DEF OrderInv, RegistrationInv, OpenDocuments
  <2>9. PushInv'
    BY <1>1, <2>1, <2>2, <2>4 DEF OrderInv, PushInv
  <2>10. StaleInv'
    BY <1>1, <2>1, <2>4, <2>6 DEF OrderInv, StaleInv
  <2> QED
    BY <2>7, <2>8, <2>9, <2>10 DEF OrderInv
<1>4. CASE OnInitialized
  <2>1. /\ Reads("initialized") /\ UNCHANGED serverVars
        /\ toClient' = IF hasConfigurationCapability
                       THEN Append(toClient, [type |-> "registerCapability"])
                       ELSE toClient
    BY <1>4 DEF OnInitialized
  <2>2. /\ Announces(toServer', configuration) /\ NoneOutdated(toServer', "configuration", epoch)
        /\ ~ configuration => NoneOutdated(toServer', "didChangeConfiguration", epoch)
        /\ Sends(toServer, "initialized")
        /\ \A t : t # "initialized" => (Sends(toServer', t) <=> Sends(toServer, t))
    BY <2>1, ServerReads
  <2>3. connection = "running" /\ hasConfigurationCapability = configuration
    BY <2>2 DEF OrderInv, HandshakeInv
  <2>4. /\ \A t : Sends(toClient', t) <=>
                Sends(toClient, t) \/ (configuration /\ t = "registerCapability")
        /\ configuration =>
             registered \/ OnlyAfter(toClient', {"configuration"}, "registerCapability")
    <3> DEFINE m == [type |-> "registerCapability"]
    <3>1. m.type = "registerCapability" /\ toClient' = IF configuration THEN Append(toClient, m)
                                                       ELSE toClient
      BY <2>1, <2>3
    <3> HIDE DEF m
    <3>2. \A t : Sends(Append(toClient, m), t) <=> Sends(toClient, t) \/ t = "registerCapability"
      BY <1>2, <3>1, SendsSent
    <3>3. configuration =>
            registered \/ OnlyAfter(Append(toClient, m), {"configuration"}, "registerCapability")
      BY <1>2, <3>1, OnlyAfterSent DEF OrderInv, RegistrationInv
    <3> QED
      BY <3>1, <3>2, <3>3
  <2>5. configuration => Registering'
    BY <2>4 DEF Registering
  <2>6. /\ hasConfigurationCapability' = hasConfigurationCapability
        /\ globalSettings' = globalSettings /\ documents' = documents
        /\ documentSettings' = documentSettings /\ promises' = promises
    BY <2>1 DEF serverVars
  <2>7. \A c \in Docs : CachedSettled(c)' <=> CachedSettled(c)
    BY <2>6 DEF CachedSettled, Settled
  <2>8. HandshakeInv'
    BY <1>1, <2>2, <2>3, <2>4, <2>6 DEF OrderInv, HandshakeInv
  <2>9. RegistrationInv'
    BY <1>1, <2>2, <2>4, <2>5, <2>6, <2>7 DEF OrderInv, RegistrationInv
  <2>10. PushInv'
    BY <1>1, <2>2, <2>4, <2>6 DEF OrderInv, PushInv
  <2>11. StaleInv'
    BY <1>1, <2>2, <2>6, <2>7 DEF OrderInv, StaleInv
  <2> QED
    BY <2>8, <2>9, <2>10, <2>11 DEF OrderInv
<1>5. CASE OnDidOpen
  <2>1. /\ Reads("didOpen") /\ StartValidation(Head(toServer).doc)
        /\ UNCHANGED <<hasConfigurationCapability, globalSettings>>
    BY <1>5 DEF OnDidOpen
  <2>2. Head(toServer).doc \in Docs /\ (configuration => Registering)
    BY <2>1, ServerReads, ToServerFields
  <2> QED
    BY <2>1, <2>2, StartKeepsOrder
<1>6. CASE OnDidChangeContent
  <2>1. /\ Reads("didChange") /\ StartValidation(Head(toServer).doc)
        /\ UNCHANGED <<hasConfigurationCapability, globalSettings>>
    BY <1>6 DEF OnDidChangeContent
  <2>2. Head(toServer).doc \in Docs /\ (configuration => Registering)
    BY <2>1, ServerReads, ToServerFields
  <2> QED
    BY <2>1, <2>2, StartKeepsOrder
<1>7. ASSUME NEW d \in Docs, RevalidateOne(d)
      PROVE  OrderInv'
  <2>1. OpenDocuments # {}
    BY <1>7 DEF RevalidateOne, SettingsInv, RevalidatesOpenDocuments
  <2>2. configuration => Registering
    BY <2>1 DEF OrderInv, RegistrationInv
  <2>3. /\ StartValidation(d) /\ toServer' = toServer
        /\ UNCHANGED <<hasConfigurationCapability, globalSettings>>
    BY <1>7 DEF RevalidateOne
  <2> QED
    BY <2>2, <2>3, StartKeepsOrder
<1>8. CASE OnDidClose
  <2> DEFINE d == Head(toServer).doc
  <2>1. /\ Reads("didClose") /\ toClient' = toClient
        /\ documents' = [documents EXCEPT ![d] = Closed]
        /\ documentSettings' = [documentSettings EXCEPT ![d] = NoPromise]
        /\ hasConfigurationCapability' = hasConfigurationCapability
        /\ globalSettings' = globalSettings /\ promises' = promises
    BY <1>8 DEF OnDidClose
  <2> HIDE DEF d
  <2>2. OpenDocuments' \subseteq OpenDocuments
    BY <2>1 DEF OpenDocuments, SettingsInv, TypeOK
  <2>3. \A c \in Docs : documentSettings'[c] \in {NoPromise, documentSettings[c]}
    BY <2>1 DEF SettingsInv, TypeOK
  <2>4. \A c \in Docs : CachedSettled(c)' =>
          CachedSettled(c) /\ promises'[documentSettings'[c]] = promises[documentSettings[c]]
    BY <2>1, <2>3 DEF CachedSettled, Settled
  <2>5. /\ Announces(toServer', configuration) /\ NoneOutdated(toServer', "configuration", epoch)
        /\ ~ configuration => NoneOutdated(toServer', "didChangeConfiguration", epoch)
        /\ \A t : t # "didClose" => (Sends(toServer', t) <=> Sends(toServer, t))
        /\ configuration =>
             Registering \/ OnlyAfter(toServer', {"didOpen", "didChange"}, "initialized")
    BY <2>1, ServerReads
  <2>6. HandshakeInv'
    BY <1>1, <2>1, <2>3, <2>5 DEF OrderInv, HandshakeInv
  <2>7. RegistrationInv'
    BY <1>1, <2>1, <2>2, <2>4, <2>5 DEF OrderInv, RegistrationInv, Registering
  <2>8. PushInv'
    BY <1>1, <2>1, <2>5 DEF OrderInv, PushInv
  <2>9. StaleInv'
    BY <1>1, <2>1, <2>4, <2>5 DEF OrderInv, StaleInv
  <2> QED
    BY <2>6, <2>7, <2>8, <2>9 DEF OrderInv
<1>9. CASE OnConfiguration
  <2> DEFINE m == Head(toServer)
  <2>1. /\ Reads("configuration") /\ toClient' = toClient /\ documents' = documents
        /\ promises' = [promises EXCEPT ![m.id] = Received(m)]
        /\ documentSettings' = documentSettings
        /\ hasConfigurationCapability' = hasConfigurationCapability
        /\ globalSettings' = globalSettings
    BY <1>9 DEF OnConfiguration
  <2>2. /\ Announces(toServer', configuration) /\ NoneOutdated(toServer', "configuration", epoch)
        /\ m.epoch # epoch => Sends(toServer', "didChangeConfiguration")
        /\ Sends(toServer, "configuration")
        /\ \A t : t # "configuration" => (Sends(toServer', t) <=> Sends(toServer, t))
        /\ \A t : Sends(toServer', t) => Sends(toServer, t)
        /\ configuration =>
             Registering \/ OnlyAfter(toServer', {"didOpen", "didChange"}, "initialized")
    BY <2>1, ServerReads
  <2>3. configuration /\ registered
    BY <2>2 DEF OrderInv, RegistrationInv, PushInv
  <2>4. Received(m).settings.epoch = m.epoch
    BY DEF Received
  <2>5. ASSUME NEW c \in Docs, CachedSettled(c)',
               promises'[documentSettings'[c]].settings.epoch # epoch
        PROVE  Sends(toServer', "didChangeConfiguration")
    <3>1. documentSettings[c] # NoPromise /\ documentSettings[c] \in DOMAIN promises
      <4>1. documentSettings[c] \in 0 .. Len(promises) /\ DOMAIN promises = 1 .. Len(promises)
            /\ Len(promises) \in Nat
        BY LenProperties DEF SettingsInv, TypeOK
      <4>2. documentSettings[c] # NoPromise
        BY <2>1, <2>5 DEF CachedSettled
      <4> QED
        BY <4>1, <4>2 DEF NoPromise
    <3>2. CASE documentSettings[c] = m.id
      <4>1. promises'[documentSettings'[c]] = Received(m)
        BY <2>1, <3>1, <3>2
      <4> QED
        BY <2>2, <2>4, <2>5, <4>1
    <3>3. CASE documentSettings[c] # m.id
      <4>1. promises'[documentSettings'[c]] = promises[documentSettings[c]]
        BY <2>1, <3>1, <3>3
      <4>2. CachedSettled(c)
        BY <2>1, <2>5, <4>1 DEF CachedSettled, Settled
      <4> QED
        BY <2>2, <2>5, <4>1, <4>2 DEF OrderInv, StaleInv
    <3> QED
      BY <3>2, <3>3
  <2>6. HandshakeInv'
    BY <1>1, <2>1, <2>2 DEF OrderInv, HandshakeInv
  <2>7. RegistrationInv'
    BY <1>1, <2>1, <2>2, <2>3 DEF OrderInv, RegistrationInv, Registering, OpenDocuments
  <2>8. PushInv'
    BY <1>1, <2>3 DEF PushInv
  <2>9. StaleInv'
    BY <1>1, <2>2, <2>5 DEF StaleInv
  <2> QED
    BY <2>6, <2>7, <2>8, <2>9 DEF OrderInv
<1>10. CASE OnDidChangeConfiguration
  <2> DEFINE m == Head(toServer)
  <2>1. /\ Reads("didChangeConfiguration") /\ toClient' = toClient
        /\ documents' = documents /\ promises' = promises
        /\ hasConfigurationCapability' = hasConfigurationCapability
        /\ IF hasConfigurationCapability
           THEN documentSettings' = [c \in Docs |-> NoPromise]
           ELSE globalSettings' = Pushed(m.epoch) /\ documentSettings' = documentSettings
    BY <1>10 DEF OnDidChangeConfiguration
  <2>2. \A c \in Docs : documentSettings'[c] = NoPromise
    BY <2>1 DEF OrderInv, HandshakeInv
  <2>3. \A c \in Docs : ~ CachedSettled(c)'
    BY <2>2 DEF CachedSettled
  <2>4. /\ Announces(toServer', configuration) /\ NoneOutdated(toServer', "configuration", epoch)
        /\ ~ configuration =>
             /\ NoneOutdated(toServer', "didChangeConfiguration", epoch)
             /\ m.epoch # epoch => Sends(toServer', "didChangeConfiguration")
        /\ Sends(toServer, "didChangeConfiguration")
        /\ \A t : t # "didChangeConfiguration" => (Sends(toServer', t) <=> Sends(toServer, t))
        /\ \A t : Sends(toServer', t) => Sends(toServer, t)
        /\ configuration =>
             Registering \/ OnlyAfter(toServer', {"didOpen", "didChange"}, "initialized")
    BY <2>1, ServerReads
  <2>5. Pushed(m.epoch).epoch = m.epoch
    BY DEF Pushed
  <2>6. ~ configuration => connection = "running" /\ globalSettings'.epoch = m.epoch
    BY <2>1, <2>4, <2>5 DEF OrderInv, HandshakeInv, PushInv
  <2>7. HandshakeInv'
    BY <1>1, <2>1, <2>2, <2>4 DEF OrderInv, HandshakeInv
  <2>8. RegistrationInv'
    BY <1>1, <2>1, <2>3, <2>4 DEF OrderInv, RegistrationInv, Registering, OpenDocuments
  <2>9. PushInv'
    BY <1>1, <2>1, <2>4, <2>6 DEF OrderInv, PushInv
  <2>10. StaleInv'
    BY <1>1, <2>3, <2>4 DEF StaleInv
  <2> QED
    BY <2>7, <2>8, <2>9, <2>10 DEF OrderInv
<1>11. ASSUME NEW v \in validating, Resume(v)
       PROVE  OrderInv'
  <2> DEFINE m == Diagnostics(v)
  <2>1. /\ hasConfigurationCapability' = hasConfigurationCapability
        /\ globalSettings' = globalSettings /\ documents' = documents
        /\ documentSettings' = documentSettings /\ promises' = promises
        /\ toServer' = toServer
        /\ toClient' = toClient \/ toClient' = Append(toClient, m)
        /\ m.type = "publishDiagnostics"
    BY <1>11 DEF Resume, Diagnostics
  <2> HIDE DEF m
  <2>2. \A t : t # "publishDiagnostics" => (Sends(toClient', t) <=> Sends(toClient, t))
    <3>1. \A t : Sends(Append(toClient, m), t) <=> Sends(toClient, t) \/ m.type = t
      BY <1>2, SendsSent
    <3> QED
      BY <2>1, <3>1
  <2>3. configuration =>
          registered \/ OnlyAfter(toClient', {"configuration"}, "registerCapability")
    BY <1>2, <2>1, OnlyAfterSent DEF OrderInv, RegistrationInv
  <2>4. Registering' <=> Registering
    BY <1>1, <2>2 DEF Registering
  <2>5. \A c \in Docs : CachedSettled(c)' <=> CachedSettled(c)
    BY <2>1 DEF CachedSettled, Settled
  <2>6. HandshakeInv'
    BY <1>1, <2>1, <2>2 DEF OrderInv, HandshakeInv
  <2>7. RegistrationInv'
    BY <1>1, <2>1, <2>3, <2>4, <2>5 DEF OrderInv, RegistrationInv, OpenDocuments
  <2>8. PushInv'
    BY <1>1, <2>1, <2>2 DEF OrderInv, PushInv
  <2>9. StaleInv'
    BY <1>1, <2>1, <2>5 DEF OrderInv, StaleInv
  <2> QED
    BY <2>6, <2>7, <2>8, <2>9 DEF OrderInv
<1> QED
  BY <1>3, <1>4, <1>5, <1>6, <1>7, <1>8, <1>9, <1>10, <1>11 DEF ServerNext

(***************************************************************************)
(* A step of the client or of the user that sends a message at most, and   *)
(* changes neither the configuration nor what was said of it.              *)
(***************************************************************************)
LEMMA SendKeepsOrder ==
  ASSUME SettingsInv, OrderInv, UNCHANGED serverVars,
         NEW m, Send(m),
         m.type = "initialize" => m.configuration = configuration,
         m.type \in {"configuration", "didChangeConfiguration"} => m.epoch = epoch,
         m.type \in {"didOpen", "didChange"} => connection = "running",
         m.type = "initialized" => connection = "running",
         m.type = "configuration" => configuration /\ registered,
         m.type # "didChangeConfiguration",
         configuration' = configuration, epoch' = epoch, registered' = registered,
         connection' = connection \/ (connection # "running" /\ connection' = "starting"),
         synced' # {} => connection = "running",
         \A t : Sends(toClient', t) => Sends(toClient, t),
         Registering' <=> Registering,
         configuration =>
           registered \/ OnlyAfter(toClient', {"configuration"}, "registerCapability")
  PROVE  OrderInv'
<1>1. /\ \A t : Sends(toServer', t) <=> Sends(toServer, t) \/ m.type = t
      /\ Announces(toServer', configuration) /\ NoneOutdated(toServer', "configuration", epoch)
      /\ ~ configuration => NoneOutdated(toServer', "didChangeConfiguration", epoch)
      /\ configuration =>
           Registering \/ OnlyAfter(toServer', {"didOpen", "didChange"}, "initialized")
  BY ServerIsSent
<1>2. /\ hasConfigurationCapability' = hasConfigurationCapability
      /\ globalSettings' = globalSettings /\ documents' = documents
      /\ documentSettings' = documentSettings /\ promises' = promises
  BY DEF serverVars
<1>3. \A c \in Docs : CachedSettled(c)' <=> CachedSettled(c)
  BY <1>2 DEF CachedSettled, Settled
<1>4. HandshakeInv'
  BY <1>1, <1>2 DEF OrderInv, HandshakeInv
<1>5. RegistrationInv'
  BY <1>1, <1>2, <1>3 DEF OrderInv, RegistrationInv, OpenDocuments
<1>6. PushInv'
  BY <1>1, <1>2 DEF OrderInv, PushInv
<1>7. StaleInv'
  BY <1>1, <1>2, <1>3 DEF OrderInv, StaleInv
<1> QED
  BY <1>4, <1>5, <1>6, <1>7 DEF OrderInv

(***************************************************************************)
(* A step of the client that takes a message at most.                      *)
(***************************************************************************)
LEMMA TakeKeepsOrder ==
  ASSUME SettingsInv, OrderInv, UNCHANGED serverVars, toServer' = toServer,
         configuration' = configuration, epoch' = epoch, connection' = connection,
         registered => registered', Registering => Registering',
         synced' # {} => connection = "running",
         \A t : Sends(toClient', t) => Sends(toClient, t),
         configuration =>
           registered' \/ OnlyAfter(toClient', {"configuration"}, "registerCapability")
  PROVE  OrderInv'
<1>1. /\ hasConfigurationCapability' = hasConfigurationCapability
      /\ globalSettings' = globalSettings /\ documents' = documents
      /\ documentSettings' = documentSettings /\ promises' = promises
  BY DEF serverVars
<1>2. \A c \in Docs : CachedSettled(c)' <=> CachedSettled(c)
  BY <1>1 DEF CachedSettled, Settled
<1>3. HandshakeInv'
  BY <1>1 DEF OrderInv, HandshakeInv
<1>4. RegistrationInv'
  BY <1>1, <1>2 DEF OrderInv, RegistrationInv, OpenDocuments
<1>5. PushInv'
  BY <1>1 DEF OrderInv, PushInv
<1>6. StaleInv'
  BY <1>1, <1>2 DEF OrderInv, StaleInv
<1> QED
  BY <1>3, <1>4, <1>5, <1>6 DEF OrderInv

LEMMA ClientKeepsOrder ==
  ASSUME SettingsInv, OrderInv, ClientNext, UNCHANGED serverVars
  PROVE  OrderInv'
<1>1. CASE Activate
  <2> DEFINE m == [type |-> "initialize", configuration |-> configuration]
  <2>1. /\ Send(m) /\ m.type = "initialize" /\ m.configuration = configuration
        /\ connection = "inactive" /\ connection' = "starting"
        /\ configuration' = configuration /\ epoch' = epoch /\ registered' = registered
        /\ synced' = synced /\ toClient' = toClient
    BY <1>1 DEF Activate
  <2> HIDE DEF m
  <2>2. /\ synced # {} => connection = "running"
        /\ configuration =>
             registered \/ OnlyAfter(toClient, {"configuration"}, "registerCapability")
    BY DEF OrderInv, HandshakeInv, RegistrationInv
  <2>3. Registering' <=> Registering
    BY <2>1 DEF Registering
  <2> QED
    BY <2>1, <2>2, <2>3, SendKeepsOrder
<1>2. CASE OnRegisterCapability
  <2>1. /\ Takes("registerCapability") /\ registered' = TRUE /\ toServer' = toServer
        /\ configuration' = configuration /\ epoch' = epoch /\ connection' = connection
        /\ synced' = synced
    BY <1>2 DEF OnRegisterCapability
  <2>2. \A t : Sends(toClient', t) => Sends(toClient, t)
    BY <2>1, ClientTakes
  <2>3. synced # {} => connection = "running"
    BY DEF OrderInv, HandshakeInv
  <2>4. Registering'
    BY <2>1 DEF Registering
  <2> QED
    BY <2>1, <2>2, <2>3, <2>4, TakeKeepsOrder
<1>3. CASE OnPublishDiagnostics
  <2>1. /\ Takes("publishDiagnostics") /\ registered' = registered /\ toServer' = toServer
        /\ configuration' = configuration /\ epoch' = epoch /\ connection' = connection
        /\ synced' = synced
    BY <1>3 DEF OnPublishDiagnostics
  <2>2. /\ \A t : Sends(toClient', t) => Sends(toClient, t)
        /\ Sends(toClient, "registerCapability") => Sends(toClient', "registerCapability")
        /\ configuration =>
             registered \/ OnlyAfter(toClient', {"configuration"}, "registerCapability")
    BY <2>1, ClientTakes
  <2>3. synced # {} => connection = "running"
    BY DEF OrderInv, HandshakeInv
  <2>4. Registering => Registering'
    BY <2>1, <2>2 DEF Registering
  <2> QED
    BY <2>1, <2>2, <2>3, <2>4, TakeKeepsOrder
<1>4. CASE OnConfigurationRequest
  <2>1. PICK outcome \in Answers :
          Send([type |-> "configuration", id |-> Head(toClient).id,
                outcome |-> outcome, epoch |-> epoch])
    BY <1>4 DEF OnConfigurationRequest
  <2> DEFINE m == [type |-> "configuration", id |-> Head(toClient).id,
                   outcome |-> outcome, epoch |-> epoch]
  <2>2. Send(m) /\ m.type = "configuration" /\ m.epoch = epoch
    BY <2>1
  <2> HIDE DEF m
  <2>3. /\ Takes("configuration")
        /\ configuration' = configuration /\ epoch' = epoch /\ connection' = connection
        /\ registered' = registered /\ synced' = synced
    BY <1>4 DEF OnConfigurationRequest, clientVars
  <2>4. /\ Sends(toClient, "configuration")
        /\ \A t : Sends(toClient', t) => Sends(toClient, t)
        /\ Sends(toClient, "registerCapability") => Sends(toClient', "registerCapability")
        /\ configuration => registered
    BY <2>3, ClientTakes
  <2>5. configuration /\ registered /\ (synced # {} => connection = "running")
    BY <2>4 DEF OrderInv, HandshakeInv, PushInv
  <2>6. Registering' <=> Registering
    BY <2>3, <2>5 DEF Registering
  <2> QED
    BY <2>2, <2>3, <2>4, <2>5, <2>6, SendKeepsOrder
<1>5. ASSUME NEW d \in Docs, SyncOpen(d)
      PROVE  OrderInv'
  <2> DEFINE m == [type |-> "didOpen", doc |-> d, version |-> version[d]]
  <2>1. /\ Send(m) /\ m.type = "didOpen" /\ connection = "running"
        /\ connection' = connection /\ toClient' = toClient
        /\ configuration' = configuration /\ epoch' = epoch /\ registered' = registered
    BY <1>5 DEF SyncOpen
  <2> HIDE DEF m
  <2>2. configuration =>
          registered \/ OnlyAfter(toClient, {"configuration"}, "registerCapability")
    BY DEF OrderInv, RegistrationInv
  <2>3. Registering' <=> Registering
    BY <2>1 DEF Registering
  <2> QED
    BY <2>1, <2>2, <2>3, SendKeepsOrder
<1>6. CASE OnInitializeResult
  <2> DEFINE started == [type |-> "initialized"]
  <2> DEFINE pushed == [type |-> "didChangeConfiguration", epoch |-> epoch]
  <2>1. PICK q \in Seq(ToServerMessage) :
          /\ q = Append(toServer, started)
          /\ toServer' = IF configuration THEN q ELSE Append(q, pushed)
    BY <1>6, GreetingSent
  <2>2. /\ started.type = "initialized" /\ pushed.type = "didChangeConfiguration"
        /\ pushed.epoch = epoch
    OBVIOUS
  <2> HIDE DEF started, pushed
  <2>3. /\ Takes("initializeResult") /\ connection' = "running"
        /\ configuration' = configuration /\ epoch' = epoch
        /\ registered' = registered /\ synced' = synced
    BY <1>6 DEF OnInitializeResult
  <2>4. /\ hasConfigurationCapability' = hasConfigurationCapability
        /\ globalSettings' = globalSettings /\ documents' = documents
        /\ documentSettings' = documentSettings /\ promises' = promises
    BY DEF serverVars
  <2>5. \A c \in Docs : CachedSettled(c)' <=> CachedSettled(c)
    BY <2>4 DEF CachedSettled, Settled
  <2>6. /\ \A t : Sends(toClient', t) => Sends(toClient, t)
        /\ Sends(toClient, "initializeResult")
        /\ Sends(toClient, "registerCapability") => Sends(toClient', "registerCapability")
        /\ configuration =>
             registered \/ OnlyAfter(toClient', {"configuration"}, "registerCapability")
    BY <2>3, ClientTakes
  <2>7. hasConfigurationCapability = configuration
    BY <2>6 DEF OrderInv, HandshakeInv
  <2>8. toServer \in Seq(ToServerMessage)
    BY DEF SettingsInv, TypeOK
  <2>9. /\ \A t : Sends(q, t) <=> Sends(toServer, t) \/ t = "initialized"
        /\ Announces(q, configuration) /\ NoneOutdated(q, "configuration", epoch)
        /\ ~ configuration => NoneOutdated(q, "didChangeConfiguration", epoch)
        /\ configuration =>
             Registering \/ OnlyAfter(q, {"didOpen", "didChange"}, "initialized")
    <3>1. \A t : Sends(q, t) <=> Sends(toServer, t) \/ t = "initialized"
      BY <2>1, <2>2, <2>8, SendsSent
    <3>2. Announces(q, configuration)
      BY <2>1, <2>2, <2>8, AnnouncesSent DEF OrderInv, HandshakeInv
    <3>3. NoneOutdated(q, "configuration", epoch)
      BY <2>1, <2>2, <2>8, NoneOutdatedSent DEF OrderInv, StaleInv
    <3>4. ~ configuration => NoneOutdated(q, "didChangeConfiguration", epoch)
      BY <2>1, <2>2, <2>8, NoneOutdatedSent DEF OrderInv, PushInv
    <3>5. configuration =>
            Registering \/ OnlyAfter(q, {"didOpen", "didChange"}, "initialized")
      BY <2>1, <2>2, <2>8, OnlyAfterSent DEF OrderInv, RegistrationInv
    <3> QED
      BY <3>1, <3>2, <3>3, <3>4, <3>5
  <2>10. Registering => Registering'
    BY <2>3, <2>6 DEF Registering
  <2>11. CASE configuration
    <3>1. toServer' = q
      BY <2>1, <2>11
    <3>2. HandshakeInv'
      BY <2>3, <2>4, <2>6, <2>7, <2>9, <3>1 DEF OrderInv, HandshakeInv
    <3>3. RegistrationInv'
      BY <2>3, <2>4, <2>5, <2>6, <2>9, <2>10, <3>1 DEF OrderInv, RegistrationInv, OpenDocuments
    <3>4. PushInv'
      BY <2>3, <2>11 DEF PushInv
    <3>5. StaleInv'
      BY <2>3, <2>4, <2>5, <2>9, <3>1 DEF OrderInv, StaleInv
    <3> QED
      BY <3>2, <3>3, <3>4, <3>5 DEF OrderInv
  <2>12. CASE ~ configuration
    <3>1. toServer' = Append(q, pushed)
      BY <2>1, <2>12
    <3>2. /\ \A t : Sends(toServer', t) <=> Sends(q, t) \/ t = "didChangeConfiguration"
          /\ Announces(toServer', configuration)
          /\ NoneOutdated(toServer', "configuration", epoch)
          /\ NoneOutdated(toServer', "didChangeConfiguration", epoch)
      <4>1. \A t : Sends(toServer', t) <=> Sends(q, t) \/ t = "didChangeConfiguration"
        BY <2>2, <3>1, SendsSent
      <4>2. Announces(toServer', configuration)
        BY <2>2, <2>9, <3>1, AnnouncesSent
      <4>3. NoneOutdated(toServer', "configuration", epoch)
        BY <2>2, <2>9, <3>1, NoneOutdatedSent
      <4>4. NoneOutdated(toServer', "didChangeConfiguration", epoch)
        BY <2>2, <3>1, NoneOutdatedSent
      <4> QED
        BY <4>1, <4>2, <4>3, <4>4
    <3>3. HandshakeInv'
      BY <2>3, <2>4, <2>6, <2>7, <2>9, <3>2 DEF OrderInv, HandshakeInv
    <3>4. RegistrationInv'
      BY <2>3, <2>12 DEF RegistrationInv
    <3>5. PushInv'
      BY <2>3, <2>6, <2>9, <3>2 DEF OrderInv, PushInv
    <3>6. StaleInv'
      BY <2>3, <3>2 DEF StaleInv
    <3> QED
      BY <3>3, <3>4, <3>5, <3>6 DEF OrderInv
  <2> QED
    BY <2>11, <2>12
<1> QED
  BY <1>1, <1>2, <1>3, <1>4, <1>5, <1>6 DEF ClientNext

(***************************************************************************)
(* A change of the configuration is told to a server that may hold         *)
(* settings; there are none to become outdated at any other.               *)
(***************************************************************************)
LEMMA ConfigureKeepsOrder ==
  ASSUME SettingsInv, OrderInv, UserConfigure, UNCHANGED serverVars
  PROVE  OrderInv'
<1> DEFINE m == [type |-> "didChangeConfiguration", epoch |-> epoch + 1]
<1>1. /\ epoch' = epoch + 1 /\ configuration' = configuration /\ connection' = connection
      /\ registered' = registered /\ synced' = synced /\ toClient' = toClient
      /\ IF Notified THEN Send(m) ELSE toServer' = toServer
  BY DEF UserConfigure, UserActs
<1>2. m.type = "didChangeConfiguration" /\ m.epoch = epoch'
  BY <1>1
<1> HIDE DEF m
<1>3. /\ hasConfigurationCapability' = hasConfigurationCapability
      /\ globalSettings' = globalSettings /\ documents' = documents
      /\ documentSettings' = documentSettings /\ promises' = promises
  BY DEF serverVars
<1>4. \A c \in Docs : CachedSettled(c)' <=> CachedSettled(c)
  BY <1>3 DEF CachedSettled, Settled
<1>5. Registering' <=> Registering
  BY <1>1 DEF Registering
<1>6. CASE Notified
  <2>1. toServer \in Seq(ToServerMessage) /\ toServer' = Append(toServer, m)
    BY <1>1, <1>6 DEF SettingsInv, TypeOK, Send
  <2>2. \A t : Sends(toServer', t) <=> Sends(toServer, t) \/ t = "didChangeConfiguration"
    BY <1>2, <2>1, SendsSent
  <2>3. Announces(toServer', configuration)
    BY <1>2, <2>1, AnnouncesSent DEF OrderInv, HandshakeInv
  <2>4. NoneOutdated(toServer', "configuration", epoch')
    BY <1>2, <2>1, NoneOutdatedSent
  <2>5. NoneOutdated(toServer', "didChangeConfiguration", epoch')
    BY <1>2, <2>1, NoneOutdatedSent
  <2>6. configuration =>
          Registering \/ OnlyAfter(toServer', {"didOpen", "didChange"}, "initialized")
    BY <1>2, <2>1, OnlyAfterSent DEF OrderInv, RegistrationInv
  <2>7. ~ configuration => connection = "running"
    BY <1>6 DEF Notified
  <2>8. HandshakeInv'
    BY <1>1, <1>3, <2>2, <2>3 DEF OrderInv, HandshakeInv
  <2>9. RegistrationInv'
    BY <1>1, <1>3, <1>4, <1>5, <2>2, <2>6 DEF OrderInv, RegistrationInv, OpenDocuments
  <2>10. PushInv'
    BY <1>1, <1>3, <2>2, <2>5, <2>7 DEF OrderInv, PushInv
  <2>11. StaleInv'
    BY <2>2, <2>4 DEF StaleInv
  <2> QED
    BY <2>8, <2>9, <2>10, <2>11 DEF OrderInv
<1>7. CASE ~ Notified
  <2>1. toServer' = toServer
    BY <1>1, <1>7
  <2>2. IF configuration THEN ~ registered ELSE connection # "running"
    BY <1>7 DEF Notified
  <2>3. /\ ~ Sends(toServer, "configuration")
        /\ ~ configuration => ~ Sends(toServer, "didChangeConfiguration")
        /\ \A c \in Docs : ~ CachedSettled(c)
    BY <2>2 DEF OrderInv, HandshakeInv, RegistrationInv, PushInv, CachedSettled
  <2>4. NoneOutdated(toServer', "configuration", epoch')
    BY <2>1, <2>3, NotSentNoneOutdated
  <2>5. ~ configuration => NoneOutdated(toServer', "didChangeConfiguration", epoch')
    BY <2>1, <2>3, NotSentNoneOutdated
  <2>6. HandshakeInv'
    BY <1>1, <1>3, <2>1 DEF OrderInv, HandshakeInv
  <2>7. RegistrationInv'
    BY <1>1, <1>3, <1>4, <1>5, <2>1 DEF OrderInv, RegistrationInv, OpenDocuments
  <2>8. PushInv'
    BY <1>1, <1>3, <2>1, <2>2, <2>5 DEF OrderInv, PushInv
  <2>9. StaleInv'
    BY <1>4, <2>3, <2>4 DEF StaleInv
  <2> QED
    BY <2>6, <2>7, <2>8, <2>9 DEF OrderInv
<1> QED
  BY <1>6, <1>7

LEMMA UserKeepsOrder ==
  ASSUME SettingsInv, OrderInv, UserNext, UNCHANGED serverVars
  PROVE  OrderInv'
<1>1. /\ synced # {} => connection = "running"
      /\ configuration =>
           registered \/ OnlyAfter(toClient, {"configuration"}, "registerCapability")
  BY DEF OrderInv, HandshakeInv, RegistrationInv
<1>2. ASSUME UserActs
      PROVE  /\ connection' = connection /\ configuration' = configuration
             /\ registered' = registered /\ toClient' = toClient
             /\ Registering' <=> Registering
  BY <1>2 DEF UserActs, Registering
<1>3. ASSUME UserActs, epoch' = epoch, synced' \subseteq synced, toServer' = toServer
      PROVE  OrderInv'
  <2>1. synced' # {} => connection = "running"
    BY <1>1, <1>3
  <2> QED
    BY <1>1, <1>2, <1>3, <2>1, TakeKeepsOrder
<1>4. ASSUME UserActs, epoch' = epoch, synced' \subseteq synced,
             NEW m, m.type \in {"didChange", "didClose"}, Send(m), synced # {}
      PROVE  OrderInv'
  <2>1. connection = "running"
    BY <1>1, <1>4
  <2> QED
    BY <1>1, <1>2, <1>4, <2>1, SendKeepsOrder
<1>5. ASSUME NEW d \in Docs, UserOpen(d)
      PROVE  OrderInv'
  BY <1>3, <1>5 DEF UserOpen
<1>6. ASSUME NEW d \in Docs, UserEdit(d)
      PROVE  OrderInv'
  <2> DEFINE m == [type |-> "didChange", doc |-> d, version |-> version[d] + 1]
  <2>1. /\ UserActs /\ epoch' = epoch /\ synced' = synced /\ m.type = "didChange"
        /\ IF d \in synced THEN Send(m) ELSE toServer' = toServer
    BY <1>6 DEF UserEdit
  <2> HIDE DEF m
  <2> QED
    BY <1>3, <1>4, <2>1
<1>7. ASSUME NEW d \in Docs, UserClose(d)
      PROVE  OrderInv'
  <2> DEFINE m == [type |-> "didClose", doc |-> d]
  <2>1. /\ UserActs /\ epoch' = epoch /\ synced' = synced \ {d} /\ m.type = "didClose"
        /\ IF d \in synced THEN Send(m) ELSE toServer' = toServer
    BY <1>7 DEF UserClose
  <2> HIDE DEF m
  <2> QED
    BY <1>3, <1>4, <2>1
<1> QED
  BY <1>5, <1>6, <1>7, ConfigureKeepsOrder DEF UserNext

(***************************************************************************)
(* The handshake, the registration and what is told of changes keep their  *)
(* order (server.ts:31-130).                                               *)
(***************************************************************************)
THEOREM OrderInvariant == Spec => []OrderInv
<1>1. Init => OrderInv
  <2> SUFFICES ASSUME Init PROVE OrderInv
    OBVIOUS
  <2>1. /\ toServer = << >> /\ toClient = << >> /\ synced = {}
        /\ hasConfigurationCapability = FALSE /\ connection = "inactive"
        /\ OpenDocuments = {} /\ \A d \in Docs : documentSettings[d] = NoPromise
    BY DEF Init, ClientInit, ServerInit, OpenDocuments
  <2>2. /\ \A t : ~ Sends(<< >>, t)
        /\ \A c : Announces(<< >>, c)
        /\ \A t, e : NoneOutdated(<< >>, t, e)
        /\ \A s, t : OnlyAfter(<< >>, s, t)
    BY DEF Sends, Announces, NoneOutdated, OnlyAfter
  <2>3. HandshakeInv
    BY <2>1, <2>2 DEF HandshakeInv
  <2>4. RegistrationInv
    BY <2>1, <2>2 DEF RegistrationInv, CachedSettled
  <2>5. PushInv
    BY <2>1, <2>2 DEF PushInv
  <2>6. StaleInv
    BY <2>1, <2>2 DEF StaleInv, CachedSettled
  <2> QED
    BY <2>3, <2>4, <2>5, <2>6 DEF OrderInv
<1>2. SettingsInv /\ OrderInv /\ [Next]_vars => OrderInv'
  <2> SUFFICES ASSUME SettingsInv, OrderInv, [Next]_vars PROVE OrderInv'
    OBVIOUS
  <2>1. CASE UNCHANGED vars
    BY <2>1 DEF vars, channels, clientVars, serverVars, OrderInv, HandshakeInv,
       RegistrationInv, PushInv, StaleInv, Registering, CachedSettled, Settled, OpenDocuments
  <2>2. CASE ServerStep
    BY <2>2, ServerKeepsOrder DEF ServerStep
  <2>3. CASE ClientStep
    BY <2>3, ClientKeepsOrder DEF ClientStep
  <2>4. CASE UserStep
    BY <2>4, UserKeepsOrder DEF UserStep
  <2> QED
    BY <2>1, <2>2, <2>3, <2>4 DEF Next
<1> QED
  BY <1>1, <1>2, SettingsInvariant, PTL DEF Spec

(***************************************************************************)
(* No stale setting stays (server.ts:72-76, 89-130): settings the server   *)
(* would use although they are not the user's any more are about to be     *)
(* dropped.                                                                *)
(***************************************************************************)
THEOREM NoStaleSettingsLast == Spec => []NoLastingStaleSettings
<1>1. OrderInv => NoLastingStaleSettings
  <2> SUFFICES ASSUME OrderInv PROVE NoLastingStaleSettings
    OBVIOUS
  <2>1. ChangeOnItsWay <=> Sends(toServer, "didChangeConfiguration")
    BY DEF ChangeOnItsWay, Sends
  <2> QED
    BY <2>1 DEF OrderInv, PushInv, StaleInv, CachedSettled, Settled, NoLastingStaleSettings
<1> QED
  BY <1>1, OrderInvariant, PTL

-----------------------------------------------------------------------------
(***************************************************************************)
(* A session shows diagnostics as its contract says they may change, for   *)
(* every set of documents and every number of user operations: texts and   *)
(* configurations reach the display in the order they came to be.          *)
(***************************************************************************)

(***************************************************************************)
(* The messages in a channel, whatever their order, and what they bring.   *)
(***************************************************************************)
Contents(q) == {q[i] : i \in DOMAIN q}

ShowsDiagnostics(m) == m.type = "publishDiagnostics"
AboutSettings(m) == m.type = "configuration"
BringsText(m) == m.type \in {"didOpen", "didChange"}
Dated(m) == m.type \in {"configuration", "didChangeConfiguration"}

(***************************************************************************)
(* The order of two messages to the client, and of two to the server.      *)
(***************************************************************************)
ClientOrder(m, n) ==
  /\ ShowsDiagnostics(m) /\ ShowsDiagnostics(n) /\ m.doc = n.doc
       => m.version <= n.version /\ m.epoch <= n.epoch
  /\ AboutSettings(m) /\ AboutSettings(n) => m.id < n.id

ServerOrder(m, n) ==
  /\ BringsText(m) /\ BringsText(n) /\ m.doc = n.doc => m.version <= n.version
  /\ AboutSettings(m) /\ AboutSettings(n) => m.id < n.id
  /\ Dated(m) /\ Dated(n) => m.epoch <= n.epoch

InClientOrder(q) == \A i, j \in DOMAIN q : i < j => ClientOrder(q[i], q[j])
InServerOrder(q) == \A i, j \in DOMAIN q : i < j => ServerOrder(q[i], q[j])

-----------------------------------------------------------------------------
(***************************************************************************)
(* The versions of d, and the configurations, that are shown or on their   *)
(* way to the display, and with them the versions about to be validated.   *)
(***************************************************************************)
ShownTexts(d) ==
       {Contract!FirstVersion(d)}
  \cup {m.version : m \in {x \in Contents(toClient) : ShowsDiagnostics(x) /\ x.doc = d}}

Texts(d) == ShownTexts(d) \cup {TextOf(v) : v \in {x \in validating : x.doc = d}}

ShownEpochs(d) ==
       {Contract!FirstEpoch(d)}
  \cup {m.epoch : m \in {x \in Contents(toClient) : ShowsDiagnostics(x) /\ x.doc = d}}

EpochOf(p) == promises[p].settings.epoch

(***************************************************************************)
(* Diagnostics on their way to the display come after those shown, and are *)
(* those of their text and configuration.                                  *)
(***************************************************************************)
PublishedInv ==
  /\ InClientOrder(toClient)
  /\ \A m \in Contents(toClient) : ShowsDiagnostics(m) =>
       /\ Contract!FirstVersion(m.doc) <= m.version
       /\ Contract!FirstEpoch(m.doc) <= m.epoch
       /\ m.count = Lesser(Words[m.version], LimitAt(m.epoch))

(***************************************************************************)
(* Texts reach the server in order, and none is ahead of the next.         *)
(***************************************************************************)
TextInv ==
  /\ \A d \in Docs :
       /\ \A n \in Texts(d) : n <= version[d]
       /\ documents[d] # Closed => documents[d] <= version[d]
       /\ documents[d] # Closed => \A n \in Texts(d) : n <= documents[d]
  /\ \A m \in Contents(toServer) : BringsText(m) =>
       /\ m.version <= version[m.doc]
       /\ \A n \in Texts(m.doc) : n <= m.version
       /\ documents[m.doc] # Closed => documents[m.doc] <= m.version

(***************************************************************************)
(* A run reads no text older than one shown, and runs suspended on later   *)
(* promises read later texts.  Without the capability no run stays         *)
(* suspended; with it those of a document that can go on wait for one      *)
(* promise.                                                                *)
(***************************************************************************)
RunsInv ==
  /\ \A v \in validating : \A n \in ShownTexts(v.doc) : n <= TextOf(v)
  /\ \A v, w \in validating : v.doc = w.doc =>
       /\ v.text = Live /\ w.text # Live => w.awaits < v.awaits
       /\ v.text # Live /\ w.text # Live /\ v.awaits <= w.awaits => v.text <= w.text
  /\ \A v \in validating : documentSettings[v.doc] # NoPromise =>
       /\ v.awaits <= documentSettings[v.doc]
       /\ v.awaits = documentSettings[v.doc] => v.text = Live
  /\ ~ configuration => \A v \in validating :
       v.text = Live /\ Settled(v.awaits) /\ EpochOf(v.awaits) = globalSettings.epoch
  /\ configuration =>
       /\ \A v, w \in validating :
            Settled(v.awaits) /\ Settled(w.awaits) /\ v.doc = w.doc => v.awaits = w.awaits
       /\ revalidate # {} => \A v \in validating : ~ Settled(v.awaits)
       /\ \A d \in revalidate : documentSettings[d] = NoPromise

(***************************************************************************)
(* Promises are settled in the order they were made, from configurations   *)
(* that do not go back.                                                    *)
(***************************************************************************)
PromiseInv ==
  /\ \A m \in Contents(toClient) : AboutSettings(m) => m.id \in 1 .. Len(promises)
  /\ \A m \in Contents(toServer) : AboutSettings(m) => m.id \in 1 .. Len(promises)
  /\ \A m \in Contents(toServer), n \in Contents(toClient) :
       AboutSettings(m) /\ AboutSettings(n) => m.id < n.id
  /\ configuration => \A p \in 1 .. Len(promises) : Settled(p) =>
       /\ EpochOf(p) <= epoch
       /\ \A m \in Contents(toServer) : Dated(m) => EpochOf(p) <= m.epoch
       /\ \A m \in Contents(toServer) : AboutSettings(m) => p < m.id
       /\ \A m \in Contents(toClient) : AboutSettings(m) => p < m.id
       /\ \A q \in 1 .. Len(promises) : Settled(q) /\ p <= q => EpochOf(p) <= EpochOf(q)

(***************************************************************************)
(* No setting the server uses, or will read of, is older than one shown.   *)
(***************************************************************************)
EpochInv ==
  /\ InServerOrder(toServer)
  /\ \A d \in Docs : \A e \in ShownEpochs(d) :
       /\ e <= epoch
       /\ CachedSettled(d) => e <= EpochOf(documentSettings[d])
       /\ ~ configuration => e <= globalSettings.epoch
       /\ \A m \in Contents(toServer) : Dated(m) => e <= m.epoch
       /\ \A v \in validating : v.doc = d /\ Settled(v.awaits) => e <= EpochOf(v.awaits)
  /\ \A m \in Contents(toServer) : Dated(m) => m.epoch <= epoch
  /\ ~ configuration =>
       /\ globalSettings.epoch <= epoch
       /\ \A m \in Contents(toServer) : Dated(m) => globalSettings.epoch <= m.epoch

(***************************************************************************)
(* The limits the server uses are those of the configuration they name.    *)
(***************************************************************************)
GlobalRight == globalSettings.max = LimitAt(globalSettings.epoch)

LimitInv ==
  /\ \A p \in 1 .. Len(promises) :
       promises[p].state = "value" => promises[p].settings.max = LimitAt(EpochOf(p))
  /\ OpenDocuments # {} => connection = "running"
  /\ \A m \in Contents(toServer) : BringsText(m) => connection = "running"
  /\ ~ configuration =>
       /\ OpenDocuments # {} => GlobalRight
       /\ GlobalRight \/ OnlyAfter(toServer, {"didOpen", "didChange"}, "didChangeConfiguration")
       /\ connection = "running" => GlobalRight \/ Sends(toServer, "didChangeConfiguration")

ContractInv == PublishedInv /\ TextInv /\ RunsInv /\ PromiseInv /\ EpochInv /\ LimitInv

-----------------------------------------------------------------------------
(***************************************************************************)
(* Sending a message, and reading one.                                     *)
(***************************************************************************)
LEMMA ContentsSent ==
  ASSUME NEW S, NEW q \in Seq(S), NEW m
  PROVE  Contents(Append(q, m)) = Contents(q) \cup {m}
<1> DEFINE r == Append(q, m)
<1>1. /\ Len(q) \in Nat /\ DOMAIN q = 1 .. Len(q) /\ DOMAIN r = 1 .. Len(q) + 1
      /\ r[Len(q) + 1] = m /\ \A i \in 1 .. Len(q) : r[i] = q[i]
  BY SentFacts
<1> HIDE DEF r
<1>2. ASSUME NEW x \in Contents(r)
      PROVE  x \in Contents(q) \cup {m}
  <2>1. PICK i \in 1 .. Len(q) + 1 : r[i] = x
    BY <1>1 DEF Contents
  <2>2. i = Len(q) + 1 \/ i \in 1 .. Len(q)
    BY <1>1
  <2> QED
    BY <1>1, <2>1, <2>2 DEF Contents
<1>3. ASSUME NEW x \in Contents(q)
      PROVE  x \in Contents(r)
  <2>1. PICK i \in 1 .. Len(q) : q[i] = x
    BY <1>1 DEF Contents
  <2>2. i \in DOMAIN r /\ r[i] = x
    BY <1>1, <2>1
  <2> QED
    BY <2>2 DEF Contents
<1>4. m \in Contents(r)
  <2>1. Len(q) + 1 \in DOMAIN r
    BY <1>1
  <2> QED
    BY <1>1, <2>1 DEF Contents
<1> QED
  BY <1>2, <1>3, <1>4 DEF r

LEMMA ContentsRead ==
  ASSUME NEW S, NEW q \in Seq(S), q # << >>
  PROVE  Contents(q) = {Head(q)} \cup Contents(Tail(q))
<1> DEFINE r == Tail(q)
<1>1. /\ Len(q) \in Nat \ {0} /\ DOMAIN q = 1 .. Len(q) /\ Head(q) = q[1]
      /\ DOMAIN r = 1 .. Len(q) - 1 /\ \A i \in 1 .. Len(q) - 1 : r[i] = q[i + 1]
  BY ReadFacts
<1> HIDE DEF r
<1>2. Head(q) \in Contents(q)
  <2>1. 1 \in DOMAIN q
    BY <1>1
  <2> QED
    BY <1>1, <2>1 DEF Contents
<1>3. ASSUME NEW x \in Contents(r)
      PROVE  x \in Contents(q)
  <2>1. PICK i \in 1 .. Len(q) - 1 : r[i] = x
    BY <1>1 DEF Contents
  <2>2. i + 1 \in DOMAIN q /\ q[i + 1] = x
    BY <1>1, <2>1
  <2> QED
    BY <2>2 DEF Contents
<1>4. ASSUME NEW x \in Contents(q), x # Head(q)
      PROVE  x \in Contents(r)
  <2>1. PICK i \in 1 .. Len(q) : q[i] = x
    BY <1>1 DEF Contents
  <2>2. i # 1
    BY <1>1, <1>4, <2>1
  <2>3. i - 1 \in DOMAIN r /\ r[i - 1] = x
    BY <1>1, <2>1, <2>2
  <2> QED
    BY <2>3 DEF Contents
<1> QED
  BY <1>2, <1>3, <1>4 DEF r

LEMMA ClientOrderSent ==
  ASSUME NEW S, NEW q \in Seq(S), NEW m, InClientOrder(q),
         \A x \in Contents(q) : ClientOrder(x, m)
  PROVE  InClientOrder(Append(q, m))
<1> DEFINE r == Append(q, m)
<1>1. /\ Len(q) \in Nat /\ DOMAIN q = 1 .. Len(q) /\ DOMAIN r = 1 .. Len(q) + 1
      /\ r[Len(q) + 1] = m /\ \A i \in 1 .. Len(q) : r[i] = q[i]
  BY SentFacts
<1> HIDE DEF r
<1>2. ASSUME NEW i \in DOMAIN r, NEW j \in DOMAIN r, i < j
      PROVE  ClientOrder(r[i], r[j])
  <2>1. i \in 1 .. Len(q) /\ r[i] = q[i] /\ q[i] \in Contents(q)
    BY <1>1, <1>2 DEF Contents
  <2>2. CASE j = Len(q) + 1
    BY <1>1, <2>1, <2>2
  <2>3. CASE j \in 1 .. Len(q)
    BY <1>1, <1>2, <2>1, <2>3 DEF InClientOrder
  <2> QED
    BY <1>1, <2>2, <2>3
<1>3. InClientOrder(r)
  BY <1>2 DEF InClientOrder
<1> QED
  BY <1>3 DEF r

LEMMA ClientOrderRead ==
  ASSUME NEW S, NEW q \in Seq(S), q # << >>, InClientOrder(q)
  PROVE  /\ InClientOrder(Tail(q))
         /\ \A x \in Contents(Tail(q)) : ClientOrder(Head(q), x)
<1> DEFINE r == Tail(q)
<1>1. /\ Len(q) \in Nat \ {0} /\ DOMAIN q = 1 .. Len(q) /\ Head(q) = q[1]
      /\ DOMAIN r = 1 .. Len(q) - 1 /\ \A i \in 1 .. Len(q) - 1 : r[i] = q[i + 1]
  BY ReadFacts
<1> HIDE DEF r
<1>2. ASSUME NEW i \in DOMAIN r
      PROVE  i + 1 \in DOMAIN q /\ 1 \in DOMAIN q /\ 1 < i + 1 /\ r[i] = q[i + 1]
  BY <1>1
<1>3. ASSUME NEW i \in DOMAIN r, NEW j \in DOMAIN r, i < j
      PROVE  ClientOrder(r[i], r[j])
  <2>1. i + 1 < j + 1
    BY <1>1, <1>3
  <2> QED
    BY <1>2, <2>1 DEF InClientOrder
<1>4. ASSUME NEW x \in Contents(r)
      PROVE  ClientOrder(Head(q), x)
  <2>1. PICK i \in DOMAIN r : r[i] = x
    BY DEF Contents
  <2> QED
    BY <1>1, <1>2, <2>1 DEF InClientOrder
<1>5. InClientOrder(r)
  BY <1>3 DEF InClientOrder
<1> QED
  BY <1>4, <1>5 DEF r

LEMMA ServerOrderSent ==
  ASSUME NEW S, NEW q \in Seq(S), NEW m, InServerOrder(q),
         \A x \in Contents(q) : ServerOrder(x, m)
  PROVE  InServerOrder(Append(q, m))
<1> DEFINE r == Append(q, m)
<1>1. /\ Len(q) \in Nat /\ DOMAIN q = 1 .. Len(q) /\ DOMAIN r = 1 .. Len(q) + 1
      /\ r[Len(q) + 1] = m /\ \A i \in 1 .. Len(q) : r[i] = q[i]
  BY SentFacts
<1> HIDE DEF r
<1>2. ASSUME NEW i \in DOMAIN r, NEW j \in DOMAIN r, i < j
      PROVE  ServerOrder(r[i], r[j])
  <2>1. i \in 1 .. Len(q) /\ r[i] = q[i] /\ q[i] \in Contents(q)
    BY <1>1, <1>2 DEF Contents
  <2>2. CASE j = Len(q) + 1
    BY <1>1, <2>1, <2>2
  <2>3. CASE j \in 1 .. Len(q)
    BY <1>1, <1>2, <2>1, <2>3 DEF InServerOrder
  <2> QED
    BY <1>1, <2>2, <2>3
<1>3. InServerOrder(r)
  BY <1>2 DEF InServerOrder
<1> QED
  BY <1>3 DEF r

LEMMA ServerOrderRead ==
  ASSUME NEW S, NEW q \in Seq(S), q # << >>, InServerOrder(q)
  PROVE  /\ InServerOrder(Tail(q))
         /\ \A x \in Contents(Tail(q)) : ServerOrder(Head(q), x)
<1> DEFINE r == Tail(q)
<1>1. /\ Len(q) \in Nat \ {0} /\ DOMAIN q = 1 .. Len(q) /\ Head(q) = q[1]
      /\ DOMAIN r = 1 .. Len(q) - 1 /\ \A i \in 1 .. Len(q) - 1 : r[i] = q[i + 1]
  BY ReadFacts
<1> HIDE DEF r
<1>2. ASSUME NEW i \in DOMAIN r
      PROVE  i + 1 \in DOMAIN q /\ 1 \in DOMAIN q /\ 1 < i + 1 /\ r[i] = q[i + 1]
  BY <1>1
<1>3. ASSUME NEW i \in DOMAIN r, NEW j \in DOMAIN r, i < j
      PROVE  ServerOrder(r[i], r[j])
  <2>1. i + 1 < j + 1
    BY <1>1, <1>3
  <2> QED
    BY <1>2, <2>1 DEF InServerOrder
<1>4. ASSUME NEW x \in Contents(r)
      PROVE  ServerOrder(Head(q), x)
  <2>1. PICK i \in DOMAIN r : r[i] = x
    BY DEF Contents
  <2> QED
    BY <1>1, <1>2, <2>1 DEF InServerOrder
<1>5. InServerOrder(r)
  BY <1>3 DEF InServerOrder
<1> QED
  BY <1>4, <1>5 DEF r

-----------------------------------------------------------------------------
(***************************************************************************)
(* What the types of variables and messages say of the numbers above.      *)
(***************************************************************************)
LEMMA ContentsTyped ==
  ASSUME NEW S, NEW q \in Seq(S)
  PROVE  Contents(q) \subseteq S
BY ElementOfSeq, LenProperties DEF Contents

LEMMA NumberFacts ==
  ASSUME SettingsInv
  PROVE  /\ \A d \in Docs :
              /\ Contract!FirstVersion(d) \in Nat /\ Contract!FirstEpoch(d) \in Nat
              /\ version[d] \in Nat /\ documents[d] \in Nat \cup {Closed}
              /\ documentSettings[d] \in 0 .. Len(promises)
         /\ epoch \in Nat /\ globalSettings.epoch \in Nat /\ Len(promises) \in Nat
         /\ \A p \in 1 .. Len(promises) : promises[p] \in Promise /\ EpochOf(p) \in Nat
         /\ Closed \notin Nat /\ Live \notin Nat
<1> USE BoundAssumption, ClosedAssumption DEF SettingsInv, TypeOK
<1>1. Versions \subseteq Nat /\ Epochs \subseteq Nat
  BY DEF Versions, Epochs
<1>2. ASSUME NEW d \in Docs
      PROVE  Contract!FirstVersion(d) \in Nat /\ Contract!FirstEpoch(d) \in Nat
  BY <1>1 DEF Contract!FirstVersion, Contract!FirstEpoch, Display
<1>3. Len(promises) \in Nat
  BY LenProperties
<1>4. ASSUME NEW p \in 1 .. Len(promises)
      PROVE  promises[p] \in Promise /\ EpochOf(p) \in Nat
  <2>1. promises[p] \in Promise
    BY ElementOfSeq
  <2> QED
    BY <1>1, <2>1 DEF EpochOf, Promise, Settings
<1>5. globalSettings.epoch \in Nat
  BY <1>1 DEF Settings
<1> QED
  BY <1>1, <1>2, <1>3, <1>4, <1>5

LEMMA RunFacts ==
  ASSUME SettingsInv, NEW v \in validating
  PROVE  /\ v.doc \in Docs /\ v.awaits \in 1 .. Len(promises) /\ v.awaits \in Nat
         /\ TextOf(v) \in Nat /\ v.text \in Nat \cup {Live}
         /\ v = [doc |-> v.doc, awaits |-> v.awaits, text |-> v.text]
<1> USE BoundAssumption, ClosedAssumption DEF SettingsInv, TypeOK
<1>1. v \in Validation /\ v.awaits \in 1 .. Len(promises)
  OBVIOUS
<1>2. v.doc \in Docs /\ v.text \in Nat \cup {Live} /\ v.awaits \in Nat
  BY <1>1 DEF Validation, Versions
<1>3. v.text = Live => documents[v.doc] \in Nat
  BY <1>2 DEF LiveRunsAreManaged, Versions
<1>4. v = [doc |-> v.doc, awaits |-> v.awaits, text |-> v.text]
  BY <1>1 DEF Validation
<1> QED
  BY <1>1, <1>2, <1>3, <1>4 DEF TextOf

LEMMA ToServerFacts ==
  ASSUME SettingsInv, NEW m \in Contents(toServer)
  PROVE  /\ m \in ToServerMessage
         /\ BringsText(m) => m.doc \in Docs /\ m.version \in Nat
         /\ Dated(m) => m.epoch \in Nat
<1>1. m \in ToServerMessage
  BY ContentsTyped DEF SettingsInv, TypeOK
<1> QED
  BY <1>1, ToServerFields, BoundAssumption DEF BringsText, Dated, Versions, Epochs

LEMMA ToClientFacts ==
  ASSUME SettingsInv, NEW m \in Contents(toClient)
  PROVE  /\ m \in ToClientMessage
         /\ ShowsDiagnostics(m) => m.doc \in Docs /\ m.version \in Nat /\ m.epoch \in Nat
<1>1. m \in ToClientMessage
  BY ContentsTyped DEF SettingsInv, TypeOK
<1> QED
  BY <1>1, ToClientFields, BoundAssumption DEF ShowsDiagnostics, Versions, Epochs

(***************************************************************************)
(* Membership in the sets of versions and configurations of a document.    *)
(***************************************************************************)
LEMMA TextsFacts ==
  ASSUME SettingsInv, NEW d \in Docs
  PROVE  /\ Texts(d) \subseteq Nat /\ ShownEpochs(d) \subseteq Nat
         /\ ShownTexts(d) \subseteq Texts(d)
         /\ Contract!FirstVersion(d) \in ShownTexts(d) /\ Contract!FirstEpoch(d) \in ShownEpochs(d)
         /\ \A m \in Contents(toClient) : ShowsDiagnostics(m) /\ m.doc = d =>
              m.version \in ShownTexts(d) /\ m.epoch \in ShownEpochs(d)
         /\ \A v \in validating : v.doc = d => TextOf(v) \in Texts(d)
BY NumberFacts, RunFacts, ToClientFacts DEF Texts, ShownTexts, ShownEpochs

-----------------------------------------------------------------------------
(***************************************************************************)
(* On the side of the client: versions and configurations only grow, fewer *)
(* of them are shown or to be shown, and what is sent to the server is the *)
(* text and the configuration of now, and the answer to the request taken. *)
(***************************************************************************)
TimePasses ==
  /\ epoch <= epoch' /\ epoch' \in Nat
  /\ \A d \in Docs : version[d] <= version'[d] /\ version'[d] \in Nat

ShownShrinks ==
  /\ Contents(toClient') \subseteq Contents(toClient)
  /\ \A d \in Docs : Texts(d)' \subseteq Texts(d) /\ ShownTexts(d)' \subseteq ShownTexts(d)
  /\ \A d \in Docs : ShownEpochs(d)' \subseteq ShownEpochs(d)

Sendable(m) ==
  /\ BringsText(m) => m.doc \in Docs /\ m.version = version'[m.doc]
  /\ Dated(m) => m.epoch = epoch'
  /\ AboutSettings(m) =>
       \E n \in Contents(toClient) :
         /\ AboutSettings(n) /\ n.id = m.id
         /\ \A x \in Contents(toClient') : ClientOrder(n, x)

MoreIsSendable == \A m \in Contents(toServer') : m \in Contents(toServer) \/ Sendable(m)

(***************************************************************************)
(* The side of the client: what is shown, and on its way to be.            *)
(***************************************************************************)
LEMMA TakenFacts ==
  ASSUME SettingsInv, ContractInv, NEW type, Takes(type)
  PROVE  /\ Head(toClient) \in Contents(toClient) /\ Head(toClient).type = type
         /\ Contents(toClient') \subseteq Contents(toClient)
         /\ InClientOrder(toClient')
         /\ \A x \in Contents(toClient') : ClientOrder(Head(toClient), x)
<1>1. /\ toClient \in Seq(ToClientMessage) /\ toClient # << >>
      /\ Head(toClient).type = type /\ toClient' = Tail(toClient)
  BY DEF SettingsInv, TypeOK, Takes, Receives
<1>2. Contents(toClient) = {Head(toClient)} \cup Contents(toClient')
  BY <1>1, ContentsRead
<1>3. InClientOrder(toClient)
  BY DEF ContractInv, PublishedInv
<1> QED
  BY <1>1, <1>2, <1>3, ClientOrderRead

LEMMA ShownKept ==
  ASSUME SettingsInv, ContractInv, UNCHANGED <<serverVars, displayed>>,
         Contents(toClient') \subseteq Contents(toClient), InClientOrder(toClient')
  PROVE  PublishedInv' /\ ShownShrinks
<1>1. /\ \A d : Contract!FirstVersion(d)' = Contract!FirstVersion(d)
      /\ \A d : Contract!FirstEpoch(d)' = Contract!FirstEpoch(d)
      /\ \A v : TextOf(v)' = TextOf(v)
      /\ validating' = validating
  BY DEF serverVars, Contract!FirstVersion, Contract!FirstEpoch, TextOf
<1>2. ASSUME NEW d \in Docs
      PROVE  /\ Texts(d)' \subseteq Texts(d) /\ ShownTexts(d)' \subseteq ShownTexts(d)
             /\ ShownEpochs(d)' \subseteq ShownEpochs(d)
  BY <1>1 DEF Texts, ShownTexts, ShownEpochs
<1>3. PublishedInv'
  BY <1>1 DEF ContractInv, PublishedInv
<1> QED
  BY <1>2, <1>3 DEF ShownShrinks

LEMMA ShownByPublication ==
  ASSUME SettingsInv, ContractInv, UNCHANGED serverVars, OnPublishDiagnostics
  PROVE  PublishedInv' /\ ShownShrinks
<1>1. /\ Head(toClient) \in Contents(toClient) /\ Head(toClient).type = "publishDiagnostics"
      /\ Contents(toClient') \subseteq Contents(toClient)
      /\ InClientOrder(toClient')
      /\ \A x \in Contents(toClient') : ClientOrder(Head(toClient), x)
  BY TakenFacts DEF OnPublishDiagnostics
<1>2. PICK m \in Contents(toClient) : m = Head(toClient)
  BY <1>1
<1> DEFINE shown == [version |-> m.version, epoch |-> m.epoch, count |-> m.count]
<1>3. /\ ShowsDiagnostics(m) /\ m.doc \in Docs /\ m.version \in Nat /\ m.epoch \in Nat
      /\ \A x \in Contents(toClient') : ClientOrder(m, x)
      /\ displayed' = [displayed EXCEPT ![m.doc] = shown]
  BY <1>1, <1>2, ToClientFacts DEF ShowsDiagnostics, OnPublishDiagnostics
<1>4. /\ \A d \in Docs : d = m.doc =>
           Contract!FirstVersion(d)' = m.version /\ Contract!FirstEpoch(d)' = m.epoch
      /\ \A d \in Docs : d # m.doc =>
           /\ Contract!FirstVersion(d)' = Contract!FirstVersion(d)
           /\ Contract!FirstEpoch(d)' = Contract!FirstEpoch(d)
  <2>1. shown \in Display
    BY <1>2, <1>3, ToClientFacts, ToClientFields DEF ShowsDiagnostics, Display
  <2>2. shown # None /\ shown.version = m.version /\ shown.epoch = m.epoch
    BY <2>1, NoneAssumption
  <2> HIDE DEF shown
  <2>3. /\ DOMAIN displayed = Docs /\ displayed'[m.doc] = shown
        /\ \A d \in Docs : d # m.doc => displayed'[d] = displayed[d]
    BY <1>3 DEF SettingsInv, TypeOK
  <2> QED
    BY <2>2, <2>3 DEF Contract!FirstVersion, Contract!FirstEpoch
<1>5. /\ \A v : TextOf(v)' = TextOf(v)
      /\ validating' = validating
  BY DEF serverVars, TextOf
<1>6. ASSUME NEW d \in Docs
      PROVE  /\ Texts(d)' \subseteq Texts(d) /\ ShownTexts(d)' \subseteq ShownTexts(d)
             /\ ShownEpochs(d)' \subseteq ShownEpochs(d)
  <2>1. /\ Contract!FirstVersion(d)' \in {Contract!FirstVersion(d)}
               \cup {x.version : x \in {y \in Contents(toClient) : ShowsDiagnostics(y) /\ y.doc = d}}
        /\ Contract!FirstEpoch(d)' \in {Contract!FirstEpoch(d)}
               \cup {x.epoch : x \in {y \in Contents(toClient) : ShowsDiagnostics(y) /\ y.doc = d}}
    BY <1>3, <1>4
  <2> QED
    BY <1>1, <1>5, <2>1 DEF Texts, ShownTexts, ShownEpochs
<1>7. ASSUME NEW x \in Contents(toClient'), ShowsDiagnostics(x)
      PROVE  /\ Contract!FirstVersion(x.doc)' <= x.version
             /\ Contract!FirstEpoch(x.doc)' <= x.epoch
             /\ x.count = Lesser(Words[x.version], LimitAt(x.epoch))
  <2>1. x.doc \in Docs /\ ClientOrder(m, x) /\ x \in Contents(toClient)
    BY <1>1, <1>3, <1>7, ToClientFacts
  <2> QED
    BY <1>3, <1>4, <1>7, <2>1 DEF ClientOrder, ContractInv, PublishedInv
<1>8. PublishedInv'
  BY <1>1, <1>7 DEF PublishedInv
<1> QED
  BY <1>1, <1>6, <1>8 DEF ShownShrinks

LEMMA AddedKeeps ==
  ASSUME SettingsInv, ContractInv, UNCHANGED <<serverVars, configuration>>,
         TimePasses, ShownShrinks, InServerOrder(toServer'),
         MoreIsSendable
  PROVE  TextInv' /\ RunsInv' /\ PromiseInv' /\ EpochInv'
<1> USE DEF TimePasses, ShownShrinks, Sendable, MoreIsSendable
<1>1. /\ documents' = documents /\ documentSettings' = documentSettings
      /\ validating' = validating /\ revalidate' = revalidate
      /\ globalSettings' = globalSettings /\ configuration' = configuration
      /\ promises' = promises
      /\ \A p : Settled(p)' <=> Settled(p)
      /\ \A p : EpochOf(p)' = EpochOf(p)
      /\ \A c \in Docs : CachedSettled(c)' <=> CachedSettled(c)
  BY DEF serverVars, Settled, EpochOf, CachedSettled
<1>2. TextInv /\ RunsInv /\ PromiseInv /\ EpochInv
  BY DEF ContractInv
<1>3. TextInv'
  <2>1. ASSUME NEW d \in Docs
        PROVE  /\ \A n \in Texts(d)' : n <= version'[d]
               /\ documents[d] # Closed => documents[d] <= version'[d]
               /\ documents[d] # Closed => \A n \in Texts(d)' : n <= documents[d]
    BY <1>2, NumberFacts, TextsFacts DEF TextInv
  <2>2. ASSUME NEW m \in Contents(toServer'), BringsText(m)
        PROVE  /\ m.version <= version'[m.doc]
               /\ \A n \in Texts(m.doc)' : n <= m.version
               /\ documents[m.doc] # Closed => documents[m.doc] <= m.version
    <3>1. CASE m \in Contents(toServer)
      BY <1>2, <2>2, <3>1, ToServerFacts, NumberFacts, TextsFacts DEF TextInv
    <3>2. CASE Sendable(m)
      BY <1>2, <2>1, <2>2, <3>2
    <3> QED
      BY <3>1, <3>2
  <2> QED
    BY <1>1, <2>1, <2>2 DEF TextInv
<1>4. RunsInv'
  <2>1. \A v : TextOf(v)' = TextOf(v)
    BY <1>1 DEF TextOf
  <2>2. \A v \in validating : \A n \in ShownTexts(v.doc)' : n <= TextOf(v)
    BY <1>2, RunFacts DEF RunsInv
  <2> QED
    BY <1>1, <1>2, <2>1, <2>2 DEF RunsInv
<1>5. PromiseInv'
  <2>1. ASSUME NEW m \in Contents(toServer'), AboutSettings(m)
        PROVE  /\ m.id \in 1 .. Len(promises)
               /\ \A n \in Contents(toClient') : AboutSettings(n) => m.id < n.id
               /\ configuration => \A p \in 1 .. Len(promises) : Settled(p) => p < m.id
    BY <1>2, <2>1 DEF PromiseInv, ClientOrder
  <2>2. ASSUME NEW m \in Contents(toServer'), Dated(m), configuration,
               NEW p \in 1 .. Len(promises), Settled(p)
        PROVE  EpochOf(p) <= m.epoch
    BY <1>2, <2>2, NumberFacts DEF PromiseInv
  <2>3. ASSUME configuration, NEW p \in 1 .. Len(promises), Settled(p)
        PROVE  EpochOf(p) <= epoch'
    BY <1>2, <2>3, NumberFacts DEF PromiseInv
  <2> QED
    BY <1>1, <1>2, <2>1, <2>2, <2>3 DEF PromiseInv
<1>6. EpochInv'
  <2>1. ASSUME NEW d \in Docs, NEW e \in ShownEpochs(d)
        PROVE  /\ e <= epoch'
               /\ \A m \in Contents(toServer') : Dated(m) => e <= m.epoch
    BY <1>2, NumberFacts, TextsFacts DEF EpochInv
  <2>2. /\ \A m \in Contents(toServer') : Dated(m) => m.epoch <= epoch'
        /\ ~ configuration => globalSettings.epoch <= epoch'
        /\ ~ configuration =>
             \A m \in Contents(toServer') : Dated(m) => globalSettings.epoch <= m.epoch
    BY <1>2, NumberFacts, ToServerFacts DEF EpochInv
  <2> QED
    BY <1>1, <1>2, <2>1, <2>2 DEF EpochInv
<1> QED
  BY <1>3, <1>4, <1>5, <1>6

(***************************************************************************)
(* Such a message comes after those already sent.                          *)
(***************************************************************************)
LEMMA AddedInOrder ==
  ASSUME SettingsInv, ContractInv, NEW m, Send(m), TimePasses, Sendable(m)
  PROVE  InServerOrder(toServer') /\ Contents(toServer') = Contents(toServer) \cup {m}
<1> USE DEF TimePasses, Sendable
<1>1. toServer \in Seq(ToServerMessage) /\ toServer' = Append(toServer, m)
  BY DEF SettingsInv, TypeOK, Send
<1>2. TextInv /\ PromiseInv /\ EpochInv
  BY DEF ContractInv
<1>3. ASSUME NEW x \in Contents(toServer)
      PROVE  ServerOrder(x, m)
  <2>1. BringsText(x) /\ BringsText(m) /\ x.doc = m.doc => x.version <= m.version
    BY <1>2, NumberFacts, ToServerFacts DEF TextInv
  <2>2. AboutSettings(x) /\ AboutSettings(m) => x.id < m.id
    BY <1>2 DEF PromiseInv
  <2>3. Dated(x) /\ Dated(m) => x.epoch <= m.epoch
    BY <1>2, NumberFacts, ToServerFacts DEF EpochInv
  <2> QED
    BY <2>1, <2>2, <2>3 DEF ServerOrder
<1> QED
  BY <1>1, <1>2, <1>3, ServerOrderSent, ContentsSent DEF EpochInv

LEMMA LimitKept ==
  ASSUME ContractInv, UNCHANGED <<serverVars, configuration>>,
         connection = "running" => connection' = "running",
         \A m \in Contents(toServer') : BringsText(m) => connection = "running",
         ~ configuration =>
           \/ GlobalRight
           \/ /\ OnlyAfter(toServer', {"didOpen", "didChange"}, "didChangeConfiguration")
              /\ connection' = "running" => Sends(toServer', "didChangeConfiguration")
  PROVE  LimitInv'
<1>1. /\ documents' = documents /\ globalSettings' = globalSettings /\ promises' = promises
      /\ configuration' = configuration
  BY DEF serverVars
<1>2. (GlobalRight' <=> GlobalRight) /\ OpenDocuments' = OpenDocuments
      /\ \A p : EpochOf(p)' = EpochOf(p)
  BY <1>1 DEF GlobalRight, OpenDocuments, EpochOf
<1> QED
  BY <1>1, <1>2 DEF ContractInv, LimitInv

LEMMA LimitSent ==
  ASSUME SettingsInv, ContractInv, UNCHANGED <<serverVars, configuration>>,
         connection = "running" => connection' = "running",
         connection' = "running" => connection = "running",
         NEW m, Send(m), BringsText(m) => connection = "running"
  PROVE  LimitInv'
<1>1. toServer \in Seq(ToServerMessage) /\ toServer' = Append(toServer, m)
  BY DEF SettingsInv, TypeOK, Send
<1>2. LimitInv
  BY DEF ContractInv
<1>3. \A x \in Contents(toServer') : BringsText(x) => connection = "running"
  BY <1>1, <1>2, ContentsSent DEF LimitInv
<1>4. connection = "running" /\ ~ configuration /\ ~ GlobalRight
        => Sends(toServer, "didChangeConfiguration")
  BY <1>2 DEF LimitInv
<1>5. Sends(toServer, "didChangeConfiguration") => Sends(toServer', "didChangeConfiguration")
  BY <1>1, SendsSent
<1>6. ASSUME ~ configuration, ~ GlobalRight
      PROVE  OnlyAfter(toServer', {"didOpen", "didChange"}, "didChangeConfiguration")
  <2>1. OnlyAfter(toServer, {"didOpen", "didChange"}, "didChangeConfiguration")
    BY <1>2, <1>6 DEF LimitInv
  <2>2. m.type \in {"didOpen", "didChange"} => Sends(toServer, "didChangeConfiguration")
    BY <1>4, <1>6 DEF BringsText
  <2> QED
    BY <1>1, <2>1, <2>2, OnlyAfterSent
<1> QED
  BY <1>3, <1>4, <1>5, <1>6, LimitKept

(***************************************************************************)
(* No step of the client breaks these invariants.                          *)
(***************************************************************************)
LEMMA ClientKeepsContract ==
  ASSUME SettingsInv, OrderInv, ContractInv, ClientNext, UNCHANGED serverVars
  PROVE  ContractInv'
<1>0. /\ toServer \in Seq(ToServerMessage) /\ epoch \in Nat
      /\ \A d \in Docs : version[d] \in Nat
  BY NumberFacts DEF SettingsInv, TypeOK
<1>1. /\ configuration' = configuration /\ epoch' = epoch /\ version' = version
      /\ connection = "running" => connection' = "running"
      /\ UNCHANGED <<serverVars, configuration>>
  BY DEF ClientNext, Activate, OnInitializeResult, OnRegisterCapability,
     OnConfigurationRequest, OnPublishDiagnostics, SyncOpen, clientVars
<1>13. TimePasses
  BY <1>0, <1>1 DEF TimePasses
<1>2. PublishedInv /\ EpochInv /\ LimitInv
  BY DEF ContractInv
<1>3. ASSUME toServer' = toServer, connection' = connection, PublishedInv',
             ShownShrinks
      PROVE  ContractInv'
  <2>1. InServerOrder(toServer') /\ MoreIsSendable
    BY <1>2, <1>3 DEF EpochInv, MoreIsSendable
  <2>2. TextInv' /\ RunsInv' /\ PromiseInv' /\ EpochInv'
    BY <1>1, <1>3, <1>13, <2>1, AddedKeeps
  <2>3. LimitInv'
    BY <1>1, <1>2, <1>3, LimitKept DEF LimitInv
  <2> QED
    BY <1>3, <2>2, <2>3 DEF ContractInv
<1>4. ASSUME NEW m, Send(m), connection' = "running" => connection = "running",
             PublishedInv', ShownShrinks, Sendable(m), BringsText(m) => connection = "running"
      PROVE  ContractInv'
  <2>1. InServerOrder(toServer') /\ MoreIsSendable
    BY <1>4, <1>13, AddedInOrder DEF MoreIsSendable
  <2>2. TextInv' /\ RunsInv' /\ PromiseInv' /\ EpochInv'
    BY <1>1, <1>4, <1>13, <2>1, AddedKeeps
  <2>3. LimitInv'
    BY <1>1, <1>4, LimitSent
  <2> QED
    BY <1>4, <2>2, <2>3 DEF ContractInv
<1>5. ASSUME toClient' = toClient, displayed' = displayed
      PROVE  PublishedInv' /\ ShownShrinks
  BY <1>2, <1>5, ShownKept DEF PublishedInv
<1>6. ASSUME NEW type, Takes(type), displayed' = displayed
      PROVE  PublishedInv' /\ ShownShrinks
  BY <1>6, TakenFacts, ShownKept
<1>7. CASE Activate
  <2> DEFINE m == [type |-> "initialize", configuration |-> configuration]
  <2>1. /\ Send(m) /\ toClient' = toClient /\ displayed' = displayed
        /\ connection' # "running" /\ ~ BringsText(m) /\ Sendable(m)
    BY <1>7 DEF Activate, BringsText, Dated, AboutSettings, Sendable
  <2> HIDE DEF m
  <2> QED
    BY <1>4, <1>5, <2>1
<1>8. CASE OnRegisterCapability
  <2>1. /\ Takes("registerCapability") /\ toServer' = toServer /\ displayed' = displayed
        /\ connection' = connection
    BY <1>8 DEF OnRegisterCapability
  <2> QED
    BY <1>3, <1>6, <2>1
<1>9. CASE OnPublishDiagnostics
  <2>1. toServer' = toServer /\ connection' = connection
    BY <1>9 DEF OnPublishDiagnostics
  <2> QED
    BY <1>3, <1>9, <2>1, ShownByPublication
<1>10. CASE OnConfigurationRequest
  <2>1. PICK outcome \in Answers :
          Send([type |-> "configuration", id |-> Head(toClient).id,
                outcome |-> outcome, epoch |-> epoch])
    BY <1>10 DEF OnConfigurationRequest
  <2> DEFINE m == [type |-> "configuration", id |-> Head(toClient).id,
                   outcome |-> outcome, epoch |-> epoch]
  <2>2. /\ Send(m) /\ ~ BringsText(m) /\ m.epoch = epoch /\ m.id = Head(toClient).id
    BY <2>1 DEF BringsText
  <2> HIDE DEF m
  <2>3. Takes("configuration") /\ displayed' = displayed /\ connection' = connection
    BY <1>10 DEF OnConfigurationRequest, clientVars
  <2>4. \E n \in Contents(toClient) :
          /\ AboutSettings(n) /\ n.id = m.id
          /\ \A x \in Contents(toClient') : ClientOrder(n, x)
    BY <2>2, <2>3, TakenFacts DEF AboutSettings
  <2>5. Sendable(m)
    BY <1>1, <2>2, <2>4 DEF Sendable
  <2> QED
    BY <1>4, <1>6, <2>2, <2>3, <2>5
<1>11. ASSUME NEW d \in Docs, SyncOpen(d)
       PROVE  ContractInv'
  <2> DEFINE m == [type |-> "didOpen", doc |-> d, version |-> version[d]]
  <2>1. /\ Send(m) /\ toClient' = toClient /\ displayed' = displayed
        /\ connection = "running" /\ Sendable(m)
    BY <1>1, <1>11 DEF SyncOpen, Dated, AboutSettings, Sendable
  <2> HIDE DEF m
  <2> QED
    BY <1>4, <1>5, <2>1
<1>12. CASE OnInitializeResult
  <2> DEFINE started == [type |-> "initialized"]
  <2> DEFINE pushed == [type |-> "didChangeConfiguration", epoch |-> epoch]
  <2>1. PICK q \in Seq(ToServerMessage) :
          /\ q = Append(toServer, started)
          /\ toServer' = IF configuration THEN q ELSE Append(q, pushed)
    BY <1>12, GreetingSent
  <2>2. /\ started.type = "initialized" /\ pushed.type = "didChangeConfiguration"
        /\ pushed.epoch = epoch
    OBVIOUS
  <2> HIDE DEF started, pushed
  <2>3. Takes("initializeResult") /\ connection' = "running" /\ displayed' = displayed
    BY <1>12 DEF OnInitializeResult
  <2>4. /\ ~ BringsText(started) /\ ~ Dated(started) /\ ~ AboutSettings(started)
        /\ ~ BringsText(pushed) /\ ~ AboutSettings(pushed)
    BY <2>2 DEF BringsText, Dated, AboutSettings
  <2>5. InServerOrder(q) /\ Contents(q) = Contents(toServer) \cup {started}
    <3>1. \A x \in Contents(toServer) : ServerOrder(x, started)
      BY <2>4 DEF ServerOrder
    <3> QED
      BY <1>0, <1>2, <2>1, <3>1, ServerOrderSent, ContentsSent DEF EpochInv
  <2>6. InServerOrder(Append(q, pushed)) /\ Contents(Append(q, pushed)) = Contents(q) \cup {pushed}
    <3>1. \A x \in Contents(q) : ServerOrder(x, pushed)
      BY <1>2, <2>2, <2>4, <2>5 DEF ServerOrder, EpochInv
    <3> QED
      BY <2>5, <3>1, ServerOrderSent, ContentsSent
  <2>7. InServerOrder(toServer') /\ Contents(toServer') \subseteq Contents(toServer) \cup {started, pushed}
    BY <2>1, <2>5, <2>6
  <2>8. PublishedInv' /\ ShownShrinks
    BY <1>6, <2>3
  <2>9. TextInv' /\ RunsInv' /\ PromiseInv' /\ EpochInv'
    <3>1. Sendable(started) /\ Sendable(pushed)
      BY <1>1, <2>2, <2>4 DEF Sendable
    <3>2. MoreIsSendable
      BY <2>7, <3>1 DEF MoreIsSendable
    <3> QED
      BY <1>1, <1>13, <2>7, <2>8, <3>2, AddedKeeps
  <2>10. LimitInv'
    <3>1. \A m \in Contents(toServer') : BringsText(m) => connection = "running"
      BY <1>2, <2>4, <2>7 DEF LimitInv
    <3>2. ASSUME ~ configuration, ~ GlobalRight
          PROVE  /\ OnlyAfter(toServer', {"didOpen", "didChange"}, "didChangeConfiguration")
                 /\ Sends(toServer', "didChangeConfiguration")
      <4>1. OnlyAfter(toServer, {"didOpen", "didChange"}, "didChangeConfiguration")
        BY <1>2, <3>2 DEF LimitInv
      <4>2. OnlyAfter(q, {"didOpen", "didChange"}, "didChangeConfiguration")
        BY <1>0, <2>1, <2>2, <4>1, OnlyAfterSent
      <4> QED
        BY <2>1, <2>2, <3>2, <4>2, OnlyAfterSent, SendsSent
    <3> QED
      BY <1>1, <2>3, <3>1, <3>2, LimitKept
  <2> QED
    BY <2>8, <2>9, <2>10 DEF ContractInv
<1> QED
  BY <1>7, <1>8, <1>9, <1>10, <1>11, <1>12 DEF ClientNext

(***************************************************************************)
(* No operation of the user breaks these invariants.                       *)
(***************************************************************************)
LEMMA UserKeepsContract ==
  ASSUME SettingsInv, OrderInv, ContractInv, UserNext, UNCHANGED serverVars
  PROVE  ContractInv'
<1>1. /\ configuration' = configuration /\ connection' = connection
      /\ toClient' = toClient /\ displayed' = displayed
      /\ UNCHANGED <<serverVars, configuration>>
  BY DEF UserNext, UserOpen, UserEdit, UserClose, UserConfigure, UserActs
<1>2. PublishedInv /\ EpochInv /\ LimitInv /\ HandshakeInv
  BY DEF ContractInv, OrderInv
<1>3. PublishedInv' /\ ShownShrinks
  BY <1>1, <1>2, ShownKept DEF PublishedInv
<1>4. TimePasses
  <2>1. epoch' = epoch \/ epoch' = epoch + 1
    BY DEF UserNext, UserOpen, UserEdit, UserClose, UserConfigure
  <2>2. version' = version \/ \E d \in Docs : version' = [version EXCEPT ![d] = version[d] + 1]
    BY DEF UserNext, UserOpen, UserEdit, UserClose, UserConfigure
  <2>3. \A d \in Docs : version'[d] = version[d] \/ version'[d] = version[d] + 1
    BY <2>2 DEF SettingsInv, TypeOK
  <2> QED
    BY <2>1, <2>3, NumberFacts DEF TimePasses
<1>5. ASSUME toServer' = toServer
      PROVE  ContractInv'
  <2>1. InServerOrder(toServer') /\ MoreIsSendable
    BY <1>2, <1>5 DEF EpochInv, MoreIsSendable
  <2>2. TextInv' /\ RunsInv' /\ PromiseInv' /\ EpochInv'
    BY <1>1, <1>3, <1>4, <2>1, AddedKeeps
  <2>3. LimitInv'
    BY <1>1, <1>2, <1>5, LimitKept DEF LimitInv
  <2> QED
    BY <1>3, <2>2, <2>3 DEF ContractInv
<1>6. ASSUME NEW m, Send(m), Sendable(m), BringsText(m) => connection = "running"
      PROVE  ContractInv'
  <2>1. InServerOrder(toServer') /\ MoreIsSendable
    BY <1>4, <1>6, AddedInOrder DEF MoreIsSendable
  <2>2. TextInv' /\ RunsInv' /\ PromiseInv' /\ EpochInv'
    BY <1>1, <1>3, <1>4, <1>6, <2>1, AddedKeeps
  <2>3. LimitInv'
    BY <1>1, <1>6, LimitSent
  <2> QED
    BY <1>3, <2>2, <2>3 DEF ContractInv
<1>7. ASSUME NEW d \in Docs, UserOpen(d)
      PROVE  ContractInv'
  BY <1>5, <1>7 DEF UserOpen
<1>8. ASSUME NEW d \in Docs, UserEdit(d)
      PROVE  ContractInv'
  <2> DEFINE m == [type |-> "didChange", doc |-> d, version |-> version[d] + 1]
  <2>1. /\ IF d \in synced THEN Send(m) ELSE toServer' = toServer
        /\ Sendable(m)
    BY <1>8 DEF UserEdit, Dated, AboutSettings, SettingsInv, TypeOK, Sendable
  <2> HIDE DEF m
  <2>2. d \in synced => connection = "running"
    BY <1>2 DEF HandshakeInv
  <2> QED
    BY <1>5, <1>6, <2>1, <2>2
<1>9. ASSUME NEW d \in Docs, UserClose(d)
      PROVE  ContractInv'
  <2> DEFINE m == [type |-> "didClose", doc |-> d]
  <2>1. /\ IF d \in synced THEN Send(m) ELSE toServer' = toServer
        /\ ~ BringsText(m) /\ Sendable(m)
    BY <1>9 DEF UserClose, BringsText, Dated, AboutSettings, Sendable
  <2> HIDE DEF m
  <2> QED
    BY <1>5, <1>6, <2>1
<1>10. CASE UserConfigure
  <2> DEFINE m == [type |-> "didChangeConfiguration", epoch |-> epoch + 1]
  <2>1. /\ IF Notified THEN Send(m) ELSE toServer' = toServer
        /\ ~ BringsText(m) /\ Sendable(m)
    BY <1>10 DEF UserConfigure, BringsText, AboutSettings, Sendable
  <2> HIDE DEF m
  <2> QED
    BY <1>5, <1>6, <2>1
<1> QED
  BY <1>7, <1>8, <1>9, <1>10 DEF UserNext

-----------------------------------------------------------------------------
(***************************************************************************)
(* On the side of the server: the message it reads, and those behind it.   *)
(***************************************************************************)
LEMMA ReadingFacts ==
  ASSUME SettingsInv, ContractInv, NEW type, Reads(type)
  PROVE  /\ Idle
         /\ Head(toServer) \in Contents(toServer) /\ Head(toServer).type = type
         /\ Contents(toServer') \subseteq Contents(toServer)
         /\ InServerOrder(toServer')
         /\ \A x \in Contents(toServer') : ServerOrder(Head(toServer), x)
<1>1. /\ toServer \in Seq(ToServerMessage) /\ toServer # << >>
      /\ Head(toServer).type = type /\ toServer' = Tail(toServer) /\ Idle
  BY DEF SettingsInv, TypeOK, Reads, Receives
<1>2. Contents(toServer) = {Head(toServer)} \cup Contents(toServer')
  BY <1>1, ContentsRead
<1>3. InServerOrder(toServer)
  BY DEF ContractInv, EpochInv
<1> QED
  BY <1>1, <1>2, <1>3, ServerOrderRead

(***************************************************************************)
(* Without the capability, a text that is read was sent by a running       *)
(* client, behind the configuration it pushed.                             *)
(***************************************************************************)
LEMMA ReadingLimits ==
  ASSUME SettingsInv, ContractInv, NEW type, Reads(type)
  PROVE  /\ \A x \in Contents(toServer') : BringsText(x) => connection = "running"
         /\ type \in {"didOpen", "didChange"} =>
              connection = "running" /\ (~ configuration => GlobalRight)
         /\ ~ configuration /\ type # "didChangeConfiguration" =>
              /\ GlobalRight
                   \/ OnlyAfter(toServer', {"didOpen", "didChange"}, "didChangeConfiguration")
              /\ connection = "running" => GlobalRight \/ Sends(toServer', "didChangeConfiguration")
<1>1. /\ toServer \in Seq(ToServerMessage) /\ toServer # << >>
      /\ Head(toServer).type = type /\ toServer' = Tail(toServer)
  BY DEF SettingsInv, TypeOK, Reads, Receives
<1>2. LimitInv
  BY DEF ContractInv
<1>3. /\ Head(toServer) \in Contents(toServer)
      /\ Contents(toServer') \subseteq Contents(toServer)
  BY ReadingFacts
<1>4. ASSUME OnlyAfter(toServer, {"didOpen", "didChange"}, "didChangeConfiguration")
      PROVE  /\ type \notin {"didOpen", "didChange"}
             /\ type # "didChangeConfiguration" =>
                  OnlyAfter(toServer', {"didOpen", "didChange"}, "didChangeConfiguration")
  BY <1>1, <1>4, OnlyAfterRead
<1>5. type # "didChangeConfiguration" =>
        (Sends(toServer, "didChangeConfiguration") => Sends(toServer', "didChangeConfiguration"))
  BY <1>1, SendsRead
<1> QED
  BY <1>1, <1>2, <1>3, <1>4, <1>5 DEF LimitInv, BringsText

(***************************************************************************)
(* As long as nothing is published, what is shown or will be is the same.  *)
(***************************************************************************)
NothingPublished ==
  \A m : ShowsDiagnostics(m) => (m \in Contents(toClient') <=> m \in Contents(toClient))

ShownKeeps ==
  \A d \in Docs : ShownTexts(d)' = ShownTexts(d) /\ ShownEpochs(d)' = ShownEpochs(d)

LEMMA PublishedKept ==
  ASSUME SettingsInv, ContractInv, UNCHANGED clientVars, NothingPublished,
         InClientOrder(toClient')
  PROVE  PublishedInv' /\ ShownKeeps
<1>1. /\ \A d : Contract!FirstVersion(d)' = Contract!FirstVersion(d)
      /\ \A d : Contract!FirstEpoch(d)' = Contract!FirstEpoch(d)
  BY DEF clientVars, Contract!FirstVersion, Contract!FirstEpoch
<1>2. ASSUME NEW d \in Docs
      PROVE  ShownTexts(d)' = ShownTexts(d) /\ ShownEpochs(d)' = ShownEpochs(d)
  <2>1. {x \in Contents(toClient') : ShowsDiagnostics(x) /\ x.doc = d}
          = {x \in Contents(toClient) : ShowsDiagnostics(x) /\ x.doc = d}
    BY DEF NothingPublished
  <2> QED
    BY <1>1, <2>1 DEF ShownTexts, ShownEpochs
<1>3. PublishedInv'
  BY <1>1 DEF ContractInv, PublishedInv, NothingPublished
<1> QED
  BY <1>2, <1>3 DEF ShownKeeps

LEMMA UnsentIsNotPublished ==
  ASSUME ContractInv, toClient' = toClient
  PROVE  NothingPublished /\ InClientOrder(toClient') /\ Contents(toClient') = Contents(toClient)
BY DEF NothingPublished, ContractInv, PublishedInv

LEMMA OtherIsNotPublished ==
  ASSUME SettingsInv, ContractInv, NEW m, toClient' = Append(toClient, m),
         ~ ShowsDiagnostics(m),
         AboutSettings(m) => m.id = Len(promises) + 1
  PROVE  /\ NothingPublished /\ InClientOrder(toClient')
         /\ Contents(toClient') = Contents(toClient) \cup {m}
<1>1. toClient \in Seq(ToClientMessage) /\ Len(promises) \in Nat
  BY NumberFacts DEF SettingsInv, TypeOK
<1>2. PublishedInv /\ PromiseInv
  BY DEF ContractInv
<1>3. Contents(toClient') = Contents(toClient) \cup {m}
  BY <1>1, ContentsSent
<1>4. ASSUME NEW x \in Contents(toClient)
      PROVE  ClientOrder(x, m)
  BY <1>1, <1>2 DEF ClientOrder, PromiseInv
<1>5. InClientOrder(toClient')
  BY <1>1, <1>2, <1>4, ClientOrderSent DEF PublishedInv
<1> QED
  BY <1>3, <1>5 DEF NothingPublished

(***************************************************************************)
(* Texts that no run and no manager changes.                               *)
(***************************************************************************)
LEMMA TextsKept ==
  ASSUME SettingsInv, ContractInv, UNCHANGED <<clientVars, documents, validating>>,
         ShownKeeps, Contents(toServer') \subseteq Contents(toServer)
  PROVE  /\ TextInv'
         /\ \A v \in validating : \A n \in ShownTexts(v.doc)' : n <= TextOf(v)'
<1>1. /\ documents' = documents /\ version' = version /\ validating' = validating
      /\ \A v : TextOf(v)' = TextOf(v)
  BY DEF clientVars, TextOf
<1>2. TextInv /\ RunsInv
  BY DEF ContractInv
<1>3. \A d \in Docs : ShownTexts(d)' = ShownTexts(d) /\ Texts(d)' = Texts(d)
  BY <1>1 DEF ShownKeeps, Texts
<1>4. TextInv'
  BY <1>1, <1>2, <1>3, ToServerFacts DEF TextInv
<1>5. \A v \in validating : \A n \in ShownTexts(v.doc)' : n <= TextOf(v)'
  BY <1>1, <1>2, <1>3, RunFacts DEF RunsInv
<1> QED
  BY <1>4, <1>5

(***************************************************************************)
(* The handshake does not touch what the contract is about.                *)
(***************************************************************************)
LEMMA HandshakeKeepsContract ==
  ASSUME SettingsInv, OrderInv, ContractInv, UNCHANGED clientVars,
         OnInitialize \/ OnInitialized
  PROVE  ContractInv'
<1>1. /\ UNCHANGED <<globalSettings, documents, documentSettings, promises, validating, revalidate>>
      /\ epoch' = epoch /\ configuration' = configuration /\ connection' = connection
  BY DEF OnInitialize, OnInitialized, serverVars, clientVars
<1>2. PICK type \in {"initialize", "initialized"} : Reads(type)
  BY DEF OnInitialize, OnInitialized
<1>3. TextInv /\ RunsInv /\ PromiseInv /\ EpochInv /\ LimitInv
  BY DEF ContractInv
<1>4. /\ Contents(toServer') \subseteq Contents(toServer) /\ InServerOrder(toServer')
      /\ \A x \in Contents(toServer') : BringsText(x) => connection = "running"
      /\ ~ configuration =>
           /\ GlobalRight
                \/ OnlyAfter(toServer', {"didOpen", "didChange"}, "didChangeConfiguration")
           /\ connection = "running" => GlobalRight \/ Sends(toServer', "didChangeConfiguration")
  BY <1>2, ReadingFacts, ReadingLimits
<1>5. /\ NothingPublished /\ InClientOrder(toClient')
      /\ \A m \in Contents(toClient') : AboutSettings(m) => m \in Contents(toClient)
  <2>1. CASE toClient' = toClient
    BY <2>1, UnsentIsNotPublished
  <2>2. CASE \E m : /\ toClient' = Append(toClient, m)
                    /\ m.type \in {"initializeResult", "registerCapability"}
    <3>1. PICK m : /\ toClient' = Append(toClient, m)
                   /\ m.type \in {"initializeResult", "registerCapability"}
      BY <2>2
    <3>2. ~ ShowsDiagnostics(m) /\ ~ AboutSettings(m)
      BY <3>1 DEF ShowsDiagnostics, AboutSettings
    <3> QED
      BY <3>1, <3>2, OtherIsNotPublished
  <2>3. ASSUME NEW m, m.type \in {"initializeResult", "registerCapability"},
               toClient' = Append(toClient, m)
        PROVE  \E x : /\ toClient' = Append(toClient, x)
                      /\ x.type \in {"initializeResult", "registerCapability"}
    BY <2>3
  <2>4. /\ [type |-> "initializeResult"].type = "initializeResult"
        /\ [type |-> "registerCapability"].type = "registerCapability"
    OBVIOUS
  <2>5. \/ toClient' = toClient
        \/ toClient' = Append(toClient, [type |-> "initializeResult"])
        \/ toClient' = Append(toClient, [type |-> "registerCapability"])
    BY DEF OnInitialize, OnInitialized
  <2> QED
    BY <2>1, <2>2, <2>3, <2>4, <2>5
<1>6. PublishedInv' /\ ShownKeeps
  BY <1>5, PublishedKept
<1>7. TextInv' /\ \A v \in validating : \A n \in ShownTexts(v.doc)' : n <= TextOf(v)'
  BY <1>1, <1>4, <1>6, TextsKept
<1>8. /\ \A p : Settled(p)' <=> Settled(p)
      /\ \A p : EpochOf(p)' = EpochOf(p)
      /\ \A c \in Docs : CachedSettled(c)' <=> CachedSettled(c)
      /\ GlobalRight' <=> GlobalRight
      /\ OpenDocuments' = OpenDocuments
  BY <1>1 DEF Settled, EpochOf, CachedSettled, GlobalRight, OpenDocuments
<1>9. RunsInv'
  BY <1>1, <1>3, <1>7, <1>8 DEF RunsInv
<1>10. PromiseInv'
  BY <1>1, <1>3, <1>4, <1>5, <1>8 DEF PromiseInv
<1>11. EpochInv'
  BY <1>1, <1>3, <1>4, <1>6, <1>8 DEF EpochInv, ShownKeeps
<1>12. LimitInv'
  BY <1>1, <1>3, <1>4, <1>8 DEF LimitInv
<1> QED
  BY <1>6, <1>7, <1>9, <1>10, <1>11, <1>12 DEF ContractInv

(***************************************************************************)
(* A run whose document closes keeps its text.                             *)
(***************************************************************************)
LEMMA CloseKeepsContract ==
  ASSUME SettingsInv, OrderInv, ContractInv, UNCHANGED clientVars, OnDidClose
  PROVE  ContractInv'
<1>1. /\ Idle /\ Head(toServer) \in Contents(toServer) /\ Head(toServer).type = "didClose"
      /\ Contents(toServer') \subseteq Contents(toServer) /\ InServerOrder(toServer')
      /\ \A x \in Contents(toServer') : BringsText(x) => connection = "running"
      /\ ~ configuration =>
           /\ GlobalRight
                \/ OnlyAfter(toServer', {"didOpen", "didChange"}, "didChangeConfiguration")
           /\ connection = "running" => GlobalRight \/ Sends(toServer', "didChangeConfiguration")
  BY ReadingFacts, ReadingLimits DEF OnDidClose
<1>2. PICK d \in Docs : d = Head(toServer).doc
  BY <1>1, ToServerFacts, ToServerFields
<1>3. /\ documents' = [documents EXCEPT ![d] = Closed]
      /\ documentSettings' = [documentSettings EXCEPT ![d] = NoPromise]
      /\ validating' = {Detach(v, d) : v \in validating}
      /\ UNCHANGED <<globalSettings, promises, revalidate, toClient>>
      /\ epoch' = epoch /\ configuration' = configuration /\ connection' = connection
      /\ version' = version
  BY <1>2 DEF OnDidClose, clientVars
<1>4. /\ DOMAIN documents = Docs /\ DOMAIN documentSettings = Docs
      /\ documents'[d] = Closed /\ documentSettings'[d] = NoPromise
      /\ \A c \in Docs : c # d =>
           documents'[c] = documents[c] /\ documentSettings'[c] = documentSettings[c]
  BY <1>3 DEF SettingsInv, TypeOK
<1>5. TextInv /\ RunsInv /\ PromiseInv /\ EpochInv /\ LimitInv
  BY DEF ContractInv
<1>6. PublishedInv' /\ ShownKeeps
  BY <1>3, UnsentIsNotPublished, PublishedKept
<1>7. /\ revalidate = {} /\ revalidate' = {}
      /\ \A v \in validating : ~ Settled(v.awaits)
      /\ \A p : Settled(p)' <=> Settled(p)
      /\ \A p : EpochOf(p)' = EpochOf(p)
  BY <1>1, <1>3 DEF Idle, Settled, EpochOf
<1>8. ASSUME NEW v \in validating, NEW w, w = Detach(v, d)
      PROVE  /\ w.doc = v.doc /\ w.awaits = v.awaits
             /\ v.doc = d /\ v.text = Live => w.text = documents[d] /\ documents[d] \in Nat
             /\ ~ (v.doc = d /\ v.text = Live) => w = v
             /\ TextOf(w)' = TextOf(v)
             /\ w.text = Live => v.doc # d /\ v.text = Live
  <2>1. v.doc \in Docs /\ TextOf(v) \in Nat /\ Live \notin Nat /\ Closed \notin Nat
    BY RunFacts, NumberFacts
  <2>2. CASE v.doc = d /\ v.text = Live
    <3>1. w = [doc |-> d, awaits |-> v.awaits, text |-> documents[d]]
      BY <1>8, <2>2 DEF Detach
    <3>2. documents[d] \in Nat
      BY <2>1, <2>2 DEF TextOf
    <3> QED
      BY <2>1, <2>2, <3>1, <3>2 DEF TextOf
  <2>3. CASE ~ (v.doc = d /\ v.text = Live)
    <3>1. w = v
      BY <1>8, <2>3 DEF Detach
    <3> QED
      BY <1>4, <2>1, <2>3, <3>1 DEF TextOf
  <2> QED
    BY <2>2, <2>3
<1>9. ASSUME NEW w \in validating'
      PROVE  \E v \in validating : w = Detach(v, d)
  BY <1>3
<1>10. \A c \in Docs : Texts(c)' \subseteq Texts(c)
  <2>1. ASSUME NEW c \in Docs, NEW w \in validating', w.doc = c
        PROVE  TextOf(w)' \in Texts(c)
    <3>1. PICK v \in validating : w = Detach(v, d)
      BY <1>9
    <3>2. v.doc = c /\ TextOf(w)' = TextOf(v)
      BY <1>8, <2>1, <3>1
    <3> QED
      BY <3>2, TextsFacts
  <2> QED
    BY <1>6, <2>1 DEF Texts, ShownKeeps
<1>11. TextInv'
  BY <1>1, <1>3, <1>4, <1>5, <1>10, ToServerFacts DEF TextInv
<1>12. RunsInv'
  <2>1. ASSUME NEW w \in validating', NEW n \in ShownTexts(w.doc)'
        PROVE  n <= TextOf(w)'
    <3>1. PICK v \in validating : w = Detach(v, d)
      BY <1>9
    <3>2. v.doc \in Docs /\ w.doc = v.doc /\ TextOf(w)' = TextOf(v)
      BY <1>8, <3>1, RunFacts
    <3>3. n \in ShownTexts(v.doc)
      BY <1>6, <2>1, <3>2 DEF ShownKeeps
    <3> QED
      BY <1>5, <3>2, <3>3 DEF RunsInv
  <2>2. ASSUME NEW x \in validating', NEW y \in validating', x.doc = y.doc
        PROVE  /\ x.text = Live /\ y.text # Live => y.awaits < x.awaits
               /\ x.text # Live /\ y.text # Live /\ x.awaits <= y.awaits => x.text <= y.text
    <3>1. PICK v \in validating, w \in validating : x = Detach(v, d) /\ y = Detach(w, d)
      BY <1>9
    <3>2. /\ v.doc = x.doc /\ w.doc = y.doc /\ v.awaits = x.awaits /\ w.awaits = y.awaits
          /\ v.awaits \in Nat /\ w.awaits \in Nat
      BY <1>8, <3>1, RunFacts
    <3>3. CASE v.doc # d
      BY <1>5, <1>8, <2>2, <3>1, <3>2, <3>3 DEF RunsInv
    <3>4. CASE v.doc = d
      <4>1. /\ v.text = Live /\ w.text # Live => w.awaits < v.awaits
            /\ w.text = Live /\ v.text # Live => v.awaits < w.awaits
            /\ v.text # Live /\ w.text # Live /\ v.awaits <= w.awaits => v.text <= w.text
        BY <1>5, <2>2, <3>2, <3>4 DEF RunsInv
      <4>2. /\ x.text = TextOf(v) /\ y.text = TextOf(w) /\ x.text # Live /\ y.text # Live
            /\ TextOf(v) \in Nat /\ TextOf(w) \in Nat
        BY <1>8, <2>2, <3>1, <3>2, <3>4, RunFacts DEF TextOf
      <4>3. w.text = Live => TextOf(v) <= TextOf(w)
        <5>1. w.text = Live => TextOf(w) = documents[d] /\ documents[d] # Closed
          BY <1>8, <2>2, <3>1, <3>2, <3>4, NumberFacts DEF TextOf
        <5>2. TextOf(v) \in Texts(d)
          BY <3>4, TextsFacts
        <5> QED
          BY <1>5, <5>1, <5>2 DEF TextInv
      <4>4. v.text # Live /\ w.text # Live => TextOf(v) = v.text /\ TextOf(w) = w.text
        BY DEF TextOf
      <4> QED
        BY <3>2, <4>1, <4>2, <4>3, <4>4
    <3> QED
      BY <3>3, <3>4
  <2>3. ASSUME NEW w \in validating'
        PROVE  /\ ~ Settled(w.awaits)'
               /\ documentSettings'[w.doc] # NoPromise =>
                    /\ w.awaits <= documentSettings'[w.doc]
                    /\ w.awaits = documentSettings'[w.doc] => w.text = Live
    <3>1. PICK v \in validating : w = Detach(v, d)
      BY <1>9
    <3>2. v.doc = w.doc /\ v.awaits = w.awaits /\ v.doc \in Docs
      BY <1>8, <3>1, RunFacts
    <3>3. ~ Settled(w.awaits)'
      BY <1>7, <3>2
    <3>4. ASSUME documentSettings'[w.doc] # NoPromise
          PROVE  w = v /\ documentSettings'[w.doc] = documentSettings[v.doc]
      BY <1>4, <1>8, <3>1, <3>2, <3>4
    <3> QED
      BY <1>5, <3>3, <3>4 DEF RunsInv
  <2>4. ~ configuration => validating' = {}
    <3>1. ~ configuration => validating = {}
      BY <1>5, <1>7 DEF RunsInv
    <3> QED
      BY <1>9, <3>1
  <2> QED
    BY <1>3, <1>7, <2>1, <2>2, <2>3, <2>4 DEF RunsInv
<1>13. PromiseInv'
  BY <1>1, <1>3, <1>5, <1>7 DEF PromiseInv
<1>14. EpochInv'
  <2>1. ASSUME NEW c \in Docs, CachedSettled(c)'
        PROVE  CachedSettled(c) /\ documentSettings'[c] = documentSettings[c]
    BY <1>4, <1>7, <2>1 DEF CachedSettled
  <2>2. \A w \in validating' : ~ Settled(w.awaits)'
    BY <1>7, <1>8, <1>9
  <2> QED
    BY <1>1, <1>3, <1>5, <1>6, <1>7, <2>1, <2>2 DEF EpochInv, ShownKeeps
<1>15. LimitInv'
  <2>1. OpenDocuments' \subseteq OpenDocuments
    BY <1>4 DEF OpenDocuments
  <2> QED
    BY <1>1, <1>3, <1>5, <1>7, <2>1 DEF LimitInv, GlobalRight
<1> QED
  BY <1>6, <1>11, <1>12, <1>13, <1>14, <1>15 DEF ContractInv

(***************************************************************************)
(* A change of the configuration comes to an idle server: the settings it  *)
(* drops are awaited by no run that can go on.                             *)
(***************************************************************************)
LEMMA ChangeKeepsContract ==
  ASSUME SettingsInv, OrderInv, ContractInv, UNCHANGED clientVars, OnDidChangeConfiguration
  PROVE  ContractInv'
<1>1. /\ Idle /\ Head(toServer) \in Contents(toServer)
      /\ Head(toServer).type = "didChangeConfiguration"
      /\ Contents(toServer') \subseteq Contents(toServer) /\ InServerOrder(toServer')
      /\ \A x \in Contents(toServer') : ServerOrder(Head(toServer), x)
      /\ \A x \in Contents(toServer') : BringsText(x) => connection = "running"
  BY ReadingFacts, ReadingLimits DEF OnDidChangeConfiguration
<1>2. PICK m \in Contents(toServer) : m = Head(toServer)
  BY <1>1
<1>3. /\ UNCHANGED <<documents, promises, validating, toClient>>
      /\ epoch' = epoch /\ configuration' = configuration /\ connection' = connection
      /\ revalidate' = OpenDocuments
      /\ IF hasConfigurationCapability
         THEN documentSettings' = [c \in Docs |-> NoPromise] /\ globalSettings' = globalSettings
         ELSE globalSettings' = Pushed(m.epoch) /\ documentSettings' = documentSettings
  BY <1>2 DEF OnDidChangeConfiguration, clientVars
<1>4. TextInv /\ RunsInv /\ PromiseInv /\ EpochInv /\ LimitInv /\ HandshakeInv
  BY DEF ContractInv, OrderInv
<1>5. /\ \A c \in Docs : documentSettings'[c] = NoPromise
      /\ ~ configuration => globalSettings' = Pushed(m.epoch)
  BY <1>3, <1>4 DEF HandshakeInv
<1>6. /\ m.type = "didChangeConfiguration" /\ Dated(m) /\ m.epoch \in Nat
      /\ \A x \in Contents(toServer') : Dated(x) => m.epoch <= x.epoch
  BY <1>1, <1>2, ToServerFacts DEF Dated, ServerOrder
<1>7. /\ Pushed(m.epoch).epoch = m.epoch
      /\ Pushed(m.epoch).max = LimitAt(m.epoch)
  BY DEF Pushed, LimitAt
<1>8. PublishedInv' /\ ShownKeeps
  BY <1>3, UnsentIsNotPublished, PublishedKept
<1>9. TextInv' /\ \A v \in validating : \A n \in ShownTexts(v.doc)' : n <= TextOf(v)'
  BY <1>1, <1>3, <1>8, TextsKept
<1>10. /\ \A p : Settled(p)' <=> Settled(p)
       /\ \A p : EpochOf(p)' = EpochOf(p)
       /\ \A c \in Docs : ~ CachedSettled(c)'
       /\ OpenDocuments' = OpenDocuments
       /\ \A v \in validating : ~ Settled(v.awaits)
       /\ OpenDocuments \subseteq Docs
  BY <1>1, <1>3, <1>5 DEF Settled, EpochOf, CachedSettled, OpenDocuments, Idle
<1>11. RunsInv'
  <2>1. ~ configuration => validating = {}
    BY <1>4, <1>10 DEF RunsInv
  <2>2. \A v \in validating : documentSettings'[v.doc] = NoPromise
    BY <1>5, RunFacts
  <2>3. \A c \in revalidate' : documentSettings'[c] = NoPromise
    BY <1>3, <1>5, <1>10
  <2> QED
    BY <1>3, <1>4, <1>9, <1>10, <2>1, <2>2, <2>3 DEF RunsInv
<1>12. PromiseInv'
  BY <1>1, <1>3, <1>4, <1>10 DEF PromiseInv
<1>13. EpochInv'
  <2>1. ~ configuration => globalSettings'.epoch = m.epoch
    BY <1>5, <1>7
  <2>2. ASSUME NEW c \in Docs, NEW e \in ShownEpochs(c)
        PROVE  /\ e <= epoch /\ e <= m.epoch
               /\ \A x \in Contents(toServer') : Dated(x) => e <= x.epoch
    BY <1>1, <1>2, <1>4, <1>6 DEF EpochInv
  <2>3. \A x \in Contents(toServer) : Dated(x) => x.epoch <= epoch
    BY <1>4 DEF EpochInv
  <2> QED
    BY <1>1, <1>2, <1>3, <1>6, <1>8, <1>10, <2>1, <2>2, <2>3 DEF EpochInv, ShownKeeps
<1>14. LimitInv'
  <2>1. ~ configuration => GlobalRight'
    <3>1. ~ configuration =>
            globalSettings'.max = LimitAt(m.epoch) /\ globalSettings'.epoch = m.epoch
      BY <1>5, <1>7
    <3> QED
      BY <3>1 DEF GlobalRight
  <2> QED
    BY <1>1, <1>3, <1>4, <1>10, <2>1 DEF LimitInv
<1> QED
  BY <1>8, <1>9, <1>11, <1>12, <1>13, <1>14 DEF ContractInv

(***************************************************************************)
(* An answer settles the oldest promise not settled yet, for runs of which *)
(* each document has one kind, and with the configuration of its time.     *)
(***************************************************************************)
LEMMA AnswerKeepsContract ==
  ASSUME SettingsInv, OrderInv, ContractInv, UNCHANGED clientVars, OnConfiguration
  PROVE  ContractInv'
<1>1. /\ Idle /\ Head(toServer) \in Contents(toServer)
      /\ Head(toServer).type = "configuration"
      /\ Contents(toServer') \subseteq Contents(toServer) /\ InServerOrder(toServer')
      /\ \A x \in Contents(toServer') : ServerOrder(Head(toServer), x)
      /\ \A x \in Contents(toServer') : BringsText(x) => connection = "running"
  BY ReadingFacts, ReadingLimits DEF OnConfiguration
<1>2. PICK m \in Contents(toServer) : m = Head(toServer)
  BY <1>1
<1>3. /\ UNCHANGED <<documents, documentSettings, globalSettings, validating, revalidate, toClient>>
      /\ epoch' = epoch /\ configuration' = configuration /\ connection' = connection
      /\ promises' = [promises EXCEPT ![m.id] = Received(m)]
  BY <1>2 DEF OnConfiguration, clientVars
<1>4. TextInv /\ RunsInv /\ PromiseInv /\ EpochInv /\ LimitInv
  BY DEF ContractInv
<1>5. configuration
  BY <1>1 DEF OrderInv, PushInv, Sends, Contents
<1>6. /\ AboutSettings(m) /\ Dated(m) /\ ~ BringsText(m) /\ m.epoch \in Nat
      /\ m \in ToServerMessage /\ m.type = "configuration"
      /\ \A x \in Contents(toServer') : Dated(x) => m.epoch <= x.epoch
      /\ \A x \in Contents(toServer') : AboutSettings(x) => m.id < x.id
  BY <1>1, <1>2, ToServerFacts DEF Dated, AboutSettings, BringsText, ServerOrder
<1>7. m.id \in 1 .. Len(promises) /\ Len(promises) \in Nat /\ DOMAIN promises = 1 .. Len(promises)
  BY <1>4, <1>6, NumberFacts, LenProperties DEF PromiseInv, SettingsInv, TypeOK
<1>8. Received(m).state # "pending" /\ Received(m).settings.epoch = m.epoch
  <2>1. m.outcome \in Outcomes
    BY <1>6, ToServerFields
  <2> QED
    BY <2>1 DEF Received, Outcomes
<1>9. /\ Len(promises') = Len(promises)
      /\ promises'[m.id] = Received(m)
      /\ \A p \in 1 .. Len(promises) : p # m.id => promises'[p] = promises[p]
  BY <1>3, <1>7
<1>10. /\ Settled(m.id)' /\ EpochOf(m.id)' = m.epoch
       /\ \A p \in 1 .. Len(promises) : p # m.id =>
            (Settled(p)' <=> Settled(p)) /\ EpochOf(p)' = EpochOf(p)
       /\ \A p \in 1 .. Len(promises) : Settled(p) => p < m.id
       /\ \A v \in validating : ~ Settled(v.awaits)
       /\ revalidate = {}
  <2>1. Settled(m.id)' /\ \A p : p = m.id => EpochOf(p)' = m.epoch
    BY <1>8, <1>9 DEF Settled, EpochOf
  <2>2. \A p \in 1 .. Len(promises) : p # m.id =>
            (Settled(p)' <=> Settled(p)) /\ EpochOf(p)' = EpochOf(p)
    BY <1>9 DEF Settled, EpochOf
  <2>3. \A p \in 1 .. Len(promises) : Settled(p) => p < m.id
    BY <1>4, <1>5, <1>6 DEF PromiseInv
  <2> QED
    BY <1>1, <2>1, <2>2, <2>3 DEF Idle
<1>11. PublishedInv' /\ ShownKeeps
  BY <1>3, UnsentIsNotPublished, PublishedKept
<1>12. TextInv' /\ \A v \in validating : \A n \in ShownTexts(v.doc)' : n <= TextOf(v)'
  BY <1>1, <1>3, <1>11, TextsKept
<1>13. \A p \in 1 .. Len(promises) : Settled(p)' => p = m.id \/ Settled(p)
  BY <1>10
<1>14. RunsInv'
  <2>1. \A v \in validating : Settled(v.awaits)' => v.awaits = m.id
    BY <1>10, <1>13, RunFacts
  <2> QED
    BY <1>3, <1>4, <1>5, <1>10, <1>12, <2>1 DEF RunsInv
<1>15. PromiseInv'
  <2>1. ASSUME NEW p \in 1 .. Len(promises), Settled(p)'
        PROVE  /\ EpochOf(p)' <= epoch /\ EpochOf(p)' <= m.epoch /\ p <= m.id
               /\ \A x \in Contents(toServer') : Dated(x) => EpochOf(p)' <= x.epoch
               /\ \A x \in Contents(toServer') : AboutSettings(x) => p < x.id
               /\ \A x \in Contents(toClient) : AboutSettings(x) => p < x.id
    <3>1. CASE p = m.id
      BY <1>2, <1>4, <1>6, <1>7, <1>10, <3>1 DEF PromiseInv, EpochInv
    <3>2. CASE p # m.id
      <4>1. Settled(p) /\ EpochOf(p)' = EpochOf(p) /\ p < m.id
        BY <1>10, <1>13, <2>1, <3>2
      <4> QED
        BY <1>1, <1>2, <1>4, <1>5, <1>6, <1>7, <4>1 DEF PromiseInv
    <3> QED
      BY <3>1, <3>2
  <2>2. ASSUME NEW p \in 1 .. Len(promises), NEW q \in 1 .. Len(promises),
               Settled(p)', Settled(q)', p <= q
        PROVE  EpochOf(p)' <= EpochOf(q)'
    <3>1. CASE q = m.id
      BY <1>10, <2>1, <2>2, <3>1
    <3>2. CASE q # m.id
      <4>1. Settled(q) /\ q < m.id
        BY <1>10, <1>13, <2>2, <3>2
      <4>2. p # m.id
        BY <1>7, <2>2, <4>1
      <4>3. Settled(p) /\ EpochOf(p)' = EpochOf(p) /\ EpochOf(q)' = EpochOf(q)
        BY <1>10, <2>2, <3>2, <4>2
      <4> QED
        BY <1>4, <1>5, <2>2, <4>1, <4>3 DEF PromiseInv
    <3> QED
      BY <3>1, <3>2
  <2>3. \A x \in Contents(toServer') : AboutSettings(x) => x.id \in 1 .. Len(promises)
    BY <1>1, <1>4 DEF PromiseInv
  <2>4. \A x \in Contents(toServer'), n \in Contents(toClient) :
          AboutSettings(x) /\ AboutSettings(n) => x.id < n.id
    BY <1>1, <1>4 DEF PromiseInv
  <2> QED
    BY <1>3, <1>4, <1>9, <2>1, <2>2, <2>3, <2>4 DEF PromiseInv
<1>16. EpochInv'
  <2>1. ASSUME NEW c \in Docs, NEW e \in ShownEpochs(c)
        PROVE  /\ e <= epoch /\ e <= m.epoch
               /\ \A x \in Contents(toServer') : Dated(x) => e <= x.epoch
               /\ CachedSettled(c)' => e <= EpochOf(documentSettings[c])'
               /\ \A v \in validating : v.doc = c /\ Settled(v.awaits)' => e <= EpochOf(v.awaits)'
    <3>1. /\ e <= epoch /\ e <= m.epoch
          /\ \A x \in Contents(toServer') : Dated(x) => e <= x.epoch
      BY <1>1, <1>2, <1>4, <1>6, <2>1 DEF EpochInv
    <3>2. \A p : p = m.id => EpochOf(p)' = m.epoch
      BY <1>8, <1>9 DEF EpochOf
    <3>3. ASSUME CachedSettled(c)'
          PROVE  \A p : p = documentSettings[c] => e <= EpochOf(p)'
      <4>1. PICK p \in 1 .. Len(promises) : p = documentSettings[c]
        BY <1>3, <3>3, NumberFacts DEF CachedSettled, NoPromise
      <4>2. CASE p = m.id
        BY <3>1, <3>2, <4>1, <4>2
      <4>3. CASE p # m.id
        <5>1. Settled(p)'
          BY <1>3, <3>3, <4>1 DEF CachedSettled, Settled
        <5>2. Settled(p) /\ EpochOf(p)' = EpochOf(p)
          BY <1>10, <4>3, <5>1
        <5>3. CachedSettled(c) /\ e <= EpochOf(documentSettings[c])
          BY <1>4, <2>1, <4>1, <5>2 DEF EpochInv, CachedSettled, NoPromise
        <5> QED
          BY <4>1, <5>2, <5>3
      <4> QED
        BY <4>2, <4>3
    <3>4. \A v \in validating : Settled(v.awaits)' => v.awaits = m.id
      BY <1>10, <1>13, RunFacts
    <3> QED
      BY <1>3, <3>1, <3>2, <3>3, <3>4
  <2>2. \A x \in Contents(toServer') : Dated(x) => x.epoch <= epoch
    BY <1>1, <1>4 DEF EpochInv
  <2> QED
    BY <1>1, <1>3, <1>5, <1>11, <2>1, <2>2 DEF EpochInv, ShownKeeps
<1>17. LimitInv'
  <2>1. m.outcome = "value" => Limit[m.epoch] # NoSection
    BY <1>6, ToServerFields DEF ConfiguredEpochs
  <2>2. Received(m).state = "value" => Received(m).settings.max = LimitAt(m.epoch)
    BY <2>1 DEF Received, LimitAt
  <2>3. ASSUME NEW p \in 1 .. Len(promises), promises'[p].state = "value"
        PROVE  promises'[p].settings.max = LimitAt(promises'[p].settings.epoch)
    <3>1. CASE p = m.id
      BY <1>8, <1>9, <2>2, <2>3, <3>1
    <3>2. CASE p # m.id
      BY <1>4, <1>9, <2>3, <3>2 DEF LimitInv, EpochOf
    <3> QED
      BY <3>1, <3>2
  <2> QED
    BY <1>1, <1>3, <1>4, <1>5, <1>9, <2>3 DEF LimitInv, EpochOf, OpenDocuments
<1> QED
  BY <1>11, <1>12, <1>14, <1>15, <1>16, <1>17 DEF ContractInv

(***************************************************************************)
(* A run that goes on has waited for an earlier promise than, or the same  *)
(* as, every other run of its document, and so read no later text.         *)
(***************************************************************************)
LEMMA ResumesInOrder ==
  ASSUME SettingsInv, PromisesAnswered, ContractInv,
         NEW v \in validating, Settled(v.awaits),
         NEW w \in validating, w.doc = v.doc
  PROVE  /\ TextOf(v) <= TextOf(w)
         /\ Settled(w.awaits) => EpochOf(v.awaits) <= EpochOf(w.awaits)
<1>1. TextInv /\ RunsInv /\ PromiseInv
  BY DEF ContractInv
<1>2. /\ v.awaits \in 1 .. Len(promises) /\ w.awaits \in 1 .. Len(promises)
      /\ v.awaits \in Nat /\ w.awaits \in Nat /\ v.doc \in Docs
      /\ TextOf(v) \in Nat /\ TextOf(w) \in Nat
      /\ EpochOf(v.awaits) \in Nat /\ EpochOf(w.awaits) \in Nat
  BY RunFacts, NumberFacts
<1>3. CASE ~ configuration
  <2>1. v.text = Live /\ w.text = Live /\ EpochOf(v.awaits) = EpochOf(w.awaits)
    BY <1>1, <1>3 DEF RunsInv
  <2> QED
    BY <1>2, <2>1 DEF TextOf
<1>4. CASE configuration
  <2>1. Settled(w.awaits) => w.awaits = v.awaits
    BY <1>1, <1>4 DEF RunsInv
  <2>2. ~ Settled(w.awaits) => v.awaits < w.awaits
    <3>1. ASSUME ~ Settled(w.awaits)
          PROVE  Carries(toClient, w.awaits) \/ Carries(toServer, w.awaits)
      BY <1>2, <3>1 DEF PromisesAnswered
    <3>2. ASSUME Carries(toClient, w.awaits)
          PROVE  \E m \in Contents(toClient) : AboutSettings(m) /\ m.id = w.awaits
      BY <3>2 DEF Carries, Contents, AboutSettings
    <3>3. ASSUME Carries(toServer, w.awaits)
          PROVE  \E m \in Contents(toServer) : AboutSettings(m) /\ m.id = w.awaits
      BY <3>3 DEF Carries, Contents, AboutSettings
    <3> QED
      BY <1>1, <1>2, <1>4, <3>1, <3>2, <3>3 DEF PromiseInv
  <2>3. v.awaits <= w.awaits
    BY <1>2, <2>1, <2>2
  <2>4. CASE w.text = Live
    <3>1. TextOf(w) = documents[v.doc] /\ TextOf(w) # Closed
      BY <1>2, <2>4, NumberFacts DEF TextOf
    <3>2. TextOf(v) \in Texts(v.doc)
      BY <1>2, TextsFacts
    <3> QED
      BY <1>1, <1>2, <2>1, <3>1, <3>2 DEF TextInv
  <2>5. CASE w.text # Live
    <3>1. v.text # Live
      BY <1>1, <1>2, <2>3, <2>5 DEF RunsInv
    <3>2. v.text <= w.text
      BY <1>1, <2>3, <2>5, <3>1 DEF RunsInv
    <3> QED
      BY <1>2, <2>1, <2>5, <3>1, <3>2 DEF TextOf
  <2> QED
    BY <2>4, <2>5
<1> QED
  BY <1>3, <1>4

(***************************************************************************)
(* The diagnostics it publishes are those of its text and of the           *)
(* configuration its settings are from, and of none before those shown.    *)
(***************************************************************************)
LEMMA PublishesRightly ==
  ASSUME SettingsInv, ContractInv, NEW v \in validating, Settled(v.awaits), Publishes(v),
         NEW m, m = Diagnostics(v)
  PROVE  /\ ShowsDiagnostics(m) /\ ~ AboutSettings(m)
         /\ m.doc = v.doc /\ m.version = TextOf(v) /\ m.epoch = EpochOf(v.awaits)
         /\ m.count = Lesser(Words[m.version], LimitAt(m.epoch))
         /\ \A n \in ShownTexts(v.doc) : n <= m.version
         /\ \A e \in ShownEpochs(v.doc) : e <= m.epoch
<1>1. RunsInv /\ EpochInv /\ LimitInv
  BY DEF ContractInv
<1>2. /\ v.doc \in Docs /\ v.awaits \in 1 .. Len(promises) /\ promises[v.awaits] \in Promise
  BY RunFacts, NumberFacts
<1>3. /\ ShowsDiagnostics(m) /\ ~ AboutSettings(m)
      /\ m.doc = v.doc /\ m.version = TextOf(v) /\ m.epoch = EpochOf(v.awaits)
      /\ m.count = Lesser(Words[TextOf(v)], promises[v.awaits].settings.max)
  BY DEF Diagnostics, ShowsDiagnostics, AboutSettings, EpochOf
<1>4. m.count = Lesser(Words[m.version], LimitAt(m.epoch))
  <2>1. CASE promises[v.awaits].state = "value"
    BY <1>1, <1>2, <1>3, <2>1 DEF LimitInv
  <2>2. CASE promises[v.awaits].state # "value"
    <3>1. Words[m.version] = 0
      BY <1>3, <2>2 DEF Publishes
    <3>2. promises[v.awaits].settings.max \in Nat /\ m.epoch \in Epochs
      BY <1>2, <1>3 DEF Promise, Settings, EpochOf
    <3>3. LimitAt(m.epoch) \in Nat
      BY <3>2, LimitAssumption, DefaultAssumption DEF LimitAt
    <3> QED
      BY <1>3, <3>1, <3>2, <3>3 DEF Lesser
  <2> QED
    BY <2>1, <2>2
<1>5. \A n \in ShownTexts(v.doc) : n <= m.version
  BY <1>1, <1>3 DEF RunsInv
<1>6. \A e \in ShownEpochs(v.doc) : e <= m.epoch
  BY <1>1, <1>2, <1>3 DEF EpochInv
<1> QED
  BY <1>3, <1>4, <1>5, <1>6

LEMMA ResumeKeepsContract ==
  ASSUME SettingsInv, PromisesAnswered, OrderInv, ContractInv, UNCHANGED clientVars,
         NEW v \in validating, Resume(v)
  PROVE  ContractInv'
<1>1. /\ Settled(v.awaits) /\ validating' = validating \ {v}
      /\ UNCHANGED <<globalSettings, documents, documentSettings, promises, revalidate, toServer>>
      /\ epoch' = epoch /\ configuration' = configuration /\ connection' = connection
      /\ version' = version /\ displayed' = displayed
      /\ IF Publishes(v) THEN toClient' = Append(toClient, Diagnostics(v)) ELSE toClient' = toClient
  BY DEF Resume, clientVars
<1>2. PublishedInv /\ TextInv /\ RunsInv /\ PromiseInv /\ EpochInv /\ LimitInv
  BY DEF ContractInv
<1>3. /\ v.doc \in Docs /\ v.awaits \in 1 .. Len(promises) /\ v.awaits \in Nat
      /\ EpochOf(v.awaits) \in Nat /\ TextOf(v) \in Nat
      /\ TextOf(v) \in Texts(v.doc)
  BY RunFacts, NumberFacts, TextsFacts
<1>4. /\ \A p : Settled(p)' <=> Settled(p)
      /\ \A p : EpochOf(p)' = EpochOf(p)
      /\ \A c \in Docs : CachedSettled(c)' <=> CachedSettled(c)
      /\ \A w : TextOf(w)' = TextOf(w)
      /\ \A c : Contract!FirstVersion(c)' = Contract!FirstVersion(c)
      /\ \A c : Contract!FirstEpoch(c)' = Contract!FirstEpoch(c)
      /\ GlobalRight' <=> GlobalRight
      /\ OpenDocuments' = OpenDocuments
  BY <1>1 DEF Settled, EpochOf, CachedSettled, TextOf, Contract!FirstVersion,
     Contract!FirstEpoch, GlobalRight, OpenDocuments
<1>5. /\ PublishedInv'
      /\ \A m \in Contents(toClient') : AboutSettings(m) => m \in Contents(toClient)
      /\ \A c \in Docs : c # v.doc =>
           ShownTexts(c)' = ShownTexts(c) /\ ShownEpochs(c)' = ShownEpochs(c)
      /\ ShownTexts(v.doc)' \subseteq ShownTexts(v.doc) \cup {TextOf(v)}
      /\ ShownEpochs(v.doc)' \subseteq ShownEpochs(v.doc) \cup {EpochOf(v.awaits)}
  <2>1. CASE ~ Publishes(v)
    <3>1. toClient' = toClient
      BY <1>1, <2>1
    <3>2. PublishedInv' /\ ShownKeeps
      BY <3>1, UnsentIsNotPublished, PublishedKept
    <3>3. /\ ShownTexts(v.doc)' = ShownTexts(v.doc) /\ ShownEpochs(v.doc)' = ShownEpochs(v.doc)
      BY <3>1, <1>4 DEF ShownTexts, ShownEpochs
    <3> QED
      BY <3>1, <3>2, <3>3 DEF ShownKeeps
  <2>2. CASE Publishes(v)
    <3>1. PICK m : m = Diagnostics(v) /\ toClient' = Append(toClient, m)
      BY <1>1, <2>2
    <3>2. /\ ShowsDiagnostics(m) /\ ~ AboutSettings(m)
          /\ m.doc = v.doc /\ m.version = TextOf(v) /\ m.epoch = EpochOf(v.awaits)
          /\ m.count = Lesser(Words[m.version], LimitAt(m.epoch))
          /\ \A n \in ShownTexts(v.doc) : n <= m.version
          /\ \A e \in ShownEpochs(v.doc) : e <= m.epoch
      BY <1>1, <2>2, <3>1, PublishesRightly
    <3>3. toClient \in Seq(ToClientMessage)
      BY DEF SettingsInv, TypeOK
    <3>4. Contents(toClient') = Contents(toClient) \cup {m}
      BY <3>1, <3>3, ContentsSent
    <3>5. ASSUME NEW x \in Contents(toClient)
          PROVE  ClientOrder(x, m)
      BY <1>3, <3>2, TextsFacts DEF ClientOrder
    <3>6. InClientOrder(toClient')
      BY <1>2, <3>1, <3>3, <3>5, ClientOrderSent DEF PublishedInv
    <3>7. ASSUME NEW x \in Contents(toClient'), ShowsDiagnostics(x)
          PROVE  /\ Contract!FirstVersion(x.doc) <= x.version
                 /\ Contract!FirstEpoch(x.doc) <= x.epoch
                 /\ x.count = Lesser(Words[x.version], LimitAt(x.epoch))
      <4>1. CASE x \in Contents(toClient)
        BY <1>2, <3>7, <4>1 DEF PublishedInv
      <4>2. CASE x = m
        BY <1>3, <3>2, <4>2, TextsFacts
      <4> QED
        BY <3>4, <4>1, <4>2
    <3>8. PublishedInv'
      BY <1>4, <3>6, <3>7 DEF PublishedInv
    <3>9. \A c \in Docs : c # v.doc =>
            ShownTexts(c)' = ShownTexts(c) /\ ShownEpochs(c)' = ShownEpochs(c)
      <4>1. \A c \in Docs : c # v.doc =>
              {x \in Contents(toClient') : ShowsDiagnostics(x) /\ x.doc = c}
                = {x \in Contents(toClient) : ShowsDiagnostics(x) /\ x.doc = c}
        BY <3>2, <3>4
      <4> QED
        BY <1>4, <4>1 DEF ShownTexts, ShownEpochs
    <3>10. /\ ShownTexts(v.doc)' \subseteq ShownTexts(v.doc) \cup {TextOf(v)}
           /\ ShownEpochs(v.doc)' \subseteq ShownEpochs(v.doc) \cup {EpochOf(v.awaits)}
      <4>1. {x \in Contents(toClient') : ShowsDiagnostics(x) /\ x.doc = v.doc}
              \subseteq {x \in Contents(toClient) : ShowsDiagnostics(x) /\ x.doc = v.doc} \cup {m}
        BY <3>4
      <4> QED
        BY <1>4, <3>2, <4>1 DEF ShownTexts, ShownEpochs
    <3> QED
      BY <3>2, <3>4, <3>8, <3>9, <3>10
  <2> QED
    BY <2>1, <2>2
<1>6. \A c \in Docs : Texts(c)' \subseteq Texts(c)
  BY <1>1, <1>3, <1>4, <1>5 DEF Texts
<1>7. TextInv'
  BY <1>1, <1>2, <1>6, ToServerFacts DEF TextInv
<1>8. RunsInv'
  <2>1. ASSUME NEW w \in validating', NEW n \in ShownTexts(w.doc)'
        PROVE  n <= TextOf(w)
    <3>1. w \in validating /\ w.doc \in Docs
      BY <1>1, RunFacts
    <3>2. CASE w.doc # v.doc
      BY <1>2, <1>5, <2>1, <3>1, <3>2 DEF RunsInv
    <3>3. CASE w.doc = v.doc
      <4>1. TextOf(v) <= TextOf(w)
        BY <1>1, <3>1, <3>3, ResumesInOrder
      <4>2. n \in ShownTexts(v.doc) \cup {TextOf(v)}
        BY <1>5, <2>1, <3>3
      <4> QED
        BY <1>2, <3>1, <3>3, <4>1, <4>2 DEF RunsInv
    <3> QED
      BY <3>2, <3>3
  <2>2. validating' \subseteq validating
    BY <1>1
  <2> QED
    BY <1>1, <1>2, <1>4, <2>1, <2>2 DEF RunsInv
<1>9. PromiseInv'
  BY <1>1, <1>2, <1>4, <1>5 DEF PromiseInv
<1>10. EpochInv'
  <2>1. ASSUME NEW c \in Docs, NEW e \in ShownEpochs(c)'
        PROVE  /\ e <= epoch
               /\ CachedSettled(c) => e <= EpochOf(documentSettings[c])
               /\ ~ configuration => e <= globalSettings.epoch
               /\ \A m \in Contents(toServer) : Dated(m) => e <= m.epoch
               /\ \A w \in validating' : w.doc = c /\ Settled(w.awaits) => e <= EpochOf(w.awaits)
    <3>1. CASE e \in ShownEpochs(c)
      BY <1>1, <1>2, <3>1 DEF EpochInv
    <3>2. CASE c = v.doc /\ e = EpochOf(v.awaits)
      <4>1. ~ configuration => e = globalSettings.epoch /\ ~ CachedSettled(c)
        BY <1>2, <3>2 DEF RunsInv, OrderInv, HandshakeInv, CachedSettled
      <4>2. \A w \in validating' : w.doc = c /\ Settled(w.awaits) => e <= EpochOf(w.awaits)
        BY <1>1, <3>2, ResumesInOrder
      <4>3. CachedSettled(c) => e <= EpochOf(documentSettings[c])
        <5>1. CachedSettled(c) => /\ documentSettings[c] \in 1 .. Len(promises)
                                  /\ v.awaits <= documentSettings[c]
                                  /\ Settled(documentSettings[c])
          BY <1>2, <1>3, <3>2, NumberFacts DEF RunsInv, CachedSettled, NoPromise
        <5> QED
          BY <1>1, <1>2, <1>3, <3>2, <4>1, <5>1 DEF PromiseInv
      <4>4. e <= epoch /\ \A m \in Contents(toServer) : Dated(m) => e <= m.epoch
        BY <1>1, <1>2, <1>3, <3>2, <4>1 DEF PromiseInv, EpochInv
      <4> QED
        BY <1>3, <3>2, <4>1, <4>2, <4>3, <4>4
    <3> QED
      BY <1>5, <2>1, <3>1, <3>2
  <2> QED
    BY <1>1, <1>2, <1>4, <2>1 DEF EpochInv
<1>11. LimitInv'
  BY <1>1, <1>2, <1>4 DEF LimitInv
<1> QED
  BY <1>5, <1>7, <1>8, <1>9, <1>10, <1>11 DEF ContractInv

-----------------------------------------------------------------------------
(***************************************************************************)
(* The first half of validateTextDocument for d adds a run that awaits p:  *)
(* the global settings, the cached promise or the one of a new request.    *)
(***************************************************************************)
AwaitsGlobal(p) ==
  /\ ~ configuration
  /\ p = Len(promises) + 1 /\ Len(promises') = Len(promises) + 1
  /\ promises'[p].state = "value" /\ promises'[p].settings = globalSettings
  /\ documentSettings' = documentSettings
  /\ toClient' = toClient

AwaitsCached(d, p) ==
  /\ configuration
  /\ p = documentSettings[d] /\ p # NoPromise
  /\ promises' = promises /\ documentSettings' = documentSettings
  /\ toClient' = toClient

AwaitsRequest(d, p) ==
  /\ configuration
  /\ documentSettings[d] = NoPromise
  /\ p = Len(promises) + 1 /\ Len(promises') = Len(promises) + 1
  /\ promises'[p].state = "pending"
  /\ documentSettings' = [documentSettings EXCEPT ![d] = p]
  /\ \E m : /\ toClient' = Append(toClient, m)
            /\ AboutSettings(m) /\ ~ ShowsDiagnostics(m) /\ m.id = p

Started(d, p) ==
  /\ validating' = validating \cup {[doc |-> d, awaits |-> p, text |-> Live]}
  /\ \A q \in 1 .. Len(promises) : promises'[q] = promises[q]
  /\ AwaitsGlobal(p) \/ AwaitsCached(d, p) \/ AwaitsRequest(d, p)

LEMMA StartedFacts ==
  ASSUME SettingsInv, hasConfigurationCapability = configuration,
         NEW d \in Docs, StartValidation(d)
  PROVE  \E p \in Nat : Started(d, p)
<1>1. /\ promises \in Seq(Promise) /\ Len(promises) \in Nat
      /\ documentSettings[d] \in 0 .. Len(promises)
  BY NumberFacts DEF SettingsInv, TypeOK
<1>2. CASE UseGlobalSettings(d)
  <2> DEFINE x == [state |-> "value", settings |-> globalSettings]
  <2>1. /\ promises' = Append(promises, x) /\ x.state = "value" /\ x.settings = globalSettings
        /\ toClient' = toClient /\ documentSettings' = documentSettings /\ ~ configuration
        /\ validating' = validating
             \cup {[doc |-> d, awaits |-> Len(promises) + 1, text |-> Live]}
    BY <1>2 DEF UseGlobalSettings, Await
  <2> HIDE DEF x
  <2>2. /\ promises'[Len(promises) + 1] = x /\ Len(promises') = Len(promises) + 1
        /\ \A q \in 1 .. Len(promises) : promises'[q] = promises[q]
    BY <1>1, <2>1, SentFacts, AppendProperties
  <2>3. AwaitsGlobal(Len(promises) + 1)
    BY <2>1, <2>2 DEF AwaitsGlobal
  <2> QED
    BY <1>1, <2>1, <2>2, <2>3 DEF Started
<1>3. CASE UseCachedSettings(d)
  <2>1. AwaitsCached(d, documentSettings[d])
    BY <1>3 DEF UseCachedSettings, AwaitsCached
  <2>2. validating' = validating
          \cup {[doc |-> d, awaits |-> documentSettings[d], text |-> Live]}
    BY <1>3 DEF UseCachedSettings, Await
  <2> QED
    BY <1>1, <2>1, <2>2 DEF Started, AwaitsCached
<1>4. CASE RequestSettings(d)
  <2> DEFINE x == [state |-> "pending", settings |-> defaultSettings]
  <2> DEFINE m == [type |-> "configuration", id |-> Len(promises) + 1, doc |-> d]
  <2>1. /\ promises' = Append(promises, x) /\ x.state = "pending"
        /\ toClient' = Append(toClient, m) /\ m.id = Len(promises) + 1
        /\ m.type = "configuration"
        /\ documentSettings[d] = NoPromise /\ configuration
        /\ documentSettings' = [documentSettings EXCEPT ![d] = Len(promises) + 1]
        /\ validating' = validating
             \cup {[doc |-> d, awaits |-> Len(promises) + 1, text |-> Live]}
    BY <1>4 DEF RequestSettings, Await
  <2> HIDE DEF x, m
  <2>2. /\ promises'[Len(promises) + 1] = x /\ Len(promises') = Len(promises) + 1
        /\ \A q \in 1 .. Len(promises) : promises'[q] = promises[q]
    BY <1>1, <2>1, SentFacts, AppendProperties
  <2>3. AboutSettings(m) /\ ~ ShowsDiagnostics(m)
    BY <2>1 DEF AboutSettings, ShowsDiagnostics
  <2>4. AwaitsRequest(d, Len(promises) + 1)
    BY <2>1, <2>2, <2>3 DEF AwaitsRequest
  <2> QED
    BY <1>1, <2>1, <2>2, <2>4 DEF Started
<1> QED
  BY <1>2, <1>3, <1>4 DEF StartValidation

(***************************************************************************)
(* When it is called: version n of d is the latest text the server knows,  *)
(* and no run that could go on is left waiting.                            *)
(***************************************************************************)
Starts(d, n) ==
  /\ documents' = [documents EXCEPT ![d] = n]
  /\ n <= version[d]
  /\ documents[d] # Closed => documents[d] <= n
  /\ \A t \in Texts(d) : t <= n
  /\ Contents(toServer') \subseteq Contents(toServer) /\ InServerOrder(toServer')
  /\ \A m \in Contents(toServer') : BringsText(m) /\ m.doc = d => n <= m.version
  /\ configuration => \A v \in validating : ~ Settled(v.awaits)
  /\ connection = "running" /\ (~ configuration => GlobalRight)
  /\ revalidate' \subseteq revalidate /\ d \notin revalidate'
  /\ revalidate' # {} => documentSettings[d] = NoPromise

(***************************************************************************)
(* What starting keeps: promises, settings of other documents, what is     *)
(* shown, and the texts but for the latest of d.                           *)
(***************************************************************************)
LEMMA StartedShows ==
  ASSUME SettingsInv, ContractInv, UNCHANGED clientVars, NEW d, NEW p, Started(d, p)
  PROVE  /\ PublishedInv' /\ ShownKeeps
         /\ \A m \in Contents(toClient') : AboutSettings(m) =>
              m \in Contents(toClient) \/ (AwaitsRequest(d, p) /\ m.id = p)
<1>1. CASE toClient' = toClient
  BY <1>1, UnsentIsNotPublished, PublishedKept
<1>2. CASE AwaitsRequest(d, p)
  <2>1. PICK m : /\ toClient' = Append(toClient, m)
                 /\ AboutSettings(m) /\ ~ ShowsDiagnostics(m) /\ m.id = Len(promises) + 1
                 /\ m.id = p
    BY <1>2 DEF AwaitsRequest
  <2>2. /\ NothingPublished /\ InClientOrder(toClient')
        /\ Contents(toClient') = Contents(toClient) \cup {m}
    BY <2>1, OtherIsNotPublished
  <2> QED
    BY <1>2, <2>1, <2>2, PublishedKept
<1> QED
  BY <1>1, <1>2 DEF Started, AwaitsGlobal, AwaitsCached

LEMMA StartedPromises ==
  ASSUME SettingsInv, NEW d \in Docs, NEW p \in Nat, Started(d, p)
  PROVE  /\ p \in 1 .. Len(promises') /\ Len(promises') \in Nat
         /\ Len(promises) <= Len(promises')
         /\ \A q \in 1 .. Len(promises) :
              (Settled(q)' <=> Settled(q)) /\ EpochOf(q)' = EpochOf(q)
         /\ \A q \in 1 .. Len(promises') : q \in 1 .. Len(promises) \/ q = p
         /\ \A c \in Docs : c # d => documentSettings'[c] = documentSettings[c]
         /\ configuration => documentSettings'[d] = p
         /\ ~ configuration => documentSettings'[d] = documentSettings[d]
<1>1. /\ Len(promises) \in Nat /\ DOMAIN documentSettings = Docs
      /\ documentSettings[d] \in 0 .. Len(promises)
  BY NumberFacts DEF SettingsInv, TypeOK
<1>2. \A q \in 1 .. Len(promises) :
        (Settled(q)' <=> Settled(q)) /\ EpochOf(q)' = EpochOf(q)
  BY DEF Started, Settled, EpochOf
<1>3. CASE AwaitsGlobal(p)
  BY <1>1, <1>2, <1>3 DEF AwaitsGlobal
<1>4. CASE AwaitsCached(d, p)
  BY <1>1, <1>2, <1>4 DEF AwaitsCached, NoPromise
<1>5. CASE AwaitsRequest(d, p)
  BY <1>1, <1>2, <1>5 DEF AwaitsRequest
<1> QED
  BY <1>3, <1>4, <1>5 DEF Started

LEMMA StartedTexts ==
  ASSUME SettingsInv, ContractInv, UNCHANGED clientVars,
         NEW d \in Docs, NEW n \in Versions, Starts(d, n), NEW p \in Nat, Started(d, p)
  PROVE  /\ documents'[d] = n /\ n \in Nat /\ n # Closed
         /\ \A c \in Docs : c # d => documents'[c] = documents[c]
         /\ \A v \in validating : (v.doc = d /\ v.text = Live) \/ TextOf(v)' = TextOf(v)
         /\ \A v \in validating' :
              \/ v \in validating
              \/ v.doc = d /\ v.awaits = p /\ v.text = Live
         /\ \A v \in validating' : v.doc = d /\ v.text = Live => TextOf(v)' = n
         /\ \A c \in Docs : c # d => Texts(c)' \subseteq Texts(c)
         /\ Texts(d)' \subseteq Texts(d) \cup {n}
<1>1. /\ documents'[d] = n /\ n \in Nat /\ n # Closed
      /\ \A c \in Docs : c # d => documents'[c] = documents[c]
  BY BoundAssumption, ClosedAssumption DEF Starts, SettingsInv, TypeOK, Versions
<1>2. ShownKeeps
  BY StartedShows
<1>3. \A v \in validating : (v.doc = d /\ v.text = Live) \/ TextOf(v)' = TextOf(v)
  BY <1>1, RunFacts DEF TextOf
<1>4. ASSUME NEW v \in validating'
      PROVE  v \in validating \/ (v.doc = d /\ v.awaits = p /\ v.text = Live)
  BY DEF Started
<1>5. \A v \in validating' : v.doc = d /\ v.text = Live => TextOf(v)' = n
  BY <1>1 DEF TextOf
<1>6. ASSUME NEW v \in validating'
      PROVE  /\ v.doc # d => v \in validating /\ TextOf(v)' = TextOf(v)
             /\ v.doc = d => TextOf(v)' = n \/ (v \in validating /\ TextOf(v)' = TextOf(v))
  BY <1>3, <1>4, <1>5
<1>7. ASSUME NEW c \in Docs, c # d
      PROVE  Texts(c)' \subseteq Texts(c)
  BY <1>2, <1>6, <1>7 DEF Texts, ShownKeeps
<1>8. Texts(d)' \subseteq Texts(d) \cup {n}
  BY <1>2, <1>6 DEF Texts, ShownKeeps
<1> QED
  BY <1>1, <1>3, <1>4, <1>5, <1>7, <1>8

(***************************************************************************)
(* No validation that starts breaks these invariants.                      *)
(***************************************************************************)
LEMMA StartKeepsContract ==
  ASSUME SettingsInv, OrderInv, ContractInv, UNCHANGED <<clientVars, globalSettings>>,
         NEW d \in Docs, NEW n \in Versions, Starts(d, n), StartValidation(d)
  PROVE  ContractInv'
<1>1. /\ epoch' = epoch /\ configuration' = configuration /\ connection' = connection
      /\ version' = version /\ globalSettings' = globalSettings
  BY DEF clientVars
<1>2. PublishedInv /\ TextInv /\ RunsInv /\ PromiseInv /\ EpochInv /\ LimitInv
  BY DEF ContractInv
<1>3. hasConfigurationCapability = configuration
  BY DEF OrderInv, HandshakeInv, Starts
<1>4. PICK p \in Nat : Started(d, p)
  BY <1>3, StartedFacts
<1>5. /\ PublishedInv' /\ ShownKeeps
      /\ \A m \in Contents(toClient') : AboutSettings(m) =>
           m \in Contents(toClient) \/ (AwaitsRequest(d, p) /\ m.id = p)
  BY <1>4, StartedShows
<1>6. /\ p \in 1 .. Len(promises') /\ Len(promises') \in Nat /\ Len(promises) \in Nat
      /\ Len(promises) <= Len(promises')
      /\ \A q \in 1 .. Len(promises) :
           (Settled(q)' <=> Settled(q)) /\ EpochOf(q)' = EpochOf(q)
      /\ \A q \in 1 .. Len(promises') : q \in 1 .. Len(promises) \/ q = p
      /\ \A c \in Docs : c # d => documentSettings'[c] = documentSettings[c]
      /\ configuration => documentSettings'[d] = p
      /\ ~ configuration => documentSettings'[d] = documentSettings[d]
  BY <1>4, StartedPromises, NumberFacts
<1>7. /\ documents'[d] = n /\ n \in Nat /\ n # Closed
      /\ \A c \in Docs : c # d => documents'[c] = documents[c]
      /\ \A v \in validating : (v.doc = d /\ v.text = Live) \/ TextOf(v)' = TextOf(v)
      /\ \A v \in validating' :
           \/ v \in validating
           \/ v.doc = d /\ v.awaits = p /\ v.text = Live
      /\ \A v \in validating' : v.doc = d /\ v.text = Live => TextOf(v)' = n
      /\ \A c \in Docs : c # d => Texts(c)' \subseteq Texts(c)
      /\ Texts(d)' \subseteq Texts(d) \cup {n}
  BY <1>4, StartedTexts
<1>8. /\ n <= version[d] /\ (documents[d] # Closed => documents[d] <= n)
      /\ \A t \in Texts(d) : t <= n
      /\ Contents(toServer') \subseteq Contents(toServer) /\ InServerOrder(toServer')
      /\ \A m \in Contents(toServer') : BringsText(m) /\ m.doc = d => n <= m.version
      /\ configuration => \A v \in validating : ~ Settled(v.awaits)
      /\ connection = "running" /\ (~ configuration => GlobalRight)
      /\ revalidate' \subseteq revalidate /\ d \notin revalidate'
      /\ revalidate' # {} => documentSettings[d] = NoPromise
  BY DEF Starts
<1>9. \/ /\ ~ configuration /\ p = Len(promises) + 1
         /\ Settled(p)' /\ EpochOf(p)' = globalSettings.epoch
         /\ promises'[p].settings = globalSettings
      \/ /\ configuration /\ p = documentSettings[d] /\ p # NoPromise
         /\ p \in 1 .. Len(promises)
         /\ promises' = promises
      \/ /\ configuration /\ documentSettings[d] = NoPromise
         /\ p = Len(promises) + 1 /\ ~ Settled(p)' /\ promises'[p].state = "pending"
  <2>1. AwaitsGlobal(p) => Settled(p)' /\ EpochOf(p)' = globalSettings.epoch
    BY DEF AwaitsGlobal, Settled, EpochOf
  <2>2. AwaitsRequest(d, p) => ~ Settled(p)'
    BY DEF AwaitsRequest, Settled
  <2>3. AwaitsCached(d, p) => p \in 1 .. Len(promises)
    BY NumberFacts DEF AwaitsCached, NoPromise
  <2> QED
    BY <1>4, <2>1, <2>2, <2>3 DEF Started, AwaitsGlobal, AwaitsCached, AwaitsRequest
<1>10. TextInv'
  <2>1. ASSUME NEW c \in Docs
        PROVE  /\ \A t \in Texts(c)' : t <= version[c]
               /\ documents'[c] # Closed => documents'[c] <= version[c]
               /\ documents'[c] # Closed => \A t \in Texts(c)' : t <= documents'[c]
    <3>1. CASE c = d
      BY <1>2, <1>7, <1>8, <3>1 DEF TextInv
    <3>2. CASE c # d
      BY <1>2, <1>7, <3>2 DEF TextInv
    <3> QED
      BY <3>1, <3>2
  <2>2. ASSUME NEW m \in Contents(toServer'), BringsText(m)
        PROVE  /\ m.version <= version[m.doc]
               /\ \A t \in Texts(m.doc)' : t <= m.version
               /\ documents'[m.doc] # Closed => documents'[m.doc] <= m.version
    <3>1. m \in Contents(toServer) /\ m.doc \in Docs
      BY <1>8, <2>2, ToServerFacts
    <3>2. CASE m.doc = d
      BY <1>2, <1>7, <1>8, <2>2, <3>1, <3>2 DEF TextInv
    <3>3. CASE m.doc # d
      BY <1>2, <1>7, <2>2, <3>1, <3>3 DEF TextInv
    <3> QED
      BY <3>2, <3>3
  <2> QED
    BY <1>1, <2>1, <2>2 DEF TextInv
<1>11. ASSUME NEW v \in validating
       PROVE  v.doc \in Docs /\ v.awaits \in 1 .. Len(promises) /\ v.awaits \in Nat
  BY RunFacts
<1>12. RunsInv'
  <2>1. ASSUME NEW v \in validating', NEW t \in ShownTexts(v.doc)'
        PROVE  t <= TextOf(v)'
    <3>1. v.doc \in Docs /\ t \in ShownTexts(v.doc)
      BY <1>5, <1>7, <1>11, <2>1 DEF ShownKeeps
    <3>2. CASE v.doc = d /\ v.text = Live
      BY <1>7, <1>8, <3>1, <3>2, TextsFacts
    <3>3. CASE ~ (v.doc = d /\ v.text = Live)
      BY <1>2, <1>7, <3>1, <3>3 DEF RunsInv
    <3> QED
      BY <3>2, <3>3
  <2>2. ASSUME NEW v \in validating, v.doc = d
        PROVE  v.awaits <= p /\ (v.awaits = p => v.text = Live)
    BY <1>2, <1>6, <1>9, <1>11, <2>2 DEF RunsInv
  <2>3. ASSUME NEW v \in validating', NEW w \in validating', v.doc = w.doc
        PROVE  /\ v.text = Live /\ w.text # Live => w.awaits < v.awaits
               /\ v.text # Live /\ w.text # Live /\ v.awaits <= w.awaits => v.text <= w.text
    <3>1. CASE v \in validating /\ w \in validating
      BY <1>2, <2>3, <3>1 DEF RunsInv
    <3>2. CASE v \notin validating
      <4>1. v.doc = d /\ v.awaits = p /\ v.text = Live
        BY <1>7, <3>2
      <4>2. ASSUME w.text # Live
            PROVE  w.awaits < p
        <5>1. w \in validating /\ w.doc = d
          BY <1>7, <2>3, <4>1, <4>2
        <5>2. w.awaits <= p /\ w.awaits # p
          BY <2>2, <4>2, <5>1
        <5>3. w.awaits \in Nat
          BY <1>11, <5>1
        <5> QED
          BY <5>2, <5>3
      <4> QED
        BY <4>1, <4>2
    <3>3. CASE w \notin validating
      BY <1>7, <2>3, <3>2, <3>3
    <3> QED
      BY <3>1, <3>2, <3>3
  <2>4. ASSUME NEW v \in validating', documentSettings'[v.doc] # NoPromise
        PROVE  /\ v.awaits <= documentSettings'[v.doc]
               /\ v.awaits = documentSettings'[v.doc] => v.text = Live
    <3>1. v \in validating => v.doc \in Docs
      BY <1>11
    <3>2. CASE v.doc # d
      BY <1>2, <1>6, <1>7, <2>4, <3>1, <3>2 DEF RunsInv
    <3>3. CASE v.doc = d /\ configuration
      BY <1>6, <1>7, <2>2, <3>3
    <3>4. CASE v.doc = d /\ ~ configuration
      <4>1. documentSettings[d] = NoPromise
        BY <1>3, <3>4 DEF OrderInv, HandshakeInv
      <4> QED
        BY <1>6, <2>4, <3>4, <4>1
    <3> QED
      BY <3>2, <3>3, <3>4
  <2>5. ASSUME ~ configuration, NEW v \in validating'
        PROVE  /\ v.text = Live /\ Settled(v.awaits)'
               /\ \A q : q = v.awaits => EpochOf(q)' = globalSettings.epoch
    <3>1. CASE v \in validating
      BY <1>2, <1>6, <1>11, <2>5, <3>1 DEF RunsInv
    <3>2. CASE v \notin validating
      <4>1. v.awaits = p /\ v.text = Live
        BY <1>7, <3>2
      <4> QED
        BY <1>9, <2>5, <4>1
    <3> QED
      BY <3>1, <3>2
  <2>6. ASSUME configuration, NEW v \in validating', Settled(v.awaits)'
        PROVE  v.doc = d /\ v.awaits = p /\ revalidate' = {}
    <3>1. v \notin validating
      BY <1>6, <1>8, <1>11, <2>6
    <3>2. v.doc = d /\ v.awaits = p
      BY <1>7, <3>1
    <3>3. documentSettings[d] # NoPromise
      BY <1>9, <2>6, <3>2
    <3> QED
      BY <1>8, <3>2, <3>3
  <2>7. configuration => \A c \in revalidate' : documentSettings'[c] = NoPromise
    <3>1. revalidate' \subseteq Docs
      BY <1>8 DEF SettingsInv, TypeOK
    <3> QED
      BY <1>2, <1>6, <1>8, <3>1 DEF RunsInv
  <2> QED
    BY <1>1, <2>1, <2>3, <2>4, <2>5, <2>6, <2>7 DEF RunsInv
<1>13. ASSUME configuration, NEW q \in 1 .. Len(promises'), Settled(q)'
       PROVE  q \in 1 .. Len(promises) /\ Settled(q) /\ EpochOf(q)' = EpochOf(q)
  BY <1>6, <1>9, <1>13
<1>14. PromiseInv'
  <2>1. ASSUME NEW m \in Contents(toClient'), AboutSettings(m)
        PROVE  /\ m.id \in 1 .. Len(promises')
               /\ m \in Contents(toClient) \/ m.id = Len(promises) + 1
    <3>1. CASE m \in Contents(toClient)
      BY <1>2, <1>6, <2>1, <3>1 DEF PromiseInv
    <3>2. CASE AwaitsRequest(d, p) /\ m.id = p
      BY <1>6, <3>2 DEF AwaitsRequest
    <3> QED
      BY <1>5, <2>1, <3>1, <3>2
  <2>2. ASSUME NEW m \in Contents(toServer'), AboutSettings(m)
        PROVE  m \in Contents(toServer) /\ m.id \in 1 .. Len(promises) /\ m.id \in 1 .. Len(promises')
    BY <1>2, <1>6, <1>8, <2>2 DEF PromiseInv
  <2>3. ASSUME NEW m \in Contents(toServer'), NEW x \in Contents(toClient'),
               AboutSettings(m), AboutSettings(x)
        PROVE  m.id < x.id
    BY <1>2, <1>6, <2>1, <2>2, <2>3 DEF PromiseInv
  <2>4. ASSUME configuration, NEW q \in 1 .. Len(promises'), Settled(q)'
        PROVE  /\ EpochOf(q)' <= epoch
               /\ \A m \in Contents(toServer') : Dated(m) => EpochOf(q)' <= m.epoch
               /\ \A m \in Contents(toServer') : AboutSettings(m) => q < m.id
               /\ \A m \in Contents(toClient') : AboutSettings(m) => q < m.id
               /\ \A r \in 1 .. Len(promises') : Settled(r)' /\ q <= r => EpochOf(q)' <= EpochOf(r)'
    <3>1. q \in 1 .. Len(promises) /\ Settled(q) /\ EpochOf(q)' = EpochOf(q)
      BY <1>13, <2>4
    <3>2. /\ EpochOf(q) <= epoch
          /\ \A m \in Contents(toServer') : Dated(m) => EpochOf(q) <= m.epoch
          /\ \A m \in Contents(toServer') : AboutSettings(m) => q < m.id
      BY <1>2, <1>8, <2>4, <3>1 DEF PromiseInv
    <3>3. \A m \in Contents(toClient') : AboutSettings(m) => q < m.id
      BY <1>2, <1>6, <2>1, <2>4, <3>1 DEF PromiseInv
    <3>4. ASSUME NEW r \in 1 .. Len(promises'), Settled(r)', q <= r
          PROVE  EpochOf(q)' <= EpochOf(r)'
      <4>1. r \in 1 .. Len(promises) /\ Settled(r) /\ EpochOf(r)' = EpochOf(r)
        BY <1>13, <2>4, <3>4
      <4> QED
        BY <1>2, <2>4, <3>1, <3>4, <4>1 DEF PromiseInv
    <3> QED
      BY <3>1, <3>2, <3>3, <3>4
  <2> QED
    BY <1>1, <2>1, <2>2, <2>3, <2>4 DEF PromiseInv
<1>15. EpochInv'
  <2>1. ASSUME NEW c \in Docs, NEW e \in ShownEpochs(c)
        PROVE  /\ e <= epoch
               /\ ~ configuration => e <= globalSettings.epoch
               /\ \A m \in Contents(toServer') : Dated(m) => e <= m.epoch
    BY <1>2, <1>8, <2>1 DEF EpochInv
  <2>2. ASSUME NEW c \in Docs, NEW e \in ShownEpochs(c), CachedSettled(c)'
        PROVE  \A q : q = documentSettings'[c] => e <= EpochOf(q)'
    <3>1. configuration
      BY <1>3, <1>6, <2>2 DEF OrderInv, HandshakeInv, CachedSettled
    <3>2. \A q : q = documentSettings'[c] => Settled(q)'
      BY <2>2 DEF CachedSettled, Settled
    <3>3. documentSettings'[c] \in 1 .. Len(promises) /\ documentSettings'[c] = documentSettings[c]
      <4>1. CASE c = d
        BY <1>6, <1>9, <3>1, <3>2, <4>1
      <4>2. CASE c # d
        BY <1>6, <2>2, <4>2, NumberFacts DEF CachedSettled, NoPromise
      <4> QED
        BY <4>1, <4>2
    <3>4. PICK q \in 1 .. Len(promises) : q = documentSettings'[c] /\ q = documentSettings[c]
      BY <3>3
    <3>5. Settled(q) /\ EpochOf(q)' = EpochOf(q) /\ q # NoPromise
      BY <1>6, <3>2, <3>4 DEF NoPromise
    <3>6. CachedSettled(c) /\ EpochOf(documentSettings[c]) = EpochOf(q)
      BY <3>4, <3>5 DEF CachedSettled
    <3> QED
      BY <1>2, <2>2, <3>4, <3>5, <3>6 DEF EpochInv
  <2>3. ASSUME NEW v \in validating', Settled(v.awaits)', NEW c \in Docs, v.doc = c,
               NEW e \in ShownEpochs(c)
        PROVE  \A q : q = v.awaits => e <= EpochOf(q)'
    <3>1. CASE v \in validating
      BY <1>2, <1>6, <1>11, <2>3, <3>1 DEF EpochInv
    <3>2. CASE v \notin validating /\ configuration
      <4>1. v.awaits = p /\ c = d
        BY <1>7, <2>3, <3>2
      <4>2. documentSettings'[d] = p /\ documentSettings[d] # NoPromise /\ p # NoPromise
        BY <1>6, <1>9, <2>3, <3>2, <4>1
      <4>3. CachedSettled(d)'
        BY <2>3, <4>1, <4>2 DEF CachedSettled, Settled
      <4> QED
        BY <2>2, <2>3, <4>1, <4>2, <4>3
    <3>3. CASE v \notin validating /\ ~ configuration
      <4>1. v.awaits = p /\ EpochOf(p)' = globalSettings.epoch
        BY <1>7, <1>9, <3>3
      <4> QED
        BY <2>1, <2>3, <3>3, <4>1
    <3> QED
      BY <3>1, <3>2, <3>3
  <2>4. /\ \A m \in Contents(toServer') : Dated(m) => m.epoch <= epoch
        /\ ~ configuration =>
             /\ globalSettings.epoch <= epoch
             /\ \A m \in Contents(toServer') : Dated(m) => globalSettings.epoch <= m.epoch
    BY <1>2, <1>8 DEF EpochInv
  <2> QED
    BY <1>1, <1>5, <1>8, <2>1, <2>2, <2>3, <2>4 DEF EpochInv, ShownKeeps
<1>16. LimitInv'
  <2>1. ASSUME NEW q \in 1 .. Len(promises'), promises'[q].state = "value"
        PROVE  promises'[q].settings.max = LimitAt(promises'[q].settings.epoch)
    <3>1. CASE q \in 1 .. Len(promises)
      BY <1>2, <1>4, <2>1, <3>1 DEF LimitInv, EpochOf, Started
    <3>2. CASE q = p /\ q \notin 1 .. Len(promises)
      BY <1>8, <1>9, <2>1, <3>2 DEF GlobalRight
    <3> QED
      BY <1>6, <3>1, <3>2
  <2>2. ~ configuration => GlobalRight'
    BY <1>1, <1>8 DEF GlobalRight
  <2>3. \A q \in 1 .. Len(promises') : promises'[q].state = "value" =>
          promises'[q].settings.max = LimitAt(EpochOf(q)')
    BY <2>1 DEF EpochOf
  <2> QED
    BY <1>1, <1>8, <2>2, <2>3 DEF LimitInv
<1> QED
  BY <1>5, <1>10, <1>12, <1>14, <1>15, <1>16 DEF ContractInv

(***************************************************************************)
(* The server validates the document it was told of, or that it revisits.  *)
(***************************************************************************)
LEMMA TextKeepsContract ==
  ASSUME SettingsInv, OrderInv, ContractInv, UNCHANGED clientVars,
         OnDidOpen \/ OnDidChangeContent
  PROVE  ContractInv'
<1>1. PICK type \in {"didOpen", "didChange"} : Reads(type)
  BY DEF OnDidOpen, OnDidChangeContent
<1>2. PICK m \in Contents(toServer) : m = Head(toServer)
  BY <1>1, ReadingFacts
<1>3. /\ Idle /\ m.type \in {"didOpen", "didChange"} /\ BringsText(m)
      /\ m \in ToServerMessage /\ m.doc \in Docs /\ m.version \in Versions
      /\ Contents(toServer') \subseteq Contents(toServer) /\ InServerOrder(toServer')
      /\ \A x \in Contents(toServer') : ServerOrder(m, x)
      /\ connection = "running" /\ (~ configuration => GlobalRight)
  <2>1. m.type \in {"didOpen", "didChange"} /\ BringsText(m)
    BY <1>1, <1>2, ReadingFacts DEF BringsText
  <2>2. m \in ToServerMessage
    BY ToServerFacts
  <2> QED
    BY <1>1, <1>2, <2>1, <2>2, ToServerFields, ReadingFacts, ReadingLimits
<1>4. /\ documents' = [documents EXCEPT ![m.doc] = m.version]
      /\ StartValidation(m.doc)
      /\ UNCHANGED <<globalSettings, revalidate>>
  BY <1>2 DEF OnDidOpen, OnDidChangeContent
<1>5. /\ m.version <= version[m.doc]
      /\ \A n \in Texts(m.doc) : n <= m.version
      /\ documents[m.doc] # Closed => documents[m.doc] <= m.version
  BY <1>3 DEF ContractInv, TextInv
<1>6. revalidate = {} /\ \A v \in validating : ~ Settled(v.awaits)
  BY <1>3 DEF Idle
<1>7. Starts(m.doc, m.version)
  BY <1>3, <1>4, <1>5, <1>6 DEF Starts, ServerOrder
<1> QED
  BY <1>3, <1>4, <1>7, StartKeepsContract

LEMMA RevalidateKeepsContract ==
  ASSUME SettingsInv, OrderInv, ContractInv, UNCHANGED clientVars,
         NEW d \in Docs, RevalidateOne(d)
  PROVE  ContractInv'
<1>1. /\ d \in revalidate /\ revalidate' = revalidate \ {d}
      /\ StartValidation(d)
      /\ documents' = documents /\ toServer' = toServer /\ globalSettings' = globalSettings
  BY DEF RevalidateOne
<1>2. TextInv /\ RunsInv /\ EpochInv /\ LimitInv
  BY DEF ContractInv
<1>3. /\ documents[d] # Closed /\ documents[d] \in Versions /\ OpenDocuments # {}
      /\ documents = [documents EXCEPT ![d] = documents[d]]
      /\ documents[d] \in Nat
  BY <1>1, BoundAssumption DEF SettingsInv, RevalidatesOpenDocuments, OpenDocuments, TypeOK, Versions
<1>4. /\ documents[d] <= version[d] /\ \A t \in Texts(d) : t <= documents[d]
      /\ \A m \in Contents(toServer') : BringsText(m) /\ m.doc = d => documents[d] <= m.version
  BY <1>1, <1>2, <1>3 DEF TextInv
<1>5. /\ configuration => \A v \in validating : ~ Settled(v.awaits)
      /\ documentSettings[d] = NoPromise
  BY <1>1, <1>2 DEF RunsInv, OrderInv, HandshakeInv
<1>6. connection = "running" /\ (~ configuration => GlobalRight)
  BY <1>2, <1>3 DEF LimitInv
<1>7. Starts(d, documents[d])
  BY <1>1, <1>2, <1>3, <1>4, <1>5, <1>6 DEF Starts, EpochInv
<1> QED
  BY <1>1, <1>3, <1>7, StartKeepsContract

LEMMA ServerKeepsContract ==
  ASSUME SettingsInv, PromisesAnswered, OrderInv, ContractInv, ServerNext, UNCHANGED clientVars
  PROVE  ContractInv'
BY HandshakeKeepsContract, TextKeepsContract, CloseKeepsContract, ChangeKeepsContract,
   AnswerKeepsContract, RevalidateKeepsContract, ResumeKeepsContract DEF ServerNext

-----------------------------------------------------------------------------
(***************************************************************************)
(* Texts, configurations and limits stay in order through every session    *)
(* (server.ts:99-166).                                                     *)
(***************************************************************************)
THEOREM ContractInvariant == Spec => []ContractInv
<1>1. Init => ContractInv
  <2> SUFFICES ASSUME Init PROVE ContractInv
    OBVIOUS
  <2>1. /\ toServer = << >> /\ toClient = << >> /\ validating = {} /\ revalidate = {}
        /\ promises = << >> /\ epoch = 0 /\ connection # "running"
        /\ globalSettings.epoch = 0
        /\ \A d \in Docs : /\ version[d] = 0 /\ documents[d] = Closed
                           /\ displayed[d] = None /\ documentSettings[d] = NoPromise
    BY DEF Init, ClientInit, ServerInit, defaultSettings
  <2>2. /\ Contents(<< >>) = {} /\ InClientOrder(<< >>) /\ InServerOrder(<< >>)
        /\ OnlyAfter(<< >>, {"didOpen", "didChange"}, "didChangeConfiguration")
        /\ Len(promises) = 0
    BY <2>1 DEF Contents, InClientOrder, InServerOrder, OnlyAfter
  <2>3. \A d \in Docs : Texts(d) = {0} /\ ShownEpochs(d) = {0}
    BY <2>1, <2>2 DEF Texts, ShownTexts, ShownEpochs, Contract!FirstVersion, Contract!FirstEpoch
  <2>4. PublishedInv
    BY <2>1, <2>2 DEF PublishedInv
  <2>5. TextInv
    BY <2>1, <2>2, <2>3 DEF TextInv
  <2>6. RunsInv
    BY <2>1 DEF RunsInv
  <2>7. PromiseInv
    BY <2>1, <2>2 DEF PromiseInv
  <2>8. EpochInv
    BY <2>1, <2>2, <2>3 DEF EpochInv, CachedSettled
  <2>9. LimitInv
    <3>1. OpenDocuments = {}
      BY <2>1 DEF OpenDocuments
    <3> QED
      BY <2>1, <2>2, <3>1 DEF LimitInv
  <2> QED
    BY <2>4, <2>5, <2>6, <2>7, <2>8, <2>9 DEF ContractInv
<1>2. SettingsInv /\ PromisesAnswered /\ OrderInv /\ ContractInv /\ [Next]_vars => ContractInv'
  <2> SUFFICES ASSUME SettingsInv, PromisesAnswered, OrderInv, ContractInv, [Next]_vars
               PROVE  ContractInv'
    OBVIOUS
  <2>1. CASE UNCHANGED vars
    BY <2>1 DEF vars, channels, clientVars, serverVars, ContractInv, PublishedInv, TextInv,
       RunsInv, PromiseInv, EpochInv, LimitInv, Texts, ShownTexts, ShownEpochs, TextOf,
       EpochOf, Settled, CachedSettled, GlobalRight, OpenDocuments,
       Contract!FirstVersion, Contract!FirstEpoch
  <2>2. CASE ServerStep
    BY <2>2, ServerKeepsContract DEF ServerStep
  <2>3. CASE ClientStep
    BY <2>3, ClientKeepsContract DEF ClientStep
  <2>4. CASE UserStep
    BY <2>4, UserKeepsContract DEF UserStep
  <2> QED
    BY <2>1, <2>2, <2>3, <2>4 DEF Next
<1> QED
  BY <1>1, <1>2, SettingsInvariant, PromisesInvariant, OrderInvariant, PTL DEF Spec

(***************************************************************************)
(* What is displayed is later than what was, and right for its text and    *)
(* configuration.                                                          *)
(***************************************************************************)
LEMMA PublicationRefreshes ==
  ASSUME SettingsInv, ContractInv, OnPublishDiagnostics
  PROVE  displayed' = displayed \/ \E d \in Docs : Contract!Refresh(d)
<1>1. PICK m \in Contents(toClient) : m = Head(toClient)
  BY TakenFacts DEF OnPublishDiagnostics
<1>2. ShowsDiagnostics(m) /\ m.doc \in Docs /\ m.version \in Nat /\ m.epoch \in Nat
  BY <1>1, TakenFacts, ToClientFacts DEF OnPublishDiagnostics, ShowsDiagnostics
<1> DEFINE shown == [version |-> m.version, epoch |-> m.epoch, count |-> m.count]
<1>3. displayed' = [displayed EXCEPT ![m.doc] = shown]
  BY <1>1 DEF OnPublishDiagnostics
<1>4. shown = Contract!Shown(m.version, m.epoch)
  BY <1>2 DEF ContractInv, PublishedInv, Contract!Shown, Contract!Lower, Lesser
<1>5. /\ m.version \in Contract!FirstVersion(m.doc) .. version[m.doc]
      /\ m.epoch \in Contract!FirstEpoch(m.doc) .. epoch
  <2>1. m.version \in Texts(m.doc) /\ m.epoch \in ShownEpochs(m.doc)
    BY <1>2, TextsFacts
  <2>2. m.version <= version[m.doc] /\ m.epoch <= epoch
    BY <1>2, <2>1 DEF ContractInv, TextInv, EpochInv
  <2>3. Contract!FirstVersion(m.doc) <= m.version /\ Contract!FirstEpoch(m.doc) <= m.epoch
    BY <1>2 DEF ContractInv, PublishedInv
  <2> QED
    BY <1>2, <2>2, <2>3, NumberFacts
<1> HIDE DEF shown
<1>6. CASE displayed[m.doc] = shown
  BY <1>2, <1>3, <1>6 DEF SettingsInv, TypeOK
<1>7. CASE displayed[m.doc] # shown
  <2>1. UNCHANGED <<connection = "running", opened, version, epoch>>
    BY DEF OnPublishDiagnostics
  <2> QED
    BY <1>2, <1>3, <1>4, <1>5, <1>7, <2>1 DEF Contract!Refresh
<1> QED
  BY <1>6, <1>7

(***************************************************************************)
(* A session implements the safety half of its contract (README.md:9): the *)
(* diagnostics displayed are right for a text and a configuration the      *)
(* document had, and go back in neither.                                   *)
(***************************************************************************)
THEOREM DiagnosticsInOrder == Spec => DiagnosticsMoveForward
<1>1. Init => Contract!Init
  BY DEF Init, ClientInit, Contract!Init
<1>2. SettingsInv /\ ContractInv /\ [Next]_vars => [Contract!Next]_Contract!contractVars
  <2> SUFFICES ASSUME SettingsInv, ContractInv, [Next]_vars
               PROVE  [Contract!Next]_Contract!contractVars
    OBVIOUS
  <2>1. CASE UNCHANGED vars \/ ServerStep
    BY <2>1 DEF vars, clientVars, ServerStep, Contract!contractVars
  <2>2. CASE OnPublishDiagnostics
    <3>1. UNCHANGED <<connection, opened, version, epoch>>
      BY <2>2 DEF OnPublishDiagnostics
    <3> QED
      BY <2>2, <3>1, PublicationRefreshes DEF Contract!contractVars, Contract!Next
  <2>3. CASE OnInitializeResult
    BY <2>3 DEF OnInitializeResult, Contract!contractVars, Contract!Next, Contract!Serve
  <2>4. CASE Activate
    BY <2>4 DEF Activate, Contract!contractVars
  <2>5. ASSUME OnRegisterCapability \/ OnConfigurationRequest \/ \E d \in Docs : SyncOpen(d)
        PROVE  UNCHANGED Contract!contractVars
    BY <2>5 DEF OnRegisterCapability, OnConfigurationRequest, SyncOpen, clientVars,
       Contract!contractVars
  <2>6. CASE UserStep
    <3>1. ASSUME NEW d \in Docs, UserOpen(d)
          PROVE  Contract!Open(d)
      BY <3>1 DEF UserOpen, UserActs, Contract!Open
    <3>2. ASSUME NEW d \in Docs, UserEdit(d)
          PROVE  Contract!Edit(d)
      BY <3>2 DEF UserEdit, UserActs, Contract!Edit
    <3>3. ASSUME NEW d \in Docs, UserClose(d)
          PROVE  Contract!Close(d)
      BY <3>3 DEF UserClose, UserActs, Contract!Close
    <3>4. UserConfigure => Contract!Configure
      BY DEF UserConfigure, UserActs, Contract!Configure
    <3> QED
      BY <2>6, <3>1, <3>2, <3>3, <3>4 DEF UserStep, UserNext, Contract!Next
  <2> QED
    BY <2>1, <2>2, <2>3, <2>4, <2>5, <2>6 DEF Next, ClientStep, ClientNext
<1> QED
  BY <1>1, <1>2, SettingsInvariant, ContractInvariant, PTL
     DEF Spec, DiagnosticsMoveForward, Contract!Safety
=============================================================================
