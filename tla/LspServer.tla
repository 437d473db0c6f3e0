----------------------------- MODULE LspServer -----------------------------
(***************************************************************************)
(* The language server, server/src/server.ts: a single-threaded Node       *)
(* program.  A handler runs to completion, its promise continuations       *)
(* (microtasks) run next, and only then is another message read: Idle.     *)
(* validateTextDocument suspends at its await, so other messages are read  *)
(* between its first half (the actions that start a validation) and its    *)
(* second half (Resume), which reads the text of the document as it is     *)
(* when it resumes.                                                        *)
(*                                                                         *)
(* Two runs of validateTextDocument suspended on one promise for one       *)
(* document publish the same diagnostics one after the other; validating   *)
(* is a set, so the model publishes them once.                             *)
(***************************************************************************)
EXTENDS LspProtocol

CONSTANTS
  Closed,             \* a document the manager does not hold
  Live                \* a suspended validation whose document is still managed

ASSUME ClosedAssumption == Closed \notin Nat /\ Live \notin Nat

VARIABLES
  hasConfigurationCapability,
  globalSettings,     \* the settings used without that capability
  documents,          \* documents[d]: version held by the manager, or Closed
  documentSettings,   \* documentSettings[d]: index of the cached promise, or 0
  promises,           \* every promise of settings handed out so far
  validating,         \* validations suspended at their await
  revalidate          \* documents onDidChangeConfiguration has still to visit

serverVars == <<hasConfigurationCapability, globalSettings, documents,
                documentSettings, promises, validating, revalidate>>

NoPromise == 0

defaultSettings == [epoch |-> 0, max |-> DefaultLimit]

Promise == [state : {"pending"} \cup Outcomes, settings : Settings]

Validation == [doc : Docs, awaits : Nat, text : Versions \cup {Live}]

ServerInit ==
  /\ hasConfigurationCapability = FALSE
  /\ globalSettings = defaultSettings
  /\ documents = [d \in Docs |-> Closed]
  /\ documentSettings = [d \in Docs |-> NoPromise]
  /\ promises = << >>
  /\ validating = {}
  /\ revalidate = {}

OpenDocuments == {d \in Docs : documents[d] # Closed}

Settled(p) == promises[p].state # "pending"

(***************************************************************************)
(* No handler and no continuation is running: the next message is read.    *)
(***************************************************************************)
Idle ==
  /\ revalidate = {}
  /\ \A v \in validating : ~ Settled(v.awaits)

Await(d, p) ==
  validating' = validating \cup {[doc |-> d, awaits |-> p, text |-> Live]}

(***************************************************************************)
(* validateTextDocument up to its await, with getDocumentSettings: the     *)
(* global settings, the cached promise (whatever its state), or a new      *)
(* request whose promise is cached at once.                                *)
(***************************************************************************)
UseGlobalSettings(d) ==
  /\ ~ hasConfigurationCapability
  /\ promises' = Append(promises, [state |-> "value", settings |-> globalSettings])
  /\ Await(d, Len(promises) + 1)
  /\ UNCHANGED documentSettings
  /\ toClient' = toClient

UseCachedSettings(d) ==
  /\ hasConfigurationCapability
  /\ documentSettings[d] # NoPromise
  /\ Await(d, documentSettings[d])
  /\ UNCHANGED <<promises, documentSettings>>
  /\ toClient' = toClient

RequestSettings(d) ==
  /\ hasConfigurationCapability
  /\ documentSettings[d] = NoPromise
  /\ promises' = Append(promises, [state |-> "pending", settings |-> defaultSettings])
  /\ documentSettings' = [documentSettings EXCEPT ![d] = Len(promises) + 1]
  /\ Await(d, Len(promises) + 1)
  /\ toClient' = Append(toClient,
                   [type |-> "configuration", id |-> Len(promises) + 1, doc |-> d])

StartValidation(d) ==
  UseGlobalSettings(d) \/ UseCachedSettings(d) \/ RequestSettings(d)

(***************************************************************************)
(* The rest of validateTextDocument once its promise is settled.  The text *)
(* is read now; a run whose document was closed still holds the old object *)
(* and so the text of that object.  A rejected promise throws, and so does *)
(* reading maxNumberOfProblems of null, which only happens at the first    *)
(* uppercase word.                                                         *)
(***************************************************************************)
TextOf(v) == IF v.text = Live THEN documents[v.doc] ELSE v.text

Publishes(v) ==
  LET p == promises[v.awaits]
  IN  \/ p.state = "value"
      \/ p.state = "null" /\ Words[TextOf(v)] = 0

\* Variant: the loop reports one problem more than the limit.
DiagnosticsPastLimit(v) ==
  LET settings == promises[v.awaits].settings
  IN  [type |-> "publishDiagnostics", doc |-> v.doc, version |-> TextOf(v),
       epoch |-> settings.epoch,
       count |-> Lesser(Words[TextOf(v)], settings.max + 1)]

Diagnostics(v) ==
  LET settings == promises[v.awaits].settings
  IN  [type |-> "publishDiagnostics", doc |-> v.doc, version |-> TextOf(v),
       epoch |-> settings.epoch,
       count |-> Lesser(Words[TextOf(v)], settings.max)]

Resume(v) ==
  /\ Settled(v.awaits)
  /\ validating' = validating \ {v}
  /\ toClient' = IF Publishes(v) THEN Append(toClient, Diagnostics(v)) ELSE toClient
  /\ UNCHANGED <<hasConfigurationCapability, globalSettings, documents,
                 documentSettings, promises, revalidate, toServer>>

(***************************************************************************)
(* Handlers, one per message.  Reads takes the message off the channel.    *)
(***************************************************************************)
Reads(type) ==
  /\ Idle
  /\ Receives(toServer, type)
  /\ toServer' = Tail(toServer)

OnInitialize ==
  /\ Reads("initialize")
  /\ hasConfigurationCapability' = Head(toServer).configuration
  /\ toClient' = Append(toClient, [type |-> "initializeResult"])
  /\ UNCHANGED <<globalSettings, documents, documentSettings, promises,
                 validating, revalidate>>

\* Variant: the server never registers for configuration changes.
OnInitializedUnregistered ==
  /\ Reads("initialized")
  /\ UNCHANGED <<serverVars, toClient>>

OnInitialized ==
  /\ Reads("initialized")
  /\ toClient' = IF hasConfigurationCapability
                 THEN Append(toClient, [type |-> "registerCapability"])
                 ELSE toClient
  /\ UNCHANGED serverVars

OnDidOpen ==
  /\ Reads("didOpen")
  /\ documents' = [documents EXCEPT ![Head(toServer).doc] = Head(toServer).version]
  /\ StartValidation(Head(toServer).doc)
  /\ UNCHANGED <<hasConfigurationCapability, globalSettings, revalidate>>

OnDidChangeContent ==
  /\ Reads("didChange")
  /\ documents' = [documents EXCEPT ![Head(toServer).doc] = Head(toServer).version]
  /\ StartValidation(Head(toServer).doc)
  /\ UNCHANGED <<hasConfigurationCapability, globalSettings, revalidate>>

(***************************************************************************)
(* The manager forgets the document, then the listener drops its settings. *)
(* Suspended validations keep the text object they were given.             *)
(***************************************************************************)
Detach(v, d) ==
  IF v.doc = d /\ v.text = Live
  THEN [doc |-> d, awaits |-> v.awaits, text |-> documents[d]]
  ELSE v

\* Variant: closing a document keeps its settings.
OnDidCloseKeepsSettings ==
  /\ Reads("didClose")
  /\ LET d == Head(toServer).doc
     IN  /\ documents' = [documents EXCEPT ![d] = Closed]
         /\ validating' = {Detach(v, d) : v \in validating}
  /\ UNCHANGED <<hasConfigurationCapability, globalSettings, documentSettings,
                 promises, revalidate, toClient>>

OnDidClose ==
  /\ Reads("didClose")
  /\ LET d == Head(toServer).doc
     IN  /\ documents' = [documents EXCEPT ![d] = Closed]
         /\ documentSettings' = [documentSettings EXCEPT ![d] = NoPromise]
         /\ validating' = {Detach(v, d) : v \in validating}
  /\ UNCHANGED <<hasConfigurationCapability, globalSettings, promises,
                 revalidate, toClient>>

(***************************************************************************)
(* The settings the notification carries: without the section the server   *)
(* falls back to defaultSettings.                                          *)
(***************************************************************************)
\* Variant: without the section nothing takes the place of the settings.
PushedWithoutDefault(e) == [epoch |-> e, max |-> Limit[e]]

Pushed(e) ==
  [epoch |-> e, max |-> IF Limit[e] = NoSection THEN DefaultLimit ELSE Limit[e]]

\* Variant: a configuration change does not clear the cache.
OnDidChangeConfigurationKeepsCache ==
  /\ Reads("didChangeConfiguration")
  /\ globalSettings' = IF hasConfigurationCapability THEN globalSettings
                       ELSE Pushed(Head(toServer).epoch)
  /\ revalidate' = OpenDocuments
  /\ UNCHANGED <<hasConfigurationCapability, documents, documentSettings,
                 promises, validating, toClient>>

\* Variant: a configuration change does not revalidate the open documents.
OnDidChangeConfigurationNoRevalidation ==
  /\ Reads("didChangeConfiguration")
  /\ IF hasConfigurationCapability
     THEN /\ documentSettings' = [d \in Docs |-> NoPromise]
          /\ UNCHANGED globalSettings
     ELSE /\ globalSettings' = Pushed(Head(toServer).epoch)
          /\ UNCHANGED documentSettings
  /\ UNCHANGED <<hasConfigurationCapability, documents, promises, validating,
                 revalidate, toClient>>

OnDidChangeConfiguration ==
  /\ Reads("didChangeConfiguration")
  /\ IF hasConfigurationCapability
     THEN /\ documentSettings' = [d \in Docs |-> NoPromise]
          /\ UNCHANGED globalSettings
     ELSE /\ globalSettings' = Pushed(Head(toServer).epoch)
          /\ UNCHANGED documentSettings
  /\ revalidate' = OpenDocuments
  /\ UNCHANGED <<hasConfigurationCapability, documents, promises, validating,
                 toClient>>

(***************************************************************************)
(* One turn of documents.all().forEach(validateTextDocument), in any order.*)
(***************************************************************************)
RevalidateOne(d) ==
  /\ d \in revalidate
  /\ revalidate' = revalidate \ {d}
  /\ StartValidation(d)
  /\ UNCHANGED <<hasConfigurationCapability, globalSettings, documents, toServer>>

(***************************************************************************)
(* The answer to a workspace/configuration request settles its promise.    *)
(***************************************************************************)
Received(m) ==
  [state |-> m.outcome,
   settings |-> [epoch |-> m.epoch,
                 max |-> IF m.outcome = "value" THEN Limit[m.epoch] ELSE 0]]

\* Variant: an answer is dropped once its promise is no longer cached.
OnConfigurationDropsUncached ==
  /\ Reads("configuration")
  /\ promises' = IF \E d \in Docs : documentSettings[d] = Head(toServer).id
                 THEN [promises EXCEPT ![Head(toServer).id] = Received(Head(toServer))]
                 ELSE promises
  /\ UNCHANGED <<hasConfigurationCapability, globalSettings, documents,
                 documentSettings, validating, revalidate, toClient>>

OnConfiguration ==
  /\ Reads("configuration")
  /\ promises' = [promises EXCEPT ![Head(toServer).id] = Received(Head(toServer))]
  /\ UNCHANGED <<hasConfigurationCapability, globalSettings, documents,
                 documentSettings, validating, revalidate, toClient>>

ServerNext ==
  \/ OnInitialize
  \/ OnInitialized
  \/ OnDidOpen
  \/ OnDidChangeContent
  \/ OnDidClose
  \/ OnDidChangeConfiguration
  \/ OnConfiguration
  \/ \E d \in Docs : RevalidateOne(d)
  \/ \E v \in validating : Resume(v)
=============================================================================
