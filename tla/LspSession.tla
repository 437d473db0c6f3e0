----------------------------- MODULE LspSession -----------------------------
(***************************************************************************)
(* One session of the extension: the language client and the language      *)
(* server, each taking its own steps, over the connection of LspProtocol.  *)
(***************************************************************************)
EXTENDS LspClient, LspServer

vars == <<channels, clientVars, serverVars>>

Init ==
  /\ toServer = << >>
  /\ toClient = << >>
  /\ ClientInit
  /\ ServerInit

ServerStep == ServerNext /\ UNCHANGED clientVars
ClientStep == ClientNext /\ UNCHANGED serverVars
UserStep == UserNext /\ UNCHANGED serverVars

Next == ServerStep \/ ClientStep \/ UserStep

(***************************************************************************)
(* The event loops of the server and of the editor go on as long as they   *)
(* have something to do; nothing is assumed of the user.                   *)
(***************************************************************************)
Fairness ==
  /\ WF_vars(ServerStep)
  /\ WF_vars(ClientStep)

Spec == Init /\ [][Next]_vars

FairSpec == Spec /\ Fairness

-----------------------------------------------------------------------------
(***************************************************************************)
(* Types of the variables of both sides and of the messages in flight      *)
(* (server.ts:31-96).                                                      *)
(***************************************************************************)
TypeOK ==
  /\ toServer \in Seq(ToServerMessage)
  /\ toClient \in Seq(ToClientMessage)
  /\ opened \in SUBSET Docs
  /\ version \in [Docs -> Versions]
  /\ epoch \in Epochs
  /\ operations \in 0 .. MaxOperations
  /\ connection \in {"inactive", "starting", "running"}
  /\ configuration \in BOOLEAN
  /\ registered \in BOOLEAN
  /\ synced \in SUBSET Docs
  /\ displayed \in [Docs -> Display \cup {None}]
  /\ hasConfigurationCapability \in BOOLEAN
  /\ globalSettings \in Settings
  /\ documents \in [Docs -> Versions \cup {Closed}]
  /\ documentSettings \in [Docs -> 0 .. Len(promises)]
  /\ promises \in Seq(Promise)
  /\ \A v \in validating : v \in Validation /\ v.awaits \in 1 .. Len(promises)
  /\ revalidate \in SUBSET Docs

(***************************************************************************)
(* server.ts:127 says "Only keep settings for open documents": the cache   *)
(* holds no promise for a document the manager does not hold, whatever     *)
(* closes while requests and validations are in flight.                    *)
(***************************************************************************)
OnlySettingsOfOpenDocuments ==
  \A d \in Docs : documentSettings[d] # NoPromise => documents[d] # Closed

(***************************************************************************)
(* What makes these two inductive: counters bounded by the operations, a   *)
(* revalidation that only visits managed documents, and suspended runs     *)
(* detached from the documents that were closed under them.                *)
(***************************************************************************)
CountersBounded ==
  /\ \A d \in Docs : version[d] <= operations
  /\ epoch <= operations

RevalidatesOpenDocuments == revalidate \subseteq OpenDocuments

LiveRunsAreManaged ==
  \A v \in validating : v.text = Live => documents[v.doc] # Closed

SettingsInv ==
  /\ TypeOK
  /\ CountersBounded
  /\ RevalidatesOpenDocuments
  /\ LiveRunsAreManaged
  /\ OnlySettingsOfOpenDocuments

(***************************************************************************)
(* No stale setting stays: settings the server would use although they are *)
(* not the user's any more are about to be dropped, because a              *)
(* didChangeConfiguration is on its way.  It is the order of onInitialized *)
(* (server.ts:72-76) and of the requests that makes it so: the server      *)
(* registers for changes before it can ask for any settings.               *)
(***************************************************************************)
ChangeOnItsWay == \E i \in DOMAIN toServer : toServer[i].type = "didChangeConfiguration"

NoLastingStaleSettings ==
  /\ \A d \in Docs :
       documentSettings[d] # NoPromise =>
         LET p == promises[documentSettings[d]]
         IN  p.state # "pending" /\ p.settings.epoch # epoch => ChangeOnItsWay
  /\ ~ configuration /\ connection = "running" /\ globalSettings.epoch # epoch
       => ChangeOnItsWay

(***************************************************************************)
(* No validation waits for ever: the promise it is suspended on is settled,*)
(* or its request or the answer to it is in flight (server.ts:117-122,141).*)
(***************************************************************************)
EveryAwaitIsAnswered ==
  \A v \in validating :
    \/ Settled(v.awaits)
    \/ \E i \in DOMAIN toClient :
         toClient[i].type = "configuration" /\ toClient[i].id = v.awaits
    \/ \E i \in DOMAIN toServer :
         toServer[i].type = "configuration" /\ toServer[i].id = v.awaits

-----------------------------------------------------------------------------
(***************************************************************************)
(* The session implements the contract (README.md:9): the diagnostics      *)
(* displayed only move forward, and those of an open selected document     *)
(* reach its text and configuration.  The settings request, the close and  *)
(* reopen of a document and the notification of a change may be in flight  *)
(* all at once.                                                            *)
(***************************************************************************)
LimitAt(e) == IF Limit[e] = NoSection THEN DefaultLimit ELSE Limit[e]

Contract == INSTANCE DiagnosticsContract
              WITH Served <- Selected, serving <- connection = "running"

RegeneratesDiagnostics == Contract!Spec

(***************************************************************************)
(* The safety half of it, which holds even when requests fail.             *)
(***************************************************************************)
DiagnosticsMoveForward == Contract!Safety
-----------------------------------------------------------------------------
UpToDate(d) ==
  /\ displayed[d] # None
  /\ displayed[d].version = version[d]
  /\ displayed[d].epoch = epoch

(***************************************************************************)
(* A failed settings request leaves its rejected promise in the cache      *)
(* (server.ts:116-124); a configuration change after the last failure      *)
(* clears it (server.ts:99-101) and every served document recovers.        *)
(* Failures happen before the first user operation (LastFault = 1).        *)
(***************************************************************************)
ConfigurationChangeRecovers ==
  \A d \in Docs :
    (d \in synced /\ epoch > 0 /\ Limit[epoch] # NoSection)
      ~> (d \notin synced \/ Limit[epoch] = NoSection \/ UpToDate(d))

(***************************************************************************)
(* README.md:9 says "Diagnostics regenerated on each file change": an edit *)
(* of a served document is diagnosed.  Every failure happened before the   *)
(* edit (LastFault = 1).                                                   *)
(***************************************************************************)
EditsAreDiagnosed ==
  \A d \in Docs :
    (d \in synced /\ version[d] > 0)
      ~> (d \notin synced \/ (displayed[d] # None /\ displayed[d].version = version[d]))

(***************************************************************************)
(* README.md:7 says "This Language Server works for plain text file": a    *)
(* plain text document that stays open gets diagnostics.                   *)
(***************************************************************************)
PlainTextIsServed ==
  \A d \in Docs :
    (Language[d] = "plaintext" /\ d \in opened)
      ~> (d \notin opened \/ displayed[d] # None)
=============================================================================
