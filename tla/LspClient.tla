----------------------------- MODULE LspClient -----------------------------
(***************************************************************************)
(* The editor's side of the connection: client/src/extension.ts and the    *)
(* manifest package.json, run by the editor and by the vscode-languageclient *)
(* library (external code, modelled from how the extension uses it).       *)
(*                                                                         *)
(* The extension is activated when a document of an activation language is *)
(* open.  activate starts the client; the client shakes hands with the     *)
(* server and from then on keeps the server informed of the documents its  *)
(* documentSelector matches.  It answers workspace/configuration when it   *)
(* reads the request, in order, and, as extension.ts:42-45 sets no section *)
(* to synchronize, tells of changes only a server that has registered for  *)
(* them.  The server is also written for other clients, without that       *)
(* capability (server.ts:89-91): configuration = FALSE is one of these, in *)
(* the place of this one, and it sends its configuration at the start and  *)
(* at each change, or globalSettings would never be set.                   *)
(***************************************************************************)
EXTENDS LspProtocol

CONSTANTS
  Language,           \* Language[d]: language mode of document d
  ActivationLanguages,\* activationEvents of the manifest
  SelectorLanguages,  \* documentSelector of the client
  Faults,             \* how configuration requests may fail: a subset of Outcomes
  LastFault,          \* bound: they fail only before this many user operations
  None                \* nothing displayed for a document yet

ASSUME LanguageAssumption == Language \in [Docs -> STRING]
ASSUME FaultAssumption == Faults \subseteq Outcomes \ {"value"} /\ LastFault \in Nat

VARIABLES
  opened,             \* documents open in the editor
  version,            \* version[d]: the current text of d
  epoch,              \* the current configuration
  operations,         \* user operations so far
  connection,         \* the client: inactive, starting or running
  configuration,      \* the client supports workspace/configuration: this one does
  registered,         \* the server registered for configuration changes
  synced,             \* documents the server was told are open
  displayed           \* displayed[d]: the diagnostics shown for d, or None

clientVars == <<opened, version, epoch, operations, connection, configuration,
                registered, synced, displayed>>

Display == [version : Versions, epoch : Epochs, count : Nat]

ASSUME NoneAssumption == None \notin Display

(***************************************************************************)
(* A window opens with any documents restored from the last session.       *)
(***************************************************************************)
ClientInit ==
  /\ opened \in SUBSET Docs
  /\ version = [d \in Docs |-> 0]
  /\ epoch = 0
  /\ operations = 0
  /\ connection = "inactive"
  /\ configuration \in BOOLEAN
  /\ registered = FALSE
  /\ synced = {}
  /\ displayed = [d \in Docs |-> None]

Selected == {d \in Docs : Language[d] \in SelectorLanguages}

Send(m) == toServer' = Append(toServer, m)

(***************************************************************************)
(* activate: the client launches the server and starts the handshake.      *)
(***************************************************************************)
Activate ==
  /\ connection = "inactive"
  /\ \E d \in opened : Language[d] \in ActivationLanguages
  /\ connection' = "starting"
  /\ Send([type |-> "initialize", configuration |-> configuration])
  /\ UNCHANGED <<opened, version, epoch, operations, configuration, registered,
                 synced, displayed, toClient>>

(***************************************************************************)
(* Messages from the server.                                               *)
(***************************************************************************)
Takes(type) ==
  /\ Receives(toClient, type)
  /\ toClient' = Tail(toClient)

Greeting ==
  IF configuration
  THEN << [type |-> "initialized"] >>
  ELSE << [type |-> "initialized"],
          [type |-> "didChangeConfiguration", epoch |-> epoch] >>

OnInitializeResult ==
  /\ Takes("initializeResult")
  /\ connection' = "running"
  /\ toServer' = toServer \o Greeting
  /\ UNCHANGED <<opened, version, epoch, operations, configuration, registered,
                 synced, displayed>>

OnRegisterCapability ==
  /\ Takes("registerCapability")
  /\ registered' = TRUE
  /\ UNCHANGED <<opened, version, epoch, operations, connection, configuration,
                 synced, displayed, toServer>>

Answers ==
  {IF Limit[epoch] = NoSection THEN "null" ELSE "value"}
    \cup (IF operations < LastFault THEN Faults ELSE {})

OnConfigurationRequest ==
  /\ Takes("configuration")
  /\ \E outcome \in Answers :
       Send([type |-> "configuration", id |-> Head(toClient).id,
             outcome |-> outcome, epoch |-> epoch])
  /\ UNCHANGED clientVars

OnPublishDiagnostics ==
  /\ Takes("publishDiagnostics")
  /\ LET m == Head(toClient)
     IN  displayed' = [displayed EXCEPT ![m.doc] =
                         [version |-> m.version, epoch |-> m.epoch, count |-> m.count]]
  /\ UNCHANGED <<opened, version, epoch, operations, connection, configuration,
                 registered, synced, toServer>>

(***************************************************************************)
(* A running client announces the selected documents that are open.        *)
(***************************************************************************)
SyncOpen(d) ==
  /\ connection = "running"
  /\ d \in (opened \cap Selected) \ synced
  /\ synced' = synced \cup {d}
  /\ Send([type |-> "didOpen", doc |-> d, version |-> version[d]])
  /\ UNCHANGED <<opened, version, epoch, operations, connection, configuration,
                 registered, displayed, toClient>>

ClientNext ==
  \/ Activate
  \/ OnInitializeResult
  \/ OnRegisterCapability
  \/ OnConfigurationRequest
  \/ OnPublishDiagnostics
  \/ \E d \in Docs : SyncOpen(d)

(***************************************************************************)
(* What the user does, at most MaxOperations times.                        *)
(***************************************************************************)
UserActs ==
  /\ operations < MaxOperations
  /\ operations' = operations + 1
  /\ UNCHANGED <<connection, configuration, registered, displayed, toClient>>

UserOpen(d) ==
  /\ UserActs
  /\ d \notin opened
  /\ opened' = opened \cup {d}
  /\ UNCHANGED <<version, epoch, synced, toServer>>

UserEdit(d) ==
  /\ UserActs
  /\ d \in opened
  /\ version' = [version EXCEPT ![d] = @ + 1]
  /\ IF d \in synced
     THEN Send([type |-> "didChange", doc |-> d, version |-> version[d] + 1])
     ELSE UNCHANGED toServer
  /\ UNCHANGED <<opened, epoch, synced>>

UserClose(d) ==
  /\ UserActs
  /\ d \in opened
  /\ opened' = opened \ {d}
  /\ synced' = synced \ {d}
  /\ IF d \in synced
     THEN Send([type |-> "didClose", doc |-> d])
     ELSE UNCHANGED toServer
  /\ UNCHANGED <<version, epoch>>

(***************************************************************************)
(* This client notifies a change once the server has registered, another   *)
(* one as long as it runs.                                                 *)
(***************************************************************************)
Notified == IF configuration THEN registered ELSE connection = "running"

UserConfigure ==
  /\ UserActs
  /\ epoch' = epoch + 1
  /\ IF Notified
     THEN Send([type |-> "didChangeConfiguration", epoch |-> epoch + 1])
     ELSE UNCHANGED toServer
  /\ UNCHANGED <<opened, version, synced>>

UserNext ==
  \/ \E d \in Docs : UserOpen(d) \/ UserEdit(d) \/ UserClose(d)
  \/ UserConfigure
=============================================================================
