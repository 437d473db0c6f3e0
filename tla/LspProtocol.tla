---------------------------- MODULE LspProtocol ----------------------------
(***************************************************************************)
(* The connection between the language client (client/src/extension.ts,    *)
(* run by the editor) and the language server (server/src/server.ts): two  *)
(* FIFO channels of JSON-RPC messages over Node's IPC, and the data both   *)
(* sides agree on.                                                         *)
(*                                                                         *)
(* Data are abstracted to what the properties distinguish.  The text of a  *)
(* document is the number of edits it has seen (its version), which        *)
(* closing and opening leave alone; Words says how many all-uppercase      *)
(* words a version contains; the user's configuration is the number of     *)
(* times it changed (its epoch), Limit says what maxNumberOfProblems an    *)
(* epoch holds, NoSection when the section languageServerExample is        *)
(* absent.                                                                 *)
(***************************************************************************)
EXTENDS Naturals, Sequences

CONSTANTS
  Docs,               \* documents of the workspace
  MaxOperations,      \* bound: number of user operations
  Words,              \* Words[v]: all-uppercase words in version v of a text
  Limit,              \* Limit[e]: maxNumberOfProblems in configuration epoch e
  NoSection,          \* value of Limit when the section is not configured
  DefaultLimit        \* maxNumberOfProblems of defaultSettings

Versions == 0 .. MaxOperations
Epochs == 0 .. MaxOperations

ASSUME BoundAssumption == MaxOperations \in Nat
ASSUME WordsAssumption == Words \in [Versions -> Nat]
ASSUME LimitAssumption == Limit \in [Epochs -> Nat \union {NoSection}]
ASSUME DefaultAssumption == DefaultLimit \in Nat /\ NoSection \notin Nat

VARIABLES
  toServer,           \* messages from the client the server has not read
  toClient            \* messages from the server the client has not read

channels == <<toServer, toClient>>

(***************************************************************************)
(* Settings as the server holds them: the epoch they were read in, and the *)
(* limit itself.                                                           *)
(***************************************************************************)
Settings == [epoch : Epochs, max : Nat]

(***************************************************************************)
(* How a workspace/configuration request can be answered: the settings,    *)
(* null when the client has no such section, or an error.                  *)
(***************************************************************************)
Outcomes == {"value", "null", "error"}

ConfiguredEpochs == {e \in Epochs : Limit[e] # NoSection}

ToServerMessage ==
       [type : {"initialize"}, configuration : BOOLEAN]
  \cup [type : {"initialized"}]
  \cup [type : {"didOpen", "didChange"}, doc : Docs, version : Versions]
  \cup [type : {"didClose"}, doc : Docs]
  \cup [type : {"didChangeConfiguration"}, epoch : Epochs]
  \cup [type : {"configuration"}, id : Nat, outcome : {"value"}, epoch : ConfiguredEpochs]
  \cup [type : {"configuration"}, id : Nat, outcome : {"null", "error"}, epoch : Epochs]

ToClientMessage ==
       [type : {"initializeResult", "registerCapability"}]
  \cup [type : {"configuration"}, id : Nat, doc : Docs]
  \cup [type : {"publishDiagnostics"}, doc : Docs, version : Versions,
        epoch : Epochs, count : Nat]

(***************************************************************************)
(* The message at the head of a channel has the given type.                *)
(***************************************************************************)
Receives(channel, type) == channel # << >> /\ Head(channel).type = type

Lesser(m, n) == IF m <= n THEN m ELSE n
=============================================================================
