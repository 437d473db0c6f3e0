--------------------------- MODULE MCLspSession ---------------------------
(***************************************************************************)
(* Small instances of a session: two rap documents the server serves and a *)
(* text document, whose opening activates the extension.                   *)
(***************************************************************************)
EXTENDS LspSession, TLC

CONSTANTS r1, r2, t

MCDocs == {r1, r2, t}
MCPair == {r1, t}

MCLanguage == [d \in Docs |-> IF d = t THEN "plaintext" ELSE "rap"]

\* Manifest and selector as in package.json:20 and extension.ts:41.
MCActivationLanguages == {"plaintext"}
MCSelectorLanguages == {"rap"}

\* Versions with and without problems, more and fewer than the limits.
MCWords == [v \in 0 .. MaxOperations |-> (v + 1) % 3]
MCLimit == [e \in 0 .. MaxOperations |-> 2 - (e % 3)]
MCPartialLimit == [e \in 0 .. MaxOperations |-> IF e % 2 = 1 THEN NoSection ELSE 1]

NoFaults == {}
AnyFault == {"error"}
=============================================================================
