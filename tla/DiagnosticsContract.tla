------------------------ MODULE DiagnosticsContract ------------------------
(***************************************************************************)
(* What the extension promises its user, without server, messages or       *)
(* settings cache: README.md says diagnostics are regenerated on each file *)
(* change or configuration change.  The diagnostics shown for a document   *)
(* are those of some text and some configuration it really had, they only  *)
(* move forward in both, and once the extension serves an open document    *)
(* they keep moving until they match its text and the configuration.       *)
(***************************************************************************)
EXTENDS Naturals

CONSTANTS
  Docs,
  Served,             \* documents the extension is responsible for
  Words,              \* Words[v]: all-uppercase words in version v
  LimitAt(_),         \* LimitAt(e): problems reported at most in epoch e
  None                \* nothing shown yet

VARIABLES serving, opened, version, epoch, displayed

contractVars == <<serving, opened, version, epoch, displayed>>

Init ==
  /\ serving = FALSE
  /\ opened \in SUBSET Docs
  /\ version = [d \in Docs |-> 0]
  /\ epoch = 0
  /\ displayed = [d \in Docs |-> None]

Lower(m, n) == IF m <= n THEN m ELSE n

Shown(v, e) == [version |-> v, epoch |-> e, count |-> Lower(Words[v], LimitAt(e))]

FirstVersion(d) == IF displayed[d] = None THEN 0 ELSE displayed[d].version
FirstEpoch(d) == IF displayed[d] = None THEN 0 ELSE displayed[d].epoch

(***************************************************************************)
(* New diagnostics are shown for d, later than those shown before.         *)
(***************************************************************************)
Refresh(d) ==
  /\ \E v \in FirstVersion(d) .. version[d], e \in FirstEpoch(d) .. epoch :
       /\ displayed[d] # Shown(v, e)
       /\ displayed' = [displayed EXCEPT ![d] = Shown(v, e)]
  /\ UNCHANGED <<serving, opened, version, epoch>>

Serve == ~ serving /\ serving' = TRUE /\ UNCHANGED <<opened, version, epoch, displayed>>

Open(d) ==
  /\ d \notin opened
  /\ opened' = opened \cup {d}
  /\ UNCHANGED <<serving, version, epoch, displayed>>

Close(d) ==
  /\ d \in opened
  /\ opened' = opened \ {d}
  /\ UNCHANGED <<serving, version, epoch, displayed>>

Edit(d) ==
  /\ d \in opened
  /\ version' = [version EXCEPT ![d] = @ + 1]
  /\ UNCHANGED <<serving, opened, epoch, displayed>>

Configure == epoch' = epoch + 1 /\ UNCHANGED <<serving, opened, version, displayed>>

Next ==
  \/ Serve
  \/ Configure
  \/ \E d \in Docs : Open(d) \/ Close(d) \/ Edit(d) \/ Refresh(d)

ServeOpen(d) == serving /\ d \in opened /\ Refresh(d)

Safety == Init /\ [][Next]_contractVars

Spec == Safety /\ \A d \in Served : WF_contractVars(ServeOpen(d))
=============================================================================
