-------------------------- MODULE PoolArena_proofs --------------------------
(***************************************************************************)
(* What an allocation out of an arena owes its caller (SmallReserves), for *)
(* any sizes and alignment.  The proofs about the pool and about arrays in *)
(* a pool rest on it.                                                      *)
(***************************************************************************)
EXTENDS PoolArena, TLAPS, SequenceTheorems

ArenaOK(a) == ArenaTyped(a) /\ BlocksInBounds(a)

(***************************************************************************)
(* Aligning up (rap_palloc.h:46-47) stays within a bound that is aligned.  *)
(***************************************************************************)
LEMMA AlignUpBounds ==
  ASSUME NEW m \in Nat, NEW p \in Nat, m <= p, p % Align = 0
  PROVE  AlignUp(m) \in Nat /\ m <= AlignUp(m) /\ AlignUp(m) <= p
<1> DEFINE r == (- m) % Align
<1> DEFINE d == (- m) \div Align
<1> DEFINE e == p \div Align
<1>1. Align \in Nat /\ Align > 0
  BY AlignAssumption
<1>2. r \in Int /\ d \in Int /\ 0 <= r /\ r < Align /\ - m = Align * d + r
  BY <1>1
<1>3. e \in Int /\ p = Align * e
  BY <1>1
<1> HIDE DEF r, d, e
<1>4. m + r = Align * (- d)
  BY <1>1, <1>2
<1>5. m + r <= p
  <2> SUFFICES ASSUME m + r > p PROVE FALSE
    BY <1>2
  <2>1. Align * (- d) > Align * e
    BY <1>3, <1>4
  <2>2. - d > e
    BY <2>1, <1>1, <1>2, <1>3
  <2>3. - d >= e + 1
    BY <2>2, <1>2, <1>3
  <2>4. Align * (- d) >= Align * (e + 1)
    BY <2>3, <1>1, <1>2, <1>3
  <2>5. Align * (e + 1) = Align * e + Align
    BY <1>1, <1>3
  <2> QED
    BY <2>4, <2>5, <1>1, <1>2, <1>3, <1>4
<1>6. AlignUp(m) = m + r
  BY DEF AlignUp, r
<1> QED
  BY <1>2, <1>5, <1>6

(***************************************************************************)
(* What an allocation of size units out of arena a owes its caller: memory *)
(* behind the header of a block and behind what was handed out of it, in   *)
(* an arena that is still well formed and never hands memory back.         *)
(***************************************************************************)
Reserves(a, o, size) ==
  /\ ArenaOK(o.arena)
  /\ o.at \in Address
  /\ o.at.block \in 1 .. Len(o.arena.last)
  /\ Header(o.at.block) <= o.at.at
  /\ o.at.at + size <= o.arena.last[o.at.block]
  /\ Len(a.last) <= Len(o.arena.last)
  /\ \A b \in 1 .. Len(a.last) :
       a.last[b] <= o.arena.last[b] /\ (b = o.at.block => a.last[b] <= o.at.at)

(***************************************************************************)
(* A block of a well formed arena.                                         *)
(***************************************************************************)
LEMMA HeaderNat == \A b : Header(b) \in Nat
  BY PoolSizeAssumption DEF Header

LEMMA BlockFacts ==
  ASSUME NEW a, ArenaOK(a), NEW b \in 1 .. Len(a.last)
  PROVE  /\ a.last[b] \in Nat
         /\ a.last[b] <= PoolSize
         /\ Header(b) <= a.last[b]
<1>1. a.last \in Seq(0 .. PoolSize)
  BY DEF ArenaOK, ArenaTyped, Arena
<1>2. a.last[b] \in 0 .. PoolSize
  BY <1>1, ElementOfSeq
<1>3. Header(b) <= a.last[b]
  BY DEF ArenaOK, BlocksInBounds
<1> QED
  BY <1>2, <1>3, PoolSizeAssumption

(***************************************************************************)
(* Taking from a block with room (rap_palloc.c:150-160).                   *)
(***************************************************************************)
LEMMA TakeReserves ==
  ASSUME NEW a, ArenaOK(a), NEW size \in Nat, NEW align \in BOOLEAN,
         NEW i \in FirstFitting(a, size, align)
  PROVE  Reserves(a, Take(a, i, size, align), size)
<1> DEFINE m == Start(a.last[i], align)
<1> DEFINE last == [a.last EXCEPT ![i] = m + size]
<1> DEFINE o == Take(a, i, size, align)
<1>1. /\ a.last \in Seq(0 .. PoolSize) /\ a.failed \in Seq(Nat) /\ a.current \in Nat
      /\ Len(a.last) \in Nat
  BY LenProperties DEF ArenaOK, ArenaTyped, Arena
<1>2. i \in 1 .. Len(a.last) /\ Fits(a.last[i], size, align)
  BY <1>1 DEF FirstFitting, Fitting, ArenaOK, ArenaTyped
<1>3. a.last[i] \in Nat /\ a.last[i] <= PoolSize /\ Header(i) <= a.last[i]
  BY <1>2, BlockFacts
<1>4. m \in Nat /\ a.last[i] <= m /\ m <= PoolSize
  BY <1>3, AlignUpBounds, PoolSizeAssumption DEF Start
<1>5. m + size \in 0 .. PoolSize
  BY <1>2, <1>4, PoolSizeAssumption DEF Fits
<1> HIDE DEF m
<1>6. /\ last \in Seq(0 .. PoolSize) /\ Len(last) = Len(a.last)
      /\ \A j \in 1 .. Len(a.last) : last[j] = IF j = i THEN m + size ELSE a.last[j]
  BY <1>1, <1>2, <1>5, ExceptSeq
<1>7. /\ o.arena = [last |-> last, failed |-> a.failed, current |-> a.current]
      /\ o.at = [block |-> i, at |-> m]
  BY DEF Take, Outcome, m
<1> HIDE DEF last, o
<1>8. ArenaTyped(o.arena)
  BY <1>1, <1>6, <1>7 DEF ArenaTyped, Arena, ArenaOK
<1>9. \A j \in 1 .. Len(a.last) : a.last[j] \in Nat /\ Header(j) <= a.last[j] /\ a.last[j] <= PoolSize
  BY BlockFacts
<1>10. Header(i) \in Nat
  BY HeaderNat
<1>11. BlocksInBounds(o.arena)
  <2> SUFFICES ASSUME NEW j \in 1 .. Len(a.last)
               PROVE  Header(j) <= last[j] /\ last[j] <= PoolSize
    BY <1>6, <1>7 DEF BlocksInBounds
  <2>1. CASE j = i
    <3>1. last[j] = m + size
      BY <2>1, <1>6
    <3>2. Header(j) \in Nat /\ Header(j) <= m
      BY <2>1, <1>3, <1>4, <1>10
    <3>3. m + size <= PoolSize /\ m <= m + size
      BY <1>4, <1>5, PoolSizeAssumption
    <3> QED
      BY <3>1, <3>2, <3>3, <1>4, PoolSizeAssumption
  <2>2. CASE j # i
    <3>1. last[j] = a.last[j]
      BY <2>2, <1>6
    <3> QED
      BY <3>1, <1>9
  <2> QED
    BY <2>1, <2>2
<1>12. \A j \in 1 .. Len(a.last) : a.last[j] <= last[j] /\ (j = i => a.last[j] <= m)
  BY <1>3, <1>4, <1>6, <1>9
<1>13. Header(i) <= m
  BY <1>3, <1>4, <1>10
<1>14. o.at \in Address /\ o.at.block = i /\ o.at.at = m
  BY <1>2, <1>4, <1>7, <1>1 DEF Address
<1>15. Reserves(a, o, size)
  BY <1>1, <1>2, <1>4, <1>6, <1>7, <1>8, <1>11, <1>12, <1>13, <1>14 DEF Reserves, ArenaOK
<1> QED
  BY <1>15 DEF o

(***************************************************************************)
(* A new block (rap_palloc.c:170-203).                                     *)
(***************************************************************************)
LEMMA GrowReserves ==
  ASSUME NEW a, ArenaOK(a), Len(a.last) < MaxBlocks,
         NEW size \in Nat, size <= PoolSize - PoolHdr,
         NEW o \in Grow(a, size)
  PROVE  Reserves(a, o, size)
<1> DEFINE m == AlignUp(DataHdr)
<1> DEFINE last == Append(a.last, m + size)
<1> DEFINE failed == Append(Failed(a), 0)
<1>1. /\ a.last \in Seq(0 .. PoolSize) /\ a.failed \in Seq(Nat) /\ a.current \in 1 .. Len(a.last)
      /\ Len(a.last) \in Nat /\ Len(a.failed) = Len(a.last)
      /\ DOMAIN a.failed = 1 .. Len(a.failed)
      /\ \A j \in 1 .. Len(a.last) : a.failed[j] \in Nat /\ a.last[j] \in 0 .. PoolSize
  BY LenProperties DEF ArenaOK, ArenaTyped, Arena
<1>2. m \in Nat /\ DataHdr <= m /\ m <= PoolHdr
  <2>1. DataHdr \in Nat /\ PoolHdr \in Nat /\ DataHdr <= PoolHdr /\ PoolHdr % Align = 0
    BY PoolSizeAssumption
  <2> QED
    BY <2>1, AlignUpBounds
<1> HIDE DEF m
<1>3. m + size \in 0 .. PoolSize
  BY <1>2, PoolSizeAssumption
<1>4. /\ last \in Seq(0 .. PoolSize) /\ Len(last) = Len(a.last) + 1
      /\ \A j \in 1 .. Len(a.last) : last[j] = a.last[j]
      /\ last[Len(a.last) + 1] = m + size
  <2>1. a.last \in Seq(0 .. PoolSize)
    BY <1>1
  <2> QED
    BY <2>1, <1>3, AppendProperties, LenProperties
<1>5. Failed(a) \in Seq(Nat) /\ Len(Failed(a)) = Len(a.last)
  <2> DEFINE e(j) == IF j \in Searched(a) THEN a.failed[j] + 1 ELSE a.failed[j]
  <2>1. Failed(a) = [j \in 1 .. Len(a.last) |-> e(j)]
    BY <1>1 DEF Failed
  <2>2. \A j \in 1 .. Len(a.last) : e(j) \in Nat
    BY <1>1
  <2>3. [j \in 1 .. Len(a.last) |-> e(j)] \in [1 .. Len(a.last) -> Nat]
    BY <2>2
  <2> QED
    BY <2>1, <2>3, <1>1, SeqDef
<1>6. failed \in Seq(Nat) /\ Len(failed) = Len(a.last) + 1
  BY <1>5, AppendProperties
<1>7. PICK c \in NextCurrent(a) :
        o = Outcome([last |-> last, failed |-> failed, current |-> c],
                    [block |-> Len(a.last) + 1, at |-> m])
  BY DEF Grow, m
<1>8. c \in 1 .. Len(a.last) + 1 /\ c \in Nat
  BY <1>1 DEF NextCurrent
<1>9. /\ o.arena = [last |-> last, failed |-> failed, current |-> c]
      /\ o.at = [block |-> Len(a.last) + 1, at |-> m]
  BY <1>7 DEF Outcome
<1> HIDE DEF last, failed
<1>10. ArenaTyped(o.arena)
  BY <1>1, <1>4, <1>6, <1>8, <1>9, LimitsAssumption DEF ArenaTyped, Arena
<1>11. Header(Len(a.last) + 1) = DataHdr
  BY <1>1 DEF Header
<1>12. BlocksInBounds(o.arena)
  <2> SUFFICES ASSUME NEW j \in 1 .. Len(a.last) + 1
               PROVE  Header(j) <= last[j] /\ last[j] <= PoolSize
    BY <1>4, <1>9 DEF BlocksInBounds
  <2>1. CASE j = Len(a.last) + 1
    <3>1. last[j] = m + size /\ Header(j) = DataHdr
      BY <2>1, <1>4, <1>11
    <3>2. DataHdr \in Nat /\ PoolSize \in Nat /\ size \in Nat
      BY PoolSizeAssumption
    <3> QED
      BY <3>1, <3>2, <1>2, <1>3
  <2>2. CASE j # Len(a.last) + 1
    <3>1. j \in 1 .. Len(a.last)
      BY <2>2, <1>1
    <3>2. last[j] = a.last[j]
      BY <3>1, <1>4
    <3> QED
      BY <3>1, <3>2, BlockFacts
  <2> QED
    BY <2>1, <2>2
<1>13. o.at \in Address /\ o.at.block = Len(a.last) + 1 /\ o.at.at = m
  BY <1>1, <1>2, <1>9 DEF Address
<1>14. \A j \in 1 .. Len(a.last) : a.last[j] <= last[j] /\ j # Len(a.last) + 1
  <2> SUFFICES ASSUME NEW j \in 1 .. Len(a.last)
               PROVE  a.last[j] <= last[j] /\ j # Len(a.last) + 1
    OBVIOUS
  <2>1. last[j] = a.last[j] /\ a.last[j] \in Nat
    BY <1>4, BlockFacts
  <2> QED
    BY <2>1, <1>1
<1>15. Header(o.at.block) <= o.at.at /\ o.at.at + size <= o.arena.last[o.at.block]
  <2>1. o.arena.last[o.at.block] = m + size /\ Header(o.at.block) = DataHdr
    BY <1>4, <1>9, <1>11, <1>13
  <2>2. m + size \in Int
    BY <1>2
  <2> QED
    BY <2>1, <2>2, <1>2, <1>13
<1>16. Len(a.last) <= Len(o.arena.last) /\ o.at.block \in 1 .. Len(o.arena.last)
  BY <1>1, <1>4, <1>9, <1>13
<1>17. \A b \in 1 .. Len(a.last) :
         a.last[b] <= o.arena.last[b] /\ (b = o.at.block => a.last[b] <= o.at.at)
  BY <1>9, <1>13, <1>14
<1> QED
  BY <1>10, <1>12, <1>13, <1>15, <1>16, <1>17 DEF Reserves, ArenaOK

(***************************************************************************)
(* rap_palloc_small returns NULL and changes nothing, or reserves memory.  *)
(***************************************************************************)
LEMMA SmallReserves ==
  ASSUME NEW a, ArenaOK(a), NEW size \in Nat, size <= PoolSize - PoolHdr,
         NEW align \in BOOLEAN, NEW o \in Small(a, size, align)
  PROVE  (o.at = NULL /\ o.arena = a) \/ (o.at # NULL /\ Reserves(a, o, size))
<1>1. CASE Fitting(a, size, align) # {}
  <2>1. PICK i \in FirstFitting(a, size, align) : o = Take(a, i, size, align)
    BY <1>1 DEF Small
  <2>2. Reserves(a, o, size)
    BY <2>1, TakeReserves
  <2> QED
    BY <2>2, LimitsAssumption DEF Reserves, Address
<1>2. CASE Fitting(a, size, align) = {} /\ o = Outcome(a, NULL)
  BY <1>2 DEF Outcome
<1>3. CASE Len(a.last) < MaxBlocks /\ o \in Grow(a, size)
  <2>1. Reserves(a, o, size)
    BY <1>3, GrowReserves
  <2> QED
    BY <2>1, LimitsAssumption DEF Reserves, Address
<1> QED
  BY <1>1, <1>2, <1>3 DEF Small

(***************************************************************************)
(* A fresh arena (rap_palloc.c:26-36) is well formed.                      *)
(***************************************************************************)
LEMMA NewArenaOK == ArenaOK(NewArena)
<1>1. /\ NewArena.last = << PoolHdr >> /\ NewArena.failed = << 0 >>
      /\ NewArena.current = 1
      /\ NewArena = [last |-> << PoolHdr >>, failed |-> << 0 >>, current |-> 1]
  BY DEF NewArena
<1>2. PoolHdr \in 0 .. PoolSize /\ PoolHdr \in Nat /\ PoolSize \in Nat
  BY PoolSizeAssumption
<1>3. << PoolHdr >> \in Seq(0 .. PoolSize) /\ << 0 >> \in Seq(Nat)
  BY <1>2
<1>4. Len(<< PoolHdr >>) = 1 /\ Len(<< 0 >>) = 1
  OBVIOUS
<1>5. NewArena \in Arena
  BY <1>1, <1>3 DEF Arena
<1>6. ArenaTyped(NewArena)
  BY <1>1, <1>4, <1>5, LimitsAssumption DEF ArenaTyped
<1>7. BlocksInBounds(NewArena)
  BY <1>1, <1>2, <1>4 DEF BlocksInBounds, Header
<1> QED
  BY <1>6, <1>7 DEF ArenaOK
=============================================================================
