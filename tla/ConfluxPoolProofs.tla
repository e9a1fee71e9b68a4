------------------------- MODULE ConfluxPoolProofs -------------------------
(***************************************************************************)
(* Proofs about ConfluxPool, for any number of legs, launches and legs     *)
(* allowed in a set: what the pools hand out can be used, a conflux_t is   *)
(* in memory exactly as long as something points to it, and a leg is       *)
(* linked at the exit before the client may use it.                        *)
(***************************************************************************)
EXTENDS ConfluxPool, FiniteSetTheorems, WellFoundedInduction, TLAPS

-----------------------------------------------------------------------------
(* The inductive invariant.                                                *)

\* The circuits and the conflux_t objects of end e.  The open circuits that point to an
\* object are its legs; a marked one that still does is alone and will free it.
ObjectPart(e) ==
    /\ \A c \in Circuit : conflux[e][c] # None => circ[e][c] \in {"open", "marked"}
    /\ \A c, o \in Circuit : c \in legs[e][o] <=> circ[e][c] = "open" /\ conflux[e][c] = o
    /\ \A c, d \in Circuit :
         circ[e][c] = "marked" /\ conflux[e][c] # None /\ conflux[e][d] = conflux[e][c] => d = c
    /\ linked_pool[e] # None => legs[e][linked_pool[e]] # {}

\* What is in memory.
LivePart ==
    /\ \A o \in Circuit : o \in live["exit"] <=> \E c \in Circuit : conflux["exit"][c] = o
    /\ \A o \in Circuit : o \in live["client"] <=>
         (\E c \in Circuit : conflux["client"][c] = o) \/ unlinked_cfx = o

\* The client's unlinked set: its legs are alive, no circuit beyond the count of launches
\* has been used, and as long as the set exists no leg of the nonce is linked.
UnlinkedPart ==
    /\ unlinked_cfx # None => /\ unlinked_legs # {}
                              /\ \A c \in Circuit : conflux["client"][c] = None
    /\ unlinked_cfx = None => unlinked_legs = {}
    /\ \A c \in unlinked_legs : circ["client"][c] \in {"building", "open"}
    /\ \A c \in linked : circ["client"][c] = "open"
    /\ \A c \in Circuit : circ["client"][c] = "building" => c \in unlinked_legs
    /\ \A c \in Circuit : c > num_leg_launch => circ["client"][c] = "none"
    /\ num_leg_launch = 0 => unlinked_cfx = None

\* A circuit exists at the exit only after it has opened at the client.  Its handshake
\* goes through LINK, LINKED and LINKED_ACK once, and the exit has linked it by the second.
CellPart ==
    /\ \A c \in Circuit : circ["exit"][c] # "none" =>
         circ["client"][c] \in {"open", "marked", "freed"}
    /\ \A c \in Circuit : circ["exit"][c] # "building"
    /\ \A c \in Circuit : circ["exit"][c] = "none" => c \notin live["exit"]
    /\ \A c \in Circuit : <<"LINK", c>> \in cells =>
         /\ circ["exit"][c] = "open" /\ conflux["exit"][c] = None /\ c \notin live["exit"]
         /\ <<"LINKED", c>> \notin cells /\ <<"LINKED_ACK", c>> \notin cells
         /\ circ["client"][c] = "open" => c \in unlinked_legs \ linked
    /\ \A c \in Circuit : <<"LINKED", c>> \in cells =>
         /\ circ["client"][c] = "open" /\ c \in unlinked_legs \ linked
         /\ circ["exit"][c] = "open" => conflux["exit"][c] # None
    /\ \A c \in Circuit : <<"LINKED_ACK", c>> \in cells =>
         circ["exit"][c] = "open" /\ conflux["exit"][c] # None

IInv ==
    /\ TypeOK /\ ObjectPart("client") /\ ObjectPart("exit") /\ LivePart /\ UnlinkedPart
    /\ CellPart /\ LinkedAtExitFirst
-----------------------------------------------------------------------------
(* Operators.                                                              *)

\* The minimum of a set of numbers is in it.
LEMMA MinExists ==
    ASSUME NEW S \in SUBSET Nat, S # {}
    PROVE  Min(S) \in S /\ \A y \in S : Min(S) <= y
<1> DEFINE R == {ss \in Nat \X Nat : ss[1] < ss[2]}
<1>1. OpToRel(<, Nat) = R
  BY Zenon DEF OpToRel
<1>2. IsWellFoundedOn(R, Nat)
  BY <1>1, NatLessThanWellFounded, Zenon
<1> HIDE DEF R
<1>3. PICK x \in S : \A y \in S : ~(<<y, x>> \in R)
  BY <1>2, WFMin
<1>4. ASSUME NEW y \in S PROVE x <= y
  <2>1. y \in Nat /\ x \in Nat
    OBVIOUS
  <2>2. y < x => <<y, x>> \in R
    BY <2>1 DEF R
  <2> QED
    BY <1>3, <2>1, <2>2
<1> QED
  BY <1>4 DEF Min

CircState == {"none", "building", "open", "marked", "freed"}

\* Circuits are positive numbers, and none of them is None.
LEMMA CircuitFacts ==
    /\ Circuit \subseteq Nat /\ None \notin Circuit /\ MaxLaunch \in Nat
    /\ \A c \in Circuit : c >= 1 /\ c <= MaxLaunch
    /\ MaxLaunch \in Circuit /\ 1 \in Circuit /\ NumLegs <= MaxLaunch
BY PoolParameters DEF Circuit, MaxLaunch

LEMMA MarkedFacts ==
    ASSUME circ \in [End -> [Circuit -> CircState]], NEW e \in End, NEW cs
    PROVE  /\ Marked(e, cs) \in [End -> [Circuit -> CircState]]
           /\ \A f \in End, d \in Circuit :
                Marked(e, cs)[f][d] = IF f = e /\ d \in cs THEN "marked" ELSE circ[f][d]
BY DEF Marked, CircState

-----------------------------------------------------------------------------
(* An unlinked leg closes.                                                 *)

\* What UnlinkedLegCloses does: the leg is marked, and N is the leg launched for it.
UnlinkedClose(c, N) ==
    /\ circ' \in [End -> [Circuit -> CircState]]
    /\ \A d \in Circuit : circ'["exit"][d] = circ["exit"][d]
    /\ \A d \in Circuit : circ'["client"][d] = IF d = c THEN "marked"
                                               ELSE IF d \in N THEN "building"
                                               ELSE circ["client"][d]
    /\ \A d \in N : circ["client"][d] = "none" /\ d <= num_leg_launch'
    /\ num_leg_launch' \in 0..MaxLaunch /\ num_leg_launch' >= num_leg_launch
    /\ linked' = linked \ {c}
    /\ \/ /\ unlinked_legs = {c} /\ N = {}
          /\ unlinked_cfx' = None /\ unlinked_legs' = {}
          /\ live' = [live EXCEPT !["client"] = @ \ {unlinked_cfx}]
       \/ /\ unlinked_legs # {c} /\ unlinked_legs' = (unlinked_legs \ {c}) \cup N
          /\ UNCHANGED <<unlinked_cfx, live>>

LEMMA UnlinkedCloseFacts ==
    ASSUME IInv, NEW c \in unlinked_legs, UnlinkedLegCloses(c)
    PROVE  \E N \in SUBSET Circuit : UnlinkedClose(c, N)
<1> DEFINE rest == unlinked_legs \ {c}
           free == {d \in Circuit : circ["client"][d] = "none"}
           new == Min(free)
<1>1. /\ circ \in [End -> [Circuit -> CircState]] /\ num_leg_launch \in 0..MaxLaunch
      /\ c \in Circuit /\ circ["client"][c] \in {"building", "open"}
      /\ "client" \in End /\ "exit" \in End /\ MaxLaunch \in Nat
  BY CircuitFacts DEF IInv, TypeOK, CircState, End, UnlinkedPart
<1>2. /\ Marked("client", {c}) \in [End -> [Circuit -> CircState]]
      /\ \A d \in Circuit : Marked("client", {c})["exit"][d] = circ["exit"][d]
      /\ \A d \in Circuit :
           Marked("client", {c})["client"][d] = IF d = c THEN "marked" ELSE circ["client"][d]
  BY <1>1, MarkedFacts
<1> DEFINE m == Marked("client", {c})
<1> HIDE DEF m
<1>3. CASE /\ rest = {} /\ unlinked_cfx' = None /\ unlinked_legs' = {}
           /\ live' = [live EXCEPT !["client"] = @ \ {unlinked_cfx}]
           /\ circ' = Marked("client", {c}) /\ UNCHANGED num_leg_launch
  <2>1. linked' = linked \ {c} /\ unlinked_legs = {c}
    BY <1>3 DEF UnlinkedLegCloses
  <2>2. num_leg_launch' \in 0..MaxLaunch /\ num_leg_launch' >= num_leg_launch
    BY <1>1, <1>3
  <2>3. UnlinkedClose(c, {})
    BY <1>2, <1>3, <2>1, <2>2 DEF UnlinkedClose
  <2> QED
    BY <2>3
<1>4. CASE /\ rest # {} /\ num_leg_launch' \in num_leg_launch..MaxLaunch
           /\ unlinked_legs' = rest /\ circ' = Marked("client", {c})
           /\ UNCHANGED <<unlinked_cfx, live>>
  <2>1. linked' = linked \ {c} /\ unlinked_legs # {c}
    BY <1>4 DEF UnlinkedLegCloses
  <2>2. num_leg_launch' \in 0..MaxLaunch /\ num_leg_launch' >= num_leg_launch
    BY <1>1, <1>4
  <2>3. UnlinkedClose(c, {})
    BY <1>1, <1>2, <1>4, <2>1, <2>2 DEF UnlinkedClose
  <2> QED
    BY <2>3
<1>5. CASE /\ rest # {} /\ num_leg_launch' \in num_leg_launch..MaxLaunch
           /\ num_leg_launch' > num_leg_launch
           /\ unlinked_legs' = rest \cup {new}
           /\ circ' = [Marked("client", {c}) EXCEPT !["client"][new] = "building"]
           /\ UNCHANGED <<unlinked_cfx, live>>
  <2>1. linked' = linked \ {c} /\ unlinked_legs # {c}
    BY <1>5 DEF UnlinkedLegCloses
  <2>2. /\ num_leg_launch' \in 0..MaxLaunch /\ num_leg_launch' >= num_leg_launch
        /\ num_leg_launch + 1 \in 1..MaxLaunch /\ num_leg_launch + 1 <= num_leg_launch'
    BY <1>1, <1>5
  <2>3. num_leg_launch + 1 \in free
    BY <1>1, <2>2 DEF IInv, UnlinkedPart, Circuit
  <2>4. new \in free /\ new <= num_leg_launch + 1
    BY <2>3, MinExists, CircuitFacts
  <2> HIDE DEF new
  <2>5. /\ new \in Circuit /\ circ["client"][new] = "none" /\ new # c
        /\ new <= num_leg_launch'
    BY <1>1, <2>2, <2>4, CircuitFacts
  <2>6. /\ circ' \in [End -> [Circuit -> CircState]]
        /\ circ' = [m EXCEPT !["client"] = [m["client"] EXCEPT ![new] = "building"]]
    BY <1>1, <1>2, <1>5, <2>5 DEF m, CircState
  <2>7. /\ \A d \in Circuit : circ'["exit"][d] = circ["exit"][d]
        /\ \A d \in Circuit : circ'["client"][d] = IF d = c THEN "marked"
                                                   ELSE IF d \in {new} THEN "building"
                                                   ELSE circ["client"][d]
    BY <1>1, <1>2, <2>5, <2>6 DEF m
  <2>8. UnlinkedClose(c, {new})
    BY <1>5, <2>1, <2>2, <2>5, <2>6, <2>7 DEF UnlinkedClose
  <2> QED
    BY <2>5, <2>8
<1> QED
  BY <1>3, <1>4, <1>5 DEF UnlinkedLegCloses

\* The objects of an end where the step changes no open circuit, pointer or leg.
LEMMA ObjectFrame ==
    ASSUME NEW e \in End, ObjectPart(e),
           conflux'[e] = conflux[e], legs'[e] = legs[e], linked_pool'[e] = linked_pool[e],
           \A c \in Circuit : circ'[e][c] = circ[e][c]
             \/ (conflux[e][c] = None /\ \A o \in Circuit : c \notin legs[e][o])
    PROVE  ObjectPart(e)'
<1>1. None \notin Circuit
  BY CircuitFacts
<1> QED
  BY <1>1 DEF ObjectPart

\* The cells and the exit's view of them when only circuits of the client change.
LEMMA InvUnlinkedClose ==
    ASSUME IInv, NEW c \in unlinked_legs, UnlinkedLegCloses(c),
           cells' = cells \ {<<"LINKED", c>>}, UNCHANGED linked_set
    PROVE  IInv'
<1>1. PICK N \in SUBSET Circuit : UnlinkedClose(c, N)
  BY UnlinkedCloseFacts
<1>2. /\ UNCHANGED <<conflux, linked_pool, legs, used>>
      /\ "client" \in End /\ "exit" \in End /\ None \notin Circuit
      /\ Circuit \subseteq Nat
  BY CircuitFacts DEF linked_set, End
<1>3. TypeOK
  BY DEF IInv
<1>4. /\ c \in Circuit /\ circ["client"][c] \in {"building", "open"}
      /\ unlinked_cfx # None /\ unlinked_cfx \in Circuit
      /\ \A d \in Circuit : conflux["client"][d] = None
  BY <1>3 DEF IInv, UnlinkedPart, TypeOK
<1>5. /\ live' \in [End -> SUBSET Circuit] /\ live'["exit"] = live["exit"]
      /\ unlinked_legs = {c} => live'["client"] = live["client"] \ {unlinked_cfx}
      /\ unlinked_legs # {c} => live'["client"] = live["client"]
  <2>1. live \in [End -> SUBSET Circuit]
    BY <1>3 DEF TypeOK
  <2>2. \/ unlinked_legs = {c} /\ live' = [live EXCEPT !["client"] = @ \ {unlinked_cfx}]
        \/ unlinked_legs # {c} /\ live' = live
    BY <1>1 DEF UnlinkedClose
  <2> QED
    BY <1>2, <2>1, <2>2
<1>6. TypeOK'
  BY <1>1, <1>2, <1>3, <1>5 DEF UnlinkedClose, TypeOK, CircState
<1>7. ObjectPart("client")'
  <2>1. \A d, o \in Circuit : d \notin legs["client"][o]
    BY <1>2, <1>4 DEF IInv, ObjectPart
  <2> QED
    BY <1>2, <1>4, <2>1, ObjectFrame DEF IInv
<1>8. ObjectPart("exit")'
  BY <1>1, <1>2, ObjectFrame DEF IInv, UnlinkedClose
<1>9. LivePart'
  BY <1>1, <1>2, <1>4, <1>5 DEF IInv, LivePart, UnlinkedClose
<1>10. UnlinkedPart'
  <2>1. /\ unlinked_cfx' # None => unlinked_legs' # {}
        /\ unlinked_cfx' = None => unlinked_legs' = {}
    BY <1>1, <1>4 DEF UnlinkedClose
  <2>2. \A d \in unlinked_legs' : circ'["client"][d] \in {"building", "open"}
    BY <1>1, <1>3 DEF IInv, UnlinkedPart, UnlinkedClose, TypeOK
  <2>3. \A d \in linked' : circ'["client"][d] = "open"
    BY <1>1, <1>3 DEF IInv, UnlinkedPart, UnlinkedClose, TypeOK
  <2>4. \A d \in Circuit : circ'["client"][d] = "building" => d \in unlinked_legs'
    BY <1>1, <1>4 DEF IInv, UnlinkedPart, UnlinkedClose
  <2>5. \A d \in Circuit : d > num_leg_launch' => circ'["client"][d] = "none"
    <3>1. num_leg_launch \in Nat /\ num_leg_launch' \in Nat /\ c <= num_leg_launch
      BY <1>1, <1>2, <1>3, <1>4, CircuitFacts DEF IInv, UnlinkedPart, UnlinkedClose, TypeOK
    <3> QED
      BY <1>1, <1>2, <3>1 DEF IInv, UnlinkedPart, UnlinkedClose
  <2>6. num_leg_launch' # 0
    <3>1. num_leg_launch # 0 /\ num_leg_launch \in 0..MaxLaunch /\ MaxLaunch \in Nat
      BY <1>3, <1>4, CircuitFacts DEF IInv, UnlinkedPart, TypeOK
    <3> QED
      BY <1>1, <3>1 DEF UnlinkedClose
  <2> QED
    BY <1>2, <1>4, <2>1, <2>2, <2>3, <2>4, <2>5, <2>6 DEF UnlinkedPart
<1>11. CellPart'
  <2>1. /\ \A d \in Circuit : circ'["exit"][d] = circ["exit"][d]
        /\ UNCHANGED conflux /\ live'["exit"] = live["exit"]
        /\ \A d \in Circuit : circ'["client"][d] = "open" =>
             circ["client"][d] = "open" /\ d # c
        /\ \A d \in Circuit : d # c /\ d \in unlinked_legs \ linked => d \in unlinked_legs' \ linked'
    BY <1>1, <1>2, <1>5 DEF UnlinkedClose
  <2>2. \A d \in Circuit : circ'["exit"][d] # "none" => circ'["client"][d] \in {"open", "marked", "freed"}
    BY <1>1 DEF UnlinkedClose, IInv, CellPart
  <2>3. \A d \in Circuit : <<"LINKED", d>> \in cells' =>
          d # c /\ circ'["client"][d] = "open" /\ d \in unlinked_legs' \ linked'
    BY <1>1, <2>1 DEF UnlinkedClose, IInv, CellPart
  <2>4. cells' \subseteq cells
    OBVIOUS
  <2> QED
    BY <2>1, <2>2, <2>3, <2>4 DEF IInv, CellPart
<1>12. LinkedAtExitFirst'
  BY <1>1, <1>2 DEF IInv, LinkedAtExitFirst, UnlinkedClose
<1> QED
  BY <1>6, <1>7, <1>8, <1>9, <1>10, <1>11, <1>12 DEF IInv

-----------------------------------------------------------------------------
(* A linked leg closes.                                                    *)

\* What LinkedLegCloses does at end e: the circuits K are marked, those of D lose their
\* pointer, and the others among them are the last leg of their object each.
LinkedClose(e, c, K, D) ==
    /\ c \in K /\ D \subseteq K
    /\ \A d \in K : circ[e][d] = "open" /\ conflux[e][d] # None
    /\ circ' = Marked(e, K) /\ cells' = cells \ Lost(e, K)
    /\ legs' = [legs EXCEPT ![e] = [p \in Circuit |-> @[p] \ K]]
    /\ conflux' = [conflux EXCEPT ![e] =
                     [d \in Circuit |-> IF d \in D THEN None ELSE @[d]]]
    /\ \E pool \in Circuit \cup {None} :
         /\ linked_pool' = [linked_pool EXCEPT ![e] = pool]
         /\ pool # None => legs[e][pool] \ K # {}
    /\ \A d \in K \ D : legs[e][conflux[e][d]] \ K = {}
    /\ \A d, f \in K \ D : conflux[e][d] = conflux[e][f] => d = f
    /\ \A d \in D : \E f \in Circuit \ D : conflux[e][f] = conflux[e][d]

LEMMA LinkedCloseFacts ==
    ASSUME IInv, NEW e \in End, NEW c \in Circuit, circ[e][c] = "open", conflux[e][c] # None,
           LinkedLegCloses(e, c)
    PROVE  \E K, D \in SUBSET Circuit : LinkedClose(e, c, K, D)
<1> DEFINE o == conflux[e][c]
           rest == legs[e][o] \ {c}
           pool == IF rest = {} THEN None ELSE linked_pool[e]
<1>1. /\ ObjectPart(e) /\ TypeOK /\ None \notin Circuit /\ o \in Circuit
      /\ c \in legs[e][o] /\ pool \in Circuit \cup {None}
      /\ legs[e][o] \subseteq Circuit
      /\ \A p \in Circuit : legs[e][p] \subseteq Circuit
  <2>1. TypeOK /\ ObjectPart(e)
    BY DEF IInv, End
  <2>2. o \in Circuit
    BY <2>1 DEF TypeOK
  <2>3. c \in legs[e][o]
    BY <2>1, <2>2 DEF ObjectPart
  <2>4. \A p \in Circuit : legs[e][p] \subseteq Circuit
    BY <2>1 DEF TypeOK
  <2>5. linked_pool[e] \in Circuit \cup {None}
    BY <2>1 DEF TypeOK
  <2>6. pool \in Circuit \cup {None}
    BY <2>5
  <2>7. None \notin Circuit
    BY CircuitFacts
  <2> HIDE DEF o, pool
  <2> QED
    BY <2>1, <2>2, <2>3, <2>4, <2>6, <2>7
<1> DEFINE closing(t) == IF t /\ pool # None THEN legs[e][pool] \ {c} ELSE {}
<1>2. PICK t \in BOOLEAN : \E last \in IF closing(t) = {} THEN {c} ELSE closing(t) :
         /\ legs' = [legs EXCEPT ![e] = [p \in Circuit |-> @[p] \ ({c} \cup closing(t))]]
         /\ conflux' = [conflux EXCEPT ![e] = [d \in Circuit |->
              IF d = c THEN IF rest = {} THEN o ELSE None
              ELSE IF d \in closing(t) /\ d # last THEN None ELSE @[d]]]
         /\ linked_pool' = [linked_pool EXCEPT ![e] = IF closing(t) # {} THEN None ELSE pool]
         /\ circ' = Marked(e, {c} \cup closing(t))
         /\ cells' = cells \ Lost(e, {c} \cup closing(t))
  BY DEF LinkedLegCloses
<1> DEFINE C == closing(t)
<1>3. PICK last \in IF C = {} THEN {c} ELSE C :
         /\ legs' = [legs EXCEPT ![e] = [p \in Circuit |-> @[p] \ ({c} \cup C)]]
         /\ conflux' = [conflux EXCEPT ![e] = [d \in Circuit |->
              IF d = c THEN IF rest = {} THEN o ELSE None
              ELSE IF d \in C /\ d # last THEN None ELSE @[d]]]
         /\ linked_pool' = [linked_pool EXCEPT ![e] = IF C # {} THEN None ELSE pool]
         /\ circ' = Marked(e, {c} \cup C) /\ cells' = cells \ Lost(e, {c} \cup C)
  BY <1>2
<1>4. /\ C \subseteq Circuit \ {c}
      /\ C # {} => /\ pool \in Circuit /\ C = legs[e][pool] \ {c} /\ rest # {}
                   /\ \A d \in C : circ[e][d] = "open" /\ conflux[e][d] = pool
  BY <1>1 DEF ObjectPart
<1>5. pool # None => legs[e][pool] # {} /\ rest # {}
  BY <1>1 DEF ObjectPart
<1>6. rest # {} => \E f \in Circuit : f # c /\ conflux[e][f] = o /\ f \in rest
  BY <1>1 DEF ObjectPart
<1>7. rest = {} => legs[e][o] = {c}
  BY <1>1
<1> DEFINE K == {c} \cup C
           D == (C \ {last}) \cup (IF rest = {} THEN {} ELSE {c})
<1>8. K \in SUBSET Circuit /\ D \in SUBSET Circuit /\ c \in K /\ D \subseteq K
  BY <1>4
<1>9. \A d \in K : circ[e][d] = "open" /\ conflux[e][d] # None
  BY <1>1, <1>4
<1>10. conflux' = [conflux EXCEPT ![e] = [d \in Circuit |-> IF d \in D THEN None ELSE @[d]]]
  <2>1. \A d \in Circuit : (IF d = c THEN IF rest = {} THEN o ELSE None
                            ELSE IF d \in C /\ d # last THEN None ELSE conflux[e][d])
                           = IF d \in D THEN None ELSE conflux[e][d]
    BY <1>4
  <2> HIDE DEF C, D, rest
  <2>2. conflux \in [End -> [Circuit -> Circuit \cup {None}]]
    BY <1>1 DEF TypeOK
  <2> QED
    BY <1>3, <2>1, <2>2
<1>11. \E q \in Circuit \cup {None} :
         /\ linked_pool' = [linked_pool EXCEPT ![e] = q]
         /\ q # None => legs[e][q] \ K # {}
  <2>1. CASE C # {}
    BY <1>3, <2>1
  <2>2. CASE C = {}
    <3>1. linked_pool' = [linked_pool EXCEPT ![e] = pool]
      BY <1>3, <2>2
    <3>2. pool # None => legs[e][pool] \ {c} # {}
      <4>1. CASE pool = o
        BY <1>5, <4>1
      <4>2. CASE pool # o /\ pool # None
        <5>1. c \notin legs[e][pool]
          BY <1>1, <4>2 DEF ObjectPart
        <5> QED
          BY <1>5, <4>2, <5>1
      <4> QED
        BY <4>1, <4>2
    <3> QED
      BY <1>1, <2>2, <3>1, <3>2
  <2> QED
    BY <2>1, <2>2
<1>12. \A d \in K \ D : legs[e][conflux[e][d]] \ K = {}
  <2>1. CASE C = {}
    BY <1>7, <2>1
  <2>2. CASE C # {}
    BY <1>4, <2>2
  <2> QED
    BY <2>1, <2>2
<1>13. \A d, f \in K \ D : conflux[e][d] = conflux[e][f] => d = f
  BY <1>3, <1>4
<1>14. \A d \in D : \E f \in Circuit \ D : conflux[e][f] = conflux[e][d]
  <2>1. CASE C = {}
    BY <1>6, <2>1
  <2>2. CASE C # {}
    <3>1. last \in C /\ last \in Circuit \ D /\ conflux[e][last] = pool
      BY <1>3, <1>4, <2>2
    <3>2. CASE pool = o
      BY <1>4, <2>2, <3>1, <3>2
    <3>3. CASE pool # o
      <4>1. PICK f \in Circuit : f # c /\ conflux[e][f] = o
        BY <1>4, <1>6, <2>2
      <4>2. f \notin D
        BY <1>4, <2>2, <3>3, <4>1
      <4> QED
        BY <1>4, <2>2, <3>1, <4>1, <4>2
    <3> QED
      BY <3>2, <3>3
  <2> QED
    BY <2>1, <2>2
<1>15. /\ circ' = Marked(e, K) /\ cells' = cells \ Lost(e, K)
       /\ legs' = [legs EXCEPT ![e] = [p \in Circuit |-> @[p] \ K]]
  BY <1>3
<1> HIDE DEF C, K, D
<1>16. LinkedClose(e, c, K, D)
  BY <1>8, <1>9, <1>10, <1>11, <1>12, <1>13, <1>14, <1>15, Zenon DEF LinkedClose
<1> QED
  BY <1>8, <1>16

\* Types, and the objects of both ends, after a linked leg has closed at end e.
LEMMA LinkedCloseObjects ==
    ASSUME IInv, NEW e \in End, NEW K \in SUBSET Circuit, NEW D \in SUBSET Circuit,
           NEW x \in Circuit, LinkedClose(e, x, K, D),
           UNCHANGED <<live, used, unlinked_set>>
    PROVE  /\ TypeOK' /\ ObjectPart("client")' /\ ObjectPart("exit")' /\ LivePart'
<1> USE DEF LinkedClose
<1>1. /\ TypeOK /\ None \notin Circuit /\ End = {"client", "exit"}
      /\ circ \in [End -> [Circuit -> CircState]]
      /\ conflux \in [End -> [Circuit -> Circuit \cup {None}]]
      /\ legs \in [End -> [Circuit -> SUBSET Circuit]]
      /\ linked_pool \in [End -> Circuit \cup {None}]
  BY CircuitFacts DEF IInv, TypeOK, CircState, End
<1>2. /\ circ' \in [End -> [Circuit -> CircState]]
      /\ \A f \in End, d \in Circuit :
           circ'[f][d] = IF f = e /\ d \in K THEN "marked" ELSE circ[f][d]
  BY <1>1, MarkedFacts
<1>3. /\ conflux' \in [End -> [Circuit -> Circuit \cup {None}]]
      /\ \A f \in End, d \in Circuit :
           conflux'[f][d] = IF f = e /\ d \in D THEN None ELSE conflux[f][d]
      /\ \A f \in End : f # e => conflux'[f] = conflux[f]
  BY <1>1
<1>4. /\ legs' \in [End -> [Circuit -> SUBSET Circuit]]
      /\ \A o \in Circuit : legs'[e][o] = legs[e][o] \ K
      /\ \A f \in End : f # e => legs'[f] = legs[f]
  BY <1>1
<1>5. /\ linked_pool' \in [End -> Circuit \cup {None}]
      /\ linked_pool'[e] # None => legs[e][linked_pool'[e]] \ K # {}
      /\ \A f \in End : f # e => linked_pool'[f] = linked_pool[f]
  BY <1>1
<1>6. TypeOK'
  <2>1. UNCHANGED <<live, used, unlinked_cfx, unlinked_legs, linked, num_leg_launch>>
    BY DEF unlinked_set
  <2> QED
    BY <1>1, <1>2, <1>3, <1>4, <1>5, <2>1 DEF TypeOK, CircState
<1>7. ObjectPart(e)
  BY <1>1 DEF IInv
<1>8. ObjectPart(e)'
  <2>1. \A c \in Circuit : conflux'[e][c] # None => circ'[e][c] \in {"open", "marked"}
    BY <1>2, <1>3, <1>7 DEF ObjectPart
  <2>2. \A c, o \in Circuit : c \in legs'[e][o] <=> circ'[e][c] = "open" /\ conflux'[e][c] = o
    <3> TAKE c, o \in Circuit
    <3>1. c \in legs[e][o] <=> circ[e][c] = "open" /\ conflux[e][c] = o
      BY <1>7 DEF ObjectPart
    <3>2. CASE c \in K
      BY <1>2, <1>4, <3>2
    <3>3. CASE c \notin K
      BY <1>2, <1>3, <1>4, <3>1, <3>3
    <3> QED
      BY <3>2, <3>3
  <2>3. ASSUME NEW c \in Circuit, NEW d \in Circuit, circ'[e][c] = "marked",
               conflux'[e][c] # None, conflux'[e][d] = conflux'[e][c]
        PROVE  d = c
    <3>1. c \notin D /\ d \notin D /\ conflux[e][d] = conflux[e][c] /\ conflux[e][c] \in Circuit
      BY <1>1, <1>3, <2>3
    <3>2. CASE c \notin K
      <4>1. circ[e][c] = "marked"
        BY <1>2, <2>3, <3>2
      <4> QED
        BY <1>1, <1>7, <3>1, <4>1 DEF ObjectPart
    <3>3. CASE c \in K /\ d \in K
      BY <3>1, <3>3
    <3>4. CASE c \in K /\ d \notin K
      <4>1. legs[e][conflux[e][c]] \ K = {}
        BY <3>1, <3>4
      <4>2. circ[e][d] \in {"open", "marked"}
        BY <1>1, <1>7, <3>1 DEF ObjectPart
      <4>3. circ[e][d] # "open"
        BY <1>7, <3>1, <3>4, <4>1 DEF ObjectPart
      <4> QED
        BY <1>1, <1>7, <3>1, <3>4, <4>2, <4>3 DEF ObjectPart
    <3> QED
      BY <3>2, <3>3, <3>4
  <2>4. linked_pool'[e] # None => legs'[e][linked_pool'[e]] # {}
    BY <1>4, <1>5
  <2> QED
    BY <2>1, <2>2, <2>3, <2>4 DEF ObjectPart
<1>9. ASSUME NEW f \in End, f # e PROVE ObjectPart(f)'
  <2>1. ObjectPart(f)
    BY <1>1 DEF IInv
  <2>2. \A d \in Circuit : circ'[f][d] = circ[f][d]
    BY <1>2, <1>9
  <2> QED
    BY <1>3, <1>4, <1>5, <1>9, <2>1, <2>2, ObjectFrame
<1>10. LivePart'
  <2>1. \A f \in End, o \in Circuit :
          (\E d \in Circuit : conflux'[f][d] = o) <=> (\E d \in Circuit : conflux[f][d] = o)
    <3> TAKE f \in End, o \in Circuit
    <3>1. CASE f # e
      BY <1>3, <3>1
    <3>2. CASE f = e
      <4>1. ASSUME NEW d \in Circuit, conflux'[e][d] = o PROVE conflux[e][d] = o
        BY <1>1, <1>3, <4>1
      <4>2. ASSUME NEW d \in Circuit, conflux[e][d] = o PROVE \E g \in Circuit : conflux'[e][g] = o
        <5>1. CASE d \notin D
          BY <1>3, <4>2, <5>1
        <5>2. CASE d \in D
          <6>1. PICK g \in Circuit \ D : conflux[e][g] = conflux[e][d]
            BY <5>2
          <6> QED
            BY <1>3, <4>2, <6>1
        <5> QED
          BY <5>1, <5>2
      <4> QED
        BY <3>2, <4>1, <4>2
    <3> QED
      BY <3>1, <3>2
  <2> QED
    BY <1>1, <2>1 DEF IInv, LivePart, unlinked_set
<1> QED
  BY <1>1, <1>6, <1>8, <1>9, <1>10

\* linked_circuit_closed
LEMMA InvLinkedClose ==
    ASSUME IInv, NEW e \in End, NEW c \in Circuit, circ[e][c] = "open", conflux[e][c] # None,
           LinkedLegCloses(e, c), UNCHANGED <<live, used, unlinked_set>>
    PROVE  IInv'
<1>1. PICK K, D \in SUBSET Circuit : LinkedClose(e, c, K, D)
  BY LinkedCloseFacts
<1>2. /\ TypeOK' /\ ObjectPart("client")' /\ ObjectPart("exit")' /\ LivePart'
      /\ \A f \in End, d \in Circuit :
           /\ circ'[f][d] = IF f = e /\ d \in K THEN "marked" ELSE circ[f][d]
           /\ conflux'[f][d] = IF f = e /\ d \in D THEN None ELSE conflux[f][d]
  <2>1. K \in SUBSET Circuit /\ D \in SUBSET Circuit /\ LinkedClose(e, c, K, D)
    BY <1>1
  <2>2. TypeOK' /\ ObjectPart("client")' /\ ObjectPart("exit")' /\ LivePart'
    BY <2>1, LinkedCloseObjects
  <2>3. ASSUME NEW f \in End, NEW d \in Circuit
        PROVE  /\ circ'[f][d] = IF f = e /\ d \in K THEN "marked" ELSE circ[f][d]
               /\ conflux'[f][d] = IF f = e /\ d \in D THEN None ELSE conflux[f][d]
    <3>1. /\ circ \in [End -> [Circuit -> CircState]]
          /\ conflux \in [End -> [Circuit -> Circuit \cup {None}]]
      BY DEF IInv, TypeOK, CircState
    <3>2. /\ circ' = Marked(e, K)
          /\ conflux' = [conflux EXCEPT ![e] =
                           [x \in Circuit |-> IF x \in D THEN None ELSE @[x]]]
      BY <2>1 DEF LinkedClose
    <3>3. circ'[f][d] = IF f = e /\ d \in K THEN "marked" ELSE circ[f][d]
      BY <3>1, <3>2, MarkedFacts
    <3>4. conflux'[f][d] = IF f = e /\ d \in D THEN None ELSE conflux[f][d]
      BY <3>1, <3>2
    <3> QED
      BY <3>3, <3>4
  <2> QED
    BY <2>2, <2>3
<1>3. /\ "client" \in End /\ "exit" \in End /\ D \subseteq K
      /\ \A d \in K : circ[e][d] = "open" /\ conflux[e][d] # None
      /\ cells' = cells \ Lost(e, K)
      /\ UNCHANGED <<live, unlinked_cfx, unlinked_legs, linked, num_leg_launch>>
  BY <1>1 DEF End, unlinked_set, LinkedClose
<1>4. CASE e = "client"
  <2>1. unlinked_cfx = None /\ unlinked_legs = {} /\ linked = {}
    BY <1>3, <1>4 DEF IInv, UnlinkedPart, TypeOK
  <2>2. /\ \A d \in Circuit : circ'["exit"][d] = circ["exit"][d] /\ conflux'["exit"][d] = conflux["exit"][d]
        /\ \A d \in Circuit : circ'["client"][d] = IF d \in K THEN "marked" ELSE circ["client"][d]
        /\ \A d \in Circuit : conflux'["client"][d] # None => conflux["client"][d] # None
        /\ cells' \subseteq cells
    BY <1>2, <1>3, <1>4
  <2>3. UnlinkedPart'
    BY <1>3, <1>4, <2>1, <2>2 DEF IInv, UnlinkedPart
  <2>4. CellPart'
    BY <1>3, <1>4, <2>1, <2>2 DEF IInv, CellPart
  <2>5. LinkedAtExitFirst'
    BY <1>3, <2>1, <2>2 DEF IInv, LinkedAtExitFirst
  <2> QED
    BY <1>2, <2>3, <2>4, <2>5 DEF IInv
<1>5. CASE e = "exit"
  <2>1. /\ \A d \in Circuit : circ'["client"][d] = circ["client"][d] /\ conflux'["client"][d] = conflux["client"][d]
        /\ \A d \in Circuit : d \notin K => /\ circ'["exit"][d] = circ["exit"][d]
                                            /\ conflux'["exit"][d] = conflux["exit"][d]
        /\ \A d \in K : d \in Circuit /\ circ'["exit"][d] = "marked" /\ circ["exit"][d] = "open"
        /\ cells' \subseteq cells
        /\ \A d \in K : <<"LINK", d>> \notin cells' /\ <<"LINKED_ACK", d>> \notin cells'
    BY <1>2, <1>3, <1>5 DEF Lost, ToExit
  <2>2. UnlinkedPart'
    <3>1. unlinked_legs \subseteq Circuit /\ linked \subseteq Circuit
      BY DEF IInv, TypeOK
    <3> QED
      BY <1>3, <2>1, <3>1 DEF IInv, UnlinkedPart
  <2>3. CellPart'
    <3>1. \A d \in Circuit : circ'["exit"][d] # "building"
      BY <2>1 DEF IInv, CellPart
    <3>2. \A d \in Circuit : circ'["exit"][d] = "none" <=> circ["exit"][d] = "none"
      BY <2>1
    <3>3. \A d \in Circuit : <<"LINK", d>> \in cells' \/ <<"LINKED_ACK", d>> \in cells' => d \notin K
      BY <2>1
    <3>4. \A d \in Circuit : circ'["exit"][d] = "open" => d \notin K
      BY <2>1
    <3>5. CellPart
      BY DEF IInv
    <3>6. ASSUME NEW d \in Circuit, <<"LINK", d>> \in cells'
          PROVE  /\ circ'["exit"][d] = "open" /\ conflux'["exit"][d] = None /\ d \notin live'["exit"]
                 /\ <<"LINKED", d>> \notin cells' /\ <<"LINKED_ACK", d>> \notin cells'
                 /\ circ'["client"][d] = "open" => d \in unlinked_legs' \ linked'
      BY <1>3, <2>1, <3>3, <3>5, <3>6 DEF CellPart
    <3>7. ASSUME NEW d \in Circuit, <<"LINKED", d>> \in cells'
          PROVE  /\ circ'["client"][d] = "open" /\ d \in unlinked_legs' \ linked'
                 /\ circ'["exit"][d] = "open" => conflux'["exit"][d] # None
      BY <1>3, <2>1, <3>4, <3>5, <3>7 DEF CellPart
    <3>8. ASSUME NEW d \in Circuit, <<"LINKED_ACK", d>> \in cells'
          PROVE  circ'["exit"][d] = "open" /\ conflux'["exit"][d] # None
      BY <1>3, <2>1, <3>3, <3>5, <3>8 DEF CellPart
    <3>9. /\ \A d \in Circuit : circ'["exit"][d] # "none" =>
               circ'["client"][d] \in {"open", "marked", "freed"}
          /\ \A d \in Circuit : circ'["exit"][d] = "none" => d \notin live'["exit"]
      BY <1>3, <2>1, <3>2, <3>5 DEF CellPart
    <3> QED
      BY <3>1, <3>6, <3>7, <3>8, <3>9 DEF CellPart
  <2>4. LinkedAtExitFirst'
    BY <1>3, <2>1 DEF IInv, LinkedAtExitFirst
  <2> QED
    BY <1>2, <2>2, <2>3, <2>4 DEF IInv
<1> QED
  BY <1>4, <1>5 DEF End

-----------------------------------------------------------------------------
(* The other ends of circuits.                                             *)

\* The exit marks a circuit that belongs to no set.
LEMMA InvExitMark ==
    ASSUME IInv, NEW c \in Circuit, circ["exit"][c] = "open", conflux["exit"][c] = None,
           circ' = Marked("exit", {c}), cells' \subseteq cells,
           <<"LINK", c>> \notin cells', <<"LINKED_ACK", c>> \notin cells',
           UNCHANGED <<linked_set, live, unlinked_set>>
    PROVE  IInv'
<1>1. /\ UNCHANGED <<conflux, linked_pool, legs, used, live>>
      /\ UNCHANGED <<unlinked_cfx, unlinked_legs, linked, num_leg_launch>>
      /\ "client" \in End /\ "exit" \in End /\ None \notin Circuit
  BY CircuitFacts DEF linked_set, unlinked_set, End
<1>2. /\ circ' \in [End -> [Circuit -> CircState]]
      /\ \A d \in Circuit : circ'["client"][d] = circ["client"][d]
      /\ \A d \in Circuit : d # c => circ'["exit"][d] = circ["exit"][d]
      /\ circ'["exit"][c] = "marked"
  <2>1. circ \in [End -> [Circuit -> CircState]]
    BY DEF IInv, TypeOK, CircState
  <2> QED
    BY <1>1, <2>1, MarkedFacts
<1>3. TypeOK'
  BY <1>1, <1>2 DEF IInv, TypeOK, CircState
<1>4. ObjectPart("client")'
  BY <1>1, <1>2, ObjectFrame DEF IInv
<1>5. ObjectPart("exit")'
  <2>1. \A o \in Circuit : c \notin legs["exit"][o]
    BY <1>1 DEF IInv, ObjectPart
  <2> QED
    BY <1>1, <1>2, <2>1, ObjectFrame DEF IInv
<1>6. LivePart'
  BY <1>1 DEF IInv, LivePart
<1>7. UnlinkedPart'
  <2>1. unlinked_legs \subseteq Circuit /\ linked \subseteq Circuit
    BY DEF IInv, TypeOK
  <2> QED
    BY <1>1, <1>2, <2>1 DEF IInv, UnlinkedPart
<1>8. CellPart'
  <2>1. \A d \in Circuit : circ'["exit"][d] # "building"
    BY <1>2 DEF IInv, CellPart
  <2>2. \A d \in Circuit : circ'["exit"][d] = "none" <=> circ["exit"][d] = "none"
    BY <1>2
  <2>3. /\ \A d \in Circuit : circ'["exit"][d] # "none" =>
             circ'["client"][d] \in {"open", "marked", "freed"}
        /\ \A d \in Circuit : circ'["exit"][d] = "none" => d \notin live'["exit"]
    BY <1>1, <1>2, <2>2 DEF IInv, CellPart
  <2>4. CellPart
    BY DEF IInv
  <2>5. ASSUME NEW d \in Circuit, <<"LINK", d>> \in cells'
        PROVE  /\ circ'["exit"][d] = "open" /\ conflux'["exit"][d] = None
               /\ d \notin live'["exit"]
               /\ <<"LINKED", d>> \notin cells' /\ <<"LINKED_ACK", d>> \notin cells'
               /\ circ'["client"][d] = "open" => d \in unlinked_legs' \ linked'
    BY <1>1, <1>2, <2>4, <2>5 DEF CellPart
  <2>6. ASSUME NEW d \in Circuit, <<"LINKED", d>> \in cells'
        PROVE  /\ circ'["client"][d] = "open" /\ d \in unlinked_legs' \ linked'
               /\ circ'["exit"][d] = "open" => conflux'["exit"][d] # None
    BY <1>1, <1>2, <2>4, <2>6 DEF CellPart
  <2>7. ASSUME NEW d \in Circuit, <<"LINKED_ACK", d>> \in cells'
        PROVE  circ'["exit"][d] = "open" /\ conflux'["exit"][d] # None
    BY <1>1, <1>2, <2>4, <2>7 DEF CellPart
  <2> QED
    BY <2>1, <2>3, <2>5, <2>6, <2>7 DEF CellPart
<1>9. LinkedAtExitFirst'
  BY <1>1, <1>2 DEF IInv, LinkedAtExitFirst
<1> QED
  BY <1>3, <1>4, <1>5, <1>6, <1>7, <1>8, <1>9 DEF IInv

\* circuit_mark_for_close
LEMMA InvCloses ==
    ASSUME IInv, NEW e \in End, NEW c \in Circuit, Closes(e, c)
    PROVE  IInv'
<1>1. CASE /\ e = "client" /\ c \in unlinked_legs /\ UnlinkedLegCloses(c)
           /\ cells' = cells \ Lost(e, {c}) /\ UNCHANGED linked_set
  <2>1. cells' = cells \ {<<"LINKED", c>>}
    BY <1>1 DEF Lost
  <2> QED
    BY <1>1, <2>1, InvUnlinkedClose
<1>2. CASE /\ conflux[e][c] # None /\ LinkedLegCloses(e, c)
           /\ UNCHANGED <<live, used, unlinked_set>>
  <2>1. circ[e][c] = "open"
    BY <1>2 DEF Closes, IInv, ObjectPart, End
  <2> QED
    BY <1>2, <2>1, InvLinkedClose
<1>3. CASE /\ e = "exit" /\ conflux[e][c] = None /\ circ' = Marked(e, {c})
           /\ cells' = cells \ Lost(e, {c}) /\ UNCHANGED <<linked_set, live, unlinked_set>>
  <2>1. circ["exit"][c] = "open"
    <3>1. circ["exit"][c] \in {"building", "open"}
      BY <1>3 DEF Closes
    <3>2. circ["exit"][c] # "building"
      BY DEF IInv, CellPart
    <3> QED
      BY <3>1, <3>2
  <2>2. /\ cells' \subseteq cells
        /\ <<"LINK", c>> \notin cells' /\ <<"LINKED_ACK", c>> \notin cells'
    BY <1>3 DEF Lost, ToExit
  <2> QED
    BY <1>3, <2>1, <2>2, InvExitMark
<1> QED
  BY <1>1, <1>2, <1>3 DEF Closes

\* circuit_close_all_marked
LEMMA InvCloseAllMarked ==
    ASSUME IInv, NEW e \in End, CloseAllMarked(e)
    PROVE  IInv'
<1> DEFINE marked == {c \in Circuit : circ[e][c] = "marked"}
           gone == {conflux[e][c] : c \in marked} \ {None}
<1>1. /\ circ \in [End -> [Circuit -> CircState]]
      /\ conflux \in [End -> [Circuit -> Circuit \cup {None}]]
      /\ linked_pool \in [End -> Circuit \cup {None}]
      /\ live \in [End -> SUBSET Circuit] /\ used \in [End -> SUBSET Circuit]
      /\ unlinked_legs \subseteq Circuit /\ linked \subseteq Circuit
      /\ "client" \in End /\ "exit" \in End /\ None \notin Circuit /\ End = {"client", "exit"}
  BY CircuitFacts DEF IInv, TypeOK, CircState, End
<1>2. /\ UNCHANGED <<legs, cells, unlinked_cfx, unlinked_legs, linked, num_leg_launch>>
      /\ circ' \in [End -> [Circuit -> CircState]]
      /\ conflux' \in [End -> [Circuit -> Circuit \cup {None}]]
      /\ linked_pool' \in [End -> Circuit \cup {None}]
      /\ live' \in [End -> SUBSET Circuit] /\ used' \in [End -> SUBSET Circuit]
  BY <1>1 DEF CloseAllMarked, unlinked_set, CircState
<1>3. /\ \A d \in Circuit : d \in marked => circ'[e][d] = "freed" /\ conflux'[e][d] = None
      /\ \A d \in Circuit : d \notin marked => /\ circ'[e][d] = circ[e][d]
                                               /\ conflux'[e][d] = conflux[e][d]
      /\ live'[e] = live[e] \ gone
      /\ linked_pool'[e] \in {None, linked_pool[e]}
      /\ \A f \in End : f # e => /\ circ'[f] = circ[f] /\ conflux'[f] = conflux[f]
                                 /\ live'[f] = live[f] /\ linked_pool'[f] = linked_pool[f]
  BY <1>1 DEF CloseAllMarked
<1>4. /\ \A d \in Circuit : d \in marked <=> circ[e][d] = "marked"
      /\ \A o \in Circuit : o \in gone <=> \E d \in Circuit : circ[e][d] = "marked" /\ conflux[e][d] = o
  BY <1>1
<1> HIDE DEF marked, gone
<1>5. TypeOK'
  BY <1>2 DEF IInv, TypeOK, CircState
<1>6. ObjectPart(e) /\ ObjectPart("client") /\ ObjectPart("exit")
  BY <1>1 DEF IInv
<1>7. ObjectPart(e)'
  <2>1. \A c \in Circuit : circ'[e][c] # "marked"
    BY <1>3, <1>4
  <2>2. \A c, o \in Circuit : c \in legs'[e][o] <=> circ'[e][c] = "open" /\ conflux'[e][c] = o
    BY <1>1, <1>2, <1>3, <1>4, <1>6 DEF ObjectPart
  <2> QED
    BY <1>1, <1>2, <1>3, <1>4, <1>6, <2>1, <2>2 DEF ObjectPart
<1>8. ASSUME NEW f \in End, f # e PROVE ObjectPart(f)'
  <2>1. ObjectPart(f)
    BY <1>1, <1>6
  <2> QED
    BY <1>2, <1>3, <1>8, <2>1, ObjectFrame
<1>9. ASSUME NEW o \in Circuit
      PROVE  (\E d \in Circuit : conflux'[e][d] = o) <=>
               (\E d \in Circuit : conflux[e][d] = o) /\ o \notin gone
  <2>1. ASSUME NEW d \in Circuit, conflux'[e][d] = o PROVE conflux[e][d] = o /\ o \notin gone
    <3>1. d \notin marked /\ conflux[e][d] = o
      BY <1>1, <1>3, <2>1
    <3>2. ASSUME o \in gone PROVE FALSE
      <4>1. PICK m \in Circuit : circ[e][m] = "marked" /\ conflux[e][m] = o
        BY <1>4, <3>2
      <4>2. m = d
        BY <1>1, <1>6, <3>1, <4>1 DEF ObjectPart
      <4> QED
        BY <1>4, <3>1, <4>1, <4>2
    <3> QED
      BY <3>1, <3>2
  <2>2. ASSUME NEW d \in Circuit, conflux[e][d] = o, o \notin gone PROVE conflux'[e][d] = o
    BY <1>3, <1>4, <2>2
  <2> QED
    BY <2>1, <2>2
<1>10. LivePart'
  <2>1. LivePart
    BY DEF IInv
  <2>2. CASE e = "exit"
    <3>1. \A o \in Circuit : o \in live'["exit"] <=> \E d \in Circuit : conflux'["exit"][d] = o
      BY <1>3, <1>9, <2>1, <2>2 DEF LivePart
    <3> QED
      BY <1>1, <1>2, <1>3, <2>1, <2>2, <3>1 DEF LivePart
  <2>3. CASE e = "client"
    <3>1. \A o \in gone : o \in Circuit => unlinked_cfx # o
      BY <1>1, <1>4, <2>3 DEF IInv, UnlinkedPart
    <3>2. \A o \in Circuit : o \in live'["client"] <=>
             (\E d \in Circuit : conflux'["client"][d] = o) \/ unlinked_cfx' = o
      BY <1>2, <1>3, <1>9, <2>1, <2>3, <3>1 DEF LivePart
    <3> QED
      BY <1>1, <1>3, <2>1, <2>3, <3>2 DEF LivePart
  <2> QED
    BY <1>1, <2>2, <2>3
<1>11. /\ \A f \in End, d \in Circuit :
            /\ circ[f][d] # "marked" => circ'[f][d] = circ[f][d] /\ conflux'[f][d] = conflux[f][d]
            /\ circ[f][d] = "marked" => circ'[f][d] \in {"marked", "freed"}
            /\ conflux'[f][d] # None => conflux[f][d] # None
       /\ live'["exit"] \subseteq live["exit"]
  BY <1>1, <1>3, <1>4
<1>12. UnlinkedPart'
  BY <1>1, <1>2, <1>11 DEF IInv, UnlinkedPart
<1>13. CellPart'
  BY <1>1, <1>2, <1>11 DEF IInv, CellPart
<1>14. LinkedAtExitFirst'
  BY <1>1, <1>2, <1>11 DEF IInv, LinkedAtExitFirst
<1> QED
  BY <1>1, <1>5, <1>7, <1>8, <1>10, <1>12, <1>13, <1>14 DEF IInv

-----------------------------------------------------------------------------
(* The client launches legs, and the handshake.                            *)

\* launch_new_set
LEMMA InvLaunch ==
    ASSUME IInv, LaunchNewSet
    PROVE  IInv'
<1>1. PICK n \in 1..NumLegs, k \in 1..MaxLaunch :
         /\ (n = NumLegs /\ k = n) \/ (NumLegs > 1 /\ k > n)
         /\ num_leg_launch' = k
         /\ unlinked_cfx' = 1 /\ unlinked_legs' = 1..n
         /\ circ' = [circ EXCEPT !["client"] =
                        [c \in Circuit |-> IF c \in 1..n THEN "building" ELSE "none"]]
  BY DEF LaunchNewSet
<1>2. /\ UNCHANGED <<conflux, linked_pool, legs, used, linked, cells>>
      /\ live' = [live EXCEPT !["client"] = {1}] /\ num_leg_launch = 0
  BY DEF LaunchNewSet, linked_set
<1>3. /\ None \notin Circuit /\ Circuit \subseteq Nat /\ 1 \in Circuit /\ MaxLaunch \in Nat
      /\ Circuit = 1..MaxLaunch /\ NumLegs \in Nat /\ NumLegs <= MaxLaunch
      /\ "client" \in End /\ "exit" \in End
  BY CircuitFacts, PoolParameters DEF Circuit, End
<1>4. n \in Nat /\ k \in Nat /\ k >= n /\ 1..n \subseteq Circuit /\ n >= 1 /\ k >= 1 /\ k <= MaxLaunch
  BY <1>1, <1>3
<1>5. TypeOK
  BY DEF IInv
<1>6. /\ \A d \in Circuit : circ["client"][d] = "none" /\ circ["exit"][d] = "none"
      /\ \A d \in Circuit : conflux["client"][d] = None /\ conflux["exit"][d] = None
      /\ linked = {} /\ unlinked_cfx = None
  <2>1. \A d \in Circuit : circ["client"][d] = "none"
    BY <1>2, <1>3 DEF IInv, UnlinkedPart, Circuit
  <2>2. \A d \in Circuit : circ["exit"][d] = "none"
    BY <2>1 DEF IInv, CellPart
  <2>3. linked = {} /\ unlinked_cfx = None
    BY <1>2, <1>5 DEF IInv, UnlinkedPart, TypeOK
  <2> QED
    BY <2>1, <2>2, <2>3 DEF IInv, ObjectPart
<1>7. /\ circ' \in [End -> [Circuit -> CircState]]
      /\ \A d \in Circuit : circ'["client"][d] = IF d \in 1..n THEN "building" ELSE "none"
      /\ \A d \in Circuit : circ'["exit"][d] = circ["exit"][d]
  <2>1. circ \in [End -> [Circuit -> CircState]]
    BY <1>5 DEF TypeOK, CircState
  <2> QED
    BY <1>1, <1>3, <2>1 DEF CircState
<1>8. live' \in [End -> SUBSET Circuit] /\ live'["client"] = {1} /\ live'["exit"] = live["exit"]
  BY <1>2, <1>3, <1>5 DEF TypeOK
<1>9. TypeOK'
  BY <1>1, <1>2, <1>4, <1>5, <1>6, <1>7, <1>8, <1>3 DEF TypeOK, CircState
<1>10. ObjectPart("client")'
  <2>1. \A d, o \in Circuit : d \notin legs["client"][o]
    BY <1>3, <1>6 DEF IInv, ObjectPart
  <2> QED
    BY <1>2, <1>3, <1>6, <2>1, ObjectFrame DEF IInv
<1>11. ObjectPart("exit")'
  BY <1>2, <1>3, <1>7, ObjectFrame DEF IInv
<1>12. LivePart'
  BY <1>1, <1>2, <1>3, <1>6, <1>8 DEF IInv, LivePart
<1>13. UnlinkedPart'
  <2>1. \A d \in Circuit : d > k => d \notin 1..n
    BY <1>3, <1>4
  <2>2. unlinked_cfx' # None /\ unlinked_legs' # {} /\ num_leg_launch' # 0
    <3>1. unlinked_cfx' # None /\ num_leg_launch' # 0
      BY <1>1, <1>3, <1>4
    <3>2. 1 \in 1..n
      BY <1>4
    <3> QED
      BY <1>1, <3>1, <3>2
  <2>3. \A d \in unlinked_legs' : circ'["client"][d] \in {"building", "open"}
    BY <1>1, <1>4, <1>7
  <2>4. \A d \in Circuit : circ'["client"][d] = "building" => d \in unlinked_legs'
    BY <1>1, <1>7
  <2>5. \A d \in Circuit : d > num_leg_launch' => circ'["client"][d] = "none"
    BY <1>1, <1>7, <2>1
  <2> QED
    BY <1>2, <1>6, <2>2, <2>3, <2>4, <2>5 DEF UnlinkedPart
<1>14. CellPart'
  BY <1>2, <1>6, <1>7, <1>8 DEF IInv, CellPart
<1>15. LinkedAtExitFirst'
  BY <1>2, <1>6, <1>7 DEF LinkedAtExitFirst
<1> QED
  BY <1>9, <1>10, <1>11, <1>12, <1>13, <1>14, <1>15 DEF IInv

\* conflux_circuit_has_opened
LEMMA InvHasOpened ==
    ASSUME IInv, NEW c \in Circuit, HasOpened(c)
    PROVE  IInv'
<1>1. /\ circ["client"][c] = "building"
      /\ circ' = [e \in End |-> [circ[e] EXCEPT ![c] = "open"]]
      /\ cells' = cells \cup {<<"LINK", c>>}
      /\ UNCHANGED <<conflux, linked_pool, legs, used, live>>
      /\ UNCHANGED <<unlinked_cfx, unlinked_legs, linked, num_leg_launch>>
      /\ "client" \in End /\ "exit" \in End /\ None \notin Circuit
  BY CircuitFacts DEF HasOpened, linked_set, unlinked_set, End
<1>2. /\ circ' \in [End -> [Circuit -> CircState]]
      /\ \A f \in End, d \in Circuit : d # c => circ'[f][d] = circ[f][d]
      /\ circ'["client"][c] = "open" /\ circ'["exit"][c] = "open"
  <2>1. circ \in [End -> [Circuit -> CircState]]
    BY DEF IInv, TypeOK, CircState
  <2> QED
    BY <1>1, <2>1 DEF CircState
<1>3. /\ circ["exit"][c] = "none" /\ c \in unlinked_legs /\ c \notin linked
      /\ c \notin live["exit"]
      /\ <<"LINKED", c>> \notin cells /\ <<"LINKED_ACK", c>> \notin cells
  BY <1>1 DEF IInv, CellPart, UnlinkedPart
<1>4. /\ conflux["client"][c] = None /\ conflux["exit"][c] = None
      /\ \A o \in Circuit : c \notin legs["client"][o] /\ c \notin legs["exit"][o]
  BY <1>1, <1>3 DEF IInv, ObjectPart
<1>5. TypeOK'
  <2>1. cells' \subseteq (ToExit \cup {"LINKED"}) \X Circuit
    BY <1>1 DEF IInv, TypeOK, ToExit
  <2> QED
    BY <1>1, <1>2, <2>1 DEF IInv, TypeOK, CircState
<1>6. ObjectPart("client")'
  BY <1>1, <1>2, <1>4, ObjectFrame DEF IInv
<1>7. ObjectPart("exit")'
  BY <1>1, <1>2, <1>4, ObjectFrame DEF IInv
<1>8. LivePart'
  BY <1>1 DEF IInv, LivePart
<1>9. UnlinkedPart'
  <2>1. unlinked_legs \subseteq Circuit /\ linked \subseteq Circuit
    BY DEF IInv, TypeOK
  <2>2. ~(c > num_leg_launch)
    BY <1>1 DEF IInv, UnlinkedPart
  <2> QED
    BY <1>1, <1>2, <1>3, <2>1, <2>2 DEF IInv, UnlinkedPart
<1>10. CellPart'
  <2>1. CellPart
    BY DEF IInv
  <2>2. ASSUME NEW d \in Circuit
        PROVE  /\ circ'["exit"][d] # "none" => circ'["client"][d] \in {"open", "marked", "freed"}
               /\ circ'["exit"][d] # "building"
               /\ circ'["exit"][d] = "none" => d \notin live'["exit"]
    BY <1>1, <1>2, <2>1 DEF CellPart
  <2>3. ASSUME NEW d \in Circuit, <<"LINK", d>> \in cells'
        PROVE  /\ circ'["exit"][d] = "open" /\ conflux'["exit"][d] = None /\ d \notin live'["exit"]
               /\ <<"LINKED", d>> \notin cells' /\ <<"LINKED_ACK", d>> \notin cells'
               /\ circ'["client"][d] = "open" => d \in unlinked_legs' \ linked'
    <3>1. CASE d = c
      BY <1>1, <1>2, <1>3, <1>4, <3>1
    <3>2. CASE d # c
      BY <1>1, <1>2, <2>1, <2>3, <3>2 DEF CellPart
    <3> QED
      BY <3>1, <3>2
  <2>4. ASSUME NEW d \in Circuit, <<"LINKED", d>> \in cells'
        PROVE  /\ circ'["client"][d] = "open" /\ d \in unlinked_legs' \ linked'
               /\ circ'["exit"][d] = "open" => conflux'["exit"][d] # None
    BY <1>1, <1>2, <1>3, <2>1, <2>4 DEF CellPart
  <2>5. ASSUME NEW d \in Circuit, <<"LINKED_ACK", d>> \in cells'
        PROVE  circ'["exit"][d] = "open" /\ conflux'["exit"][d] # None
    BY <1>1, <1>2, <1>3, <2>1, <2>5 DEF CellPart
  <2> QED
    BY <2>2, <2>3, <2>4, <2>5 DEF CellPart
<1>11. LinkedAtExitFirst'
  BY <1>1, <1>2, <1>3, <1>4 DEF IInv, LinkedAtExitFirst
<1> QED
  BY <1>5, <1>6, <1>7, <1>8, <1>9, <1>10, <1>11 DEF IInv

\* conflux_process_link, when the leg is accepted for object o
LEMMA InvLink ==
    ASSUME IInv, NEW c \in Circuit, <<"LINK", c>> \in cells, NEW o,
           o = IF linked_pool["exit"] # None THEN linked_pool["exit"] ELSE c,
           Finalize("exit", o, {c}), live' = [live EXCEPT !["exit"] = @ \cup {o}],
           cells' = (cells \ {<<"LINK", c>>}) \cup Sent("LINKED", c, "client"),
           UNCHANGED <<circ, used, unlinked_set>>
    PROVE  IInv'
<1>1. /\ UNCHANGED <<circ, used>>
      /\ UNCHANGED <<unlinked_cfx, unlinked_legs, linked, num_leg_launch>>
      /\ "client" \in End /\ "exit" \in End /\ None \notin Circuit
  BY CircuitFacts DEF unlinked_set, End
<1>2. /\ circ["exit"][c] = "open" /\ conflux["exit"][c] = None /\ c \notin live["exit"]
      /\ <<"LINKED", c>> \notin cells /\ <<"LINKED_ACK", c>> \notin cells
      /\ circ["client"][c] = "open" => c \in unlinked_legs \ linked
  BY DEF IInv, CellPart
<1>3. TypeOK /\ ObjectPart("exit") /\ ObjectPart("client") /\ LivePart
  BY DEF IInv
<1>4. /\ o \in Circuit
      /\ o = c \/ o \in live["exit"]
      /\ \A d \in Circuit : conflux["exit"][d] = o => circ["exit"][d] # "marked"
  <2>1. CASE linked_pool["exit"] # None
    <3>1. o = linked_pool["exit"] /\ o \in Circuit
      BY <1>1, <1>3, <2>1 DEF TypeOK
    <3>2. PICK l \in legs["exit"][o] : TRUE
      BY <1>3, <2>1, <3>1 DEF ObjectPart
    <3>3. l \in Circuit
      BY <1>1, <1>3, <3>1, <3>2 DEF TypeOK
    <3>4. circ["exit"][l] = "open" /\ conflux["exit"][l] = o
      BY <1>3, <3>1, <3>2, <3>3 DEF ObjectPart
    <3>5. o \in live["exit"]
      BY <1>3, <3>1, <3>3, <3>4 DEF LivePart
    <3>6. \A d \in Circuit : conflux["exit"][d] = o /\ circ["exit"][d] = "marked" => l = d
      BY <1>1, <1>3, <3>1, <3>3, <3>4 DEF ObjectPart
    <3> QED
      BY <3>1, <3>4, <3>5, <3>6
  <2>2. CASE linked_pool["exit"] = None
    BY <1>2, <1>3, <2>2 DEF LivePart
  <2> QED
    BY <2>1, <2>2
<1>5. /\ conflux' \in [End -> [Circuit -> Circuit \cup {None}]]
      /\ conflux'["client"] = conflux["client"]
      /\ conflux'["exit"][c] = o
      /\ \A d \in Circuit : d # c => conflux'["exit"][d] = conflux["exit"][d]
  <2>1. conflux \in [End -> [Circuit -> Circuit \cup {None}]]
    BY <1>3 DEF TypeOK
  <2> QED
    BY <1>1, <1>4, <2>1 DEF Finalize
<1>6. /\ legs' \in [End -> [Circuit -> SUBSET Circuit]]
      /\ legs'["client"] = legs["client"]
      /\ legs'["exit"][o] = legs["exit"][o] \cup {c}
      /\ \A p \in Circuit : p # o => legs'["exit"][p] = legs["exit"][p]
  <2>1. legs \in [End -> [Circuit -> SUBSET Circuit]]
    BY <1>3 DEF TypeOK
  <2>2. legs' = [legs EXCEPT !["exit"] = [legs["exit"] EXCEPT ![o] = legs["exit"][o] \cup {c}]]
    BY <1>1, <1>4, <2>1 DEF Finalize
  <2> QED
    BY <1>1, <1>4, <2>1, <2>2
<1>7. /\ linked_pool' \in [End -> Circuit \cup {None}] /\ linked_pool'["exit"] = o
      /\ linked_pool'["client"] = linked_pool["client"]
      /\ live' \in [End -> SUBSET Circuit] /\ live'["exit"] = live["exit"] \cup {o}
      /\ live'["client"] = live["client"]
  BY <1>1, <1>3, <1>4 DEF TypeOK, Finalize
<1>8. /\ cells' \subseteq (ToExit \cup {"LINKED"}) \X Circuit
      /\ <<"LINK", c>> \notin cells'
      /\ \A d \in Circuit : <<"LINK", d>> \in cells' => <<"LINK", d>> \in cells
      /\ \A d \in Circuit : <<"LINKED_ACK", d>> \in cells' => <<"LINKED_ACK", d>> \in cells
      /\ \A d \in Circuit : d # c /\ <<"LINKED", d>> \in cells' => <<"LINKED", d>> \in cells
      /\ <<"LINKED", c>> \in cells' => circ["client"][c] = "open"
  BY <1>2, <1>3 DEF TypeOK, Sent
<1>9. TypeOK'
  BY <1>1, <1>3, <1>5, <1>6, <1>7, <1>8 DEF TypeOK
<1>10. ObjectPart("client")'
  BY <1>1, <1>3, <1>5, <1>6, <1>7, ObjectFrame
<1>11. ObjectPart("exit")'
  <2>1. \A d \in Circuit : conflux'["exit"][d] # None => circ["exit"][d] \in {"open", "marked"}
    BY <1>2, <1>3, <1>5 DEF ObjectPart
  <2>2. ASSUME NEW d \in Circuit, NEW p \in Circuit
        PROVE  d \in legs'["exit"][p] <=> circ["exit"][d] = "open" /\ conflux'["exit"][d] = p
    <3>1. d \in legs["exit"][p] <=> circ["exit"][d] = "open" /\ conflux["exit"][d] = p
      BY <1>3 DEF ObjectPart
    <3>2. CASE p = o
      BY <1>2, <1>4, <1>5, <1>6, <3>1, <3>2
    <3>3. CASE p # o
      BY <1>1, <1>2, <1>5, <1>6, <3>1, <3>3
    <3> QED
      BY <3>2, <3>3
  <2>3. ASSUME NEW d \in Circuit, NEW f \in Circuit, circ["exit"][d] = "marked",
               conflux'["exit"][d] # None, conflux'["exit"][f] = conflux'["exit"][d]
        PROVE  f = d
    <3>1. d # c /\ conflux["exit"][d] = conflux'["exit"][d]
      BY <1>2, <1>5, <2>3
    <3>2. f # c
      BY <1>4, <1>5, <2>3, <3>1
    <3>3. conflux["exit"][f] = conflux["exit"][d]
      BY <1>5, <2>3, <3>1, <3>2
    <3> QED
      BY <1>3, <2>3, <3>1, <3>3 DEF ObjectPart
  <2>4. legs'["exit"][linked_pool'["exit"]] # {}
    BY <1>6, <1>7
  <2> QED
    BY <1>1, <2>1, <2>2, <2>3, <2>4 DEF ObjectPart
<1>12. LivePart'
  <2>1. ASSUME NEW p \in Circuit
        PROVE  p \in live'["exit"] <=> \E d \in Circuit : conflux'["exit"][d] = p
    <3>1. CASE p = o
      BY <1>5, <1>7, <3>1
    <3>2. CASE p # o
      <4>1. p \in live["exit"] <=> \E d \in Circuit : conflux["exit"][d] = p
        BY <1>3 DEF LivePart
      <4>2. (\E d \in Circuit : conflux["exit"][d] = p) <=> \E d \in Circuit : conflux'["exit"][d] = p
        BY <1>1, <1>2, <1>5, <3>2
      <4> QED
        BY <1>7, <3>2, <4>1, <4>2
    <3> QED
      BY <3>1, <3>2
  <2> QED
    BY <1>1, <1>3, <1>5, <1>7, <2>1 DEF LivePart
<1>13. UnlinkedPart'
  BY <1>1, <1>5 DEF IInv, UnlinkedPart
<1>14. CellPart'
  <2>1. CellPart
    BY DEF IInv
  <2>2. ASSUME NEW d \in Circuit
        PROVE  /\ circ'["exit"][d] # "none" => circ'["client"][d] \in {"open", "marked", "freed"}
               /\ circ'["exit"][d] # "building"
               /\ circ'["exit"][d] = "none" => d \notin live'["exit"]
    BY <1>1, <1>2, <1>4, <1>7, <2>1 DEF CellPart
  <2>3. ASSUME NEW d \in Circuit, <<"LINK", d>> \in cells'
        PROVE  /\ circ'["exit"][d] = "open" /\ conflux'["exit"][d] = None /\ d \notin live'["exit"]
               /\ <<"LINKED", d>> \notin cells' /\ <<"LINKED_ACK", d>> \notin cells'
               /\ circ'["client"][d] = "open" => d \in unlinked_legs' \ linked'
    <3>1. d # c /\ <<"LINK", d>> \in cells
      BY <1>8, <2>3
    <3>2. d \notin live["exit"] /\ d # o
      BY <1>4, <2>1, <3>1 DEF CellPart
    <3> QED
      BY <1>1, <1>5, <1>7, <1>8, <2>1, <3>1, <3>2 DEF CellPart
  <2>4. ASSUME NEW d \in Circuit, <<"LINKED", d>> \in cells'
        PROVE  /\ circ'["client"][d] = "open" /\ d \in unlinked_legs' \ linked'
               /\ circ'["exit"][d] = "open" => conflux'["exit"][d] # None
    <3>1. CASE d = c
      BY <1>1, <1>2, <1>4, <1>5, <1>8, <2>4, <3>1
    <3>2. CASE d # c
      BY <1>1, <1>5, <1>8, <2>1, <2>4, <3>2 DEF CellPart
    <3> QED
      BY <3>1, <3>2
  <2>5. ASSUME NEW d \in Circuit, <<"LINKED_ACK", d>> \in cells'
        PROVE  circ'["exit"][d] = "open" /\ conflux'["exit"][d] # None
    BY <1>1, <1>2, <1>5, <1>8, <2>1, <2>5 DEF CellPart
  <2> QED
    BY <2>2, <2>3, <2>4, <2>5 DEF CellPart
<1>15. LinkedAtExitFirst'
  BY <1>1, <1>4, <1>5 DEF IInv, LinkedAtExitFirst
<1> QED
  BY <1>9, <1>10, <1>11, <1>12, <1>13, <1>14, <1>15 DEF IInv

\* conflux_process_link
LEMMA InvReceiveLink ==
    ASSUME IInv, NEW c \in Circuit, ReceiveLink(c)
    PROVE  IInv'
<1> DEFINE o == IF linked_pool["exit"] # None THEN linked_pool["exit"] ELSE c
<1>1. <<"LINK", c>> \in cells /\ UNCHANGED <<used, unlinked_set>>
  BY DEF ReceiveLink
<1>2. CASE RejectLeg(c) /\ cells' = cells \ {<<"LINK", c>>}
  <2>1. /\ circ["exit"][c] = "open" /\ conflux["exit"][c] = None
        /\ <<"LINKED_ACK", c>> \notin cells
    BY <1>1 DEF IInv, CellPart
  <2>2. circ' = Marked("exit", {c}) /\ UNCHANGED <<linked_set, live, unlinked_set>>
    BY <1>1, <1>2 DEF RejectLeg, linked_set
  <2>3. /\ cells' \subseteq cells
        /\ <<"LINK", c>> \notin cells' /\ <<"LINKED_ACK", c>> \notin cells'
    BY <1>2, <2>1
  <2> QED
    BY <2>1, <2>2, <2>3, InvExitMark
<1>3. CASE /\ Finalize("exit", o, {c})
           /\ live' = [live EXCEPT !["exit"] = @ \cup {o}]
           /\ cells' = (cells \ {<<"LINK", c>>}) \cup Sent("LINKED", c, "client")
           /\ UNCHANGED circ
  BY <1>1, <1>3, InvLink
<1> QED
  BY <1>2, <1>3 DEF ReceiveLink

\* conflux_process_linked, when legs of the set are still missing
LEMMA InvLegLinked ==
    ASSUME IInv, NEW c \in Circuit, <<"LINKED", c>> \in cells,
           cells' = (cells \ {<<"LINKED", c>>}) \cup Sent("LINKED_ACK", c, "exit"),
           linked' = linked \cup {c},
           UNCHANGED <<conflux, linked_pool, legs, unlinked_cfx, unlinked_legs>>,
           UNCHANGED <<circ, live, used, num_leg_launch>>
    PROVE  IInv'
<1>1. TypeOK /\ CellPart
  BY DEF IInv
<1>2. /\ circ["client"][c] = "open" /\ c \in unlinked_legs \ linked
      /\ circ["exit"][c] = "open" => conflux["exit"][c] # None
      /\ <<"LINK", c>> \notin cells
  BY <1>1 DEF CellPart
<1>3. /\ cells' \subseteq (ToExit \cup {"LINKED"}) \X Circuit
      /\ <<"LINKED", c>> \notin cells'
      /\ \A d \in Circuit : <<"LINK", d>> \in cells' => <<"LINK", d>> \in cells
      /\ \A d \in Circuit : <<"LINKED", d>> \in cells' => <<"LINKED", d>> \in cells
      /\ \A d \in Circuit : d # c /\ <<"LINKED_ACK", d>> \in cells' => <<"LINKED_ACK", d>> \in cells
      /\ <<"LINKED_ACK", c>> \in cells' => <<"LINKED_ACK", c>> \in cells \/ circ["exit"][c] = "open"
  BY <1>1 DEF TypeOK, Sent, ToExit
<1>4. TypeOK'
  BY <1>1, <1>2, <1>3 DEF TypeOK
<1>5. ObjectPart("client")' /\ ObjectPart("exit")' /\ LivePart'
  BY DEF IInv, ObjectPart, LivePart
<1>6. UnlinkedPart'
  BY <1>2 DEF IInv, UnlinkedPart
<1>7. CellPart'
  <2>1. ASSUME NEW d \in Circuit, <<"LINK", d>> \in cells'
        PROVE  /\ circ'["exit"][d] = "open" /\ conflux'["exit"][d] = None /\ d \notin live'["exit"]
               /\ <<"LINKED", d>> \notin cells' /\ <<"LINKED_ACK", d>> \notin cells'
               /\ circ'["client"][d] = "open" => d \in unlinked_legs' \ linked'
    <3>1. d # c /\ <<"LINK", d>> \in cells
      BY <1>2, <1>3, <2>1
    <3> QED
      BY <1>1, <1>3, <3>1 DEF CellPart
  <2>2. ASSUME NEW d \in Circuit, <<"LINKED", d>> \in cells'
        PROVE  /\ circ'["client"][d] = "open" /\ d \in unlinked_legs' \ linked'
               /\ circ'["exit"][d] = "open" => conflux'["exit"][d] # None
    <3>1. d # c /\ <<"LINKED", d>> \in cells
      BY <1>3, <2>2
    <3> QED
      BY <1>1, <3>1 DEF CellPart
  <2>3. ASSUME NEW d \in Circuit, <<"LINKED_ACK", d>> \in cells'
        PROVE  circ'["exit"][d] = "open" /\ conflux'["exit"][d] # None
    BY <1>1, <1>2, <1>3, <2>3 DEF CellPart
  <2> QED
    BY <1>1, <2>1, <2>2, <2>3 DEF CellPart
<1>8. LinkedAtExitFirst'
  BY <1>2 DEF IInv, LinkedAtExitFirst
<1> QED
  BY <1>4, <1>5, <1>6, <1>7, <1>8 DEF IInv

\* conflux_process_linked, when the leg is the last one: try_finalize_set
LEMMA InvSetLinked ==
    ASSUME IInv, NEW c \in Circuit, <<"LINKED", c>> \in cells,
           cells' = (cells \ {<<"LINKED", c>>}) \cup Sent("LINKED_ACK", c, "exit"),
           unlinked_legs \subseteq linked \cup {c},
           Finalize("client", unlinked_cfx, unlinked_legs),
           unlinked_cfx' = None, unlinked_legs' = {}, linked' = {},
           UNCHANGED <<circ, live, used, num_leg_launch>>
    PROVE  IInv'
<1> DEFINE o == unlinked_cfx
           ls == unlinked_legs
<1>1. /\ TypeOK /\ CellPart /\ ObjectPart("client") /\ ObjectPart("exit") /\ LivePart
      /\ "client" \in End /\ "exit" \in End /\ None \notin Circuit
  BY CircuitFacts DEF IInv, End
<1>2. /\ circ["client"][c] = "open" /\ c \in ls \ linked
      /\ circ["exit"][c] = "open" => conflux["exit"][c] # None
      /\ <<"LINK", c>> \notin cells
  BY <1>1 DEF CellPart
<1>3. /\ o \in Circuit /\ ls # {} /\ ls \subseteq Circuit
      /\ \A d \in Circuit : conflux["client"][d] = None
      /\ \A d \in ls : circ["client"][d] = "open"
  BY <1>1, <1>2 DEF IInv, UnlinkedPart, TypeOK
<1>4. /\ \A p \in Circuit : legs["client"][p] = {}
      /\ linked_pool["client"] = None
  <2>1. \A d, p \in Circuit : d \notin legs["client"][p]
    BY <1>1, <1>3 DEF ObjectPart
  <2>2. \A p \in Circuit : legs["client"][p] \subseteq Circuit
    BY <1>1 DEF TypeOK
  <2>3. linked_pool["client"] \in Circuit \cup {None}
    BY <1>1 DEF TypeOK
  <2> QED
    BY <1>1, <2>1, <2>2, <2>3 DEF ObjectPart
<1>5. /\ conflux' \in [End -> [Circuit -> Circuit \cup {None}]]
      /\ conflux'["exit"] = conflux["exit"]
      /\ \A d \in ls : conflux'["client"][d] = o
      /\ \A d \in Circuit : d \notin ls => conflux'["client"][d] = None
  <2>1. conflux \in [End -> [Circuit -> Circuit \cup {None}]]
    BY <1>1 DEF TypeOK
  <2> QED
    BY <1>1, <1>3, <2>1 DEF Finalize
<1>6. /\ legs' \in [End -> [Circuit -> SUBSET Circuit]]
      /\ legs'["exit"] = legs["exit"]
      /\ legs'["client"][o] = ls
      /\ \A p \in Circuit : p # o => legs'["client"][p] = {}
  <2>1. legs \in [End -> [Circuit -> SUBSET Circuit]]
    BY <1>1 DEF TypeOK
  <2>2. legs' = [legs EXCEPT !["client"] = [legs["client"] EXCEPT ![o] = legs["client"][o] \cup ls]]
    BY <1>1, <1>3, <2>1 DEF Finalize
  <2> QED
    BY <1>1, <1>3, <1>4, <2>1, <2>2
<1>7. /\ linked_pool' \in [End -> Circuit \cup {None}] /\ linked_pool'["client"] = o
      /\ linked_pool'["exit"] = linked_pool["exit"]
  BY <1>1, <1>3 DEF TypeOK, Finalize
<1>8. /\ cells' \subseteq (ToExit \cup {"LINKED"}) \X Circuit
      /\ <<"LINKED", c>> \notin cells'
      /\ \A d \in Circuit : <<"LINK", d>> \in cells' => <<"LINK", d>> \in cells
      /\ \A d \in Circuit : <<"LINKED", d>> \in cells' => <<"LINKED", d>> \in cells
      /\ \A d \in Circuit : d # c /\ <<"LINKED_ACK", d>> \in cells' => <<"LINKED_ACK", d>> \in cells
      /\ <<"LINKED_ACK", c>> \in cells' => <<"LINKED_ACK", c>> \in cells \/ circ["exit"][c] = "open"
  BY <1>1 DEF TypeOK, Sent, ToExit
<1>9. TypeOK'
  BY <1>1, <1>5, <1>6, <1>7, <1>8 DEF TypeOK
<1>10. ObjectPart("client")'
  <2>1. ASSUME NEW d \in Circuit
        PROVE  /\ conflux'["client"][d] # None => d \in ls /\ circ'["client"][d] = "open"
               /\ d \in ls => conflux'["client"][d] = o /\ circ'["client"][d] = "open"
    BY <1>3, <1>5
  <2>2. ASSUME NEW d \in Circuit, NEW p \in Circuit
        PROVE  d \in legs'["client"][p] <=> circ'["client"][d] = "open" /\ conflux'["client"][d] = p
    BY <1>1, <1>3, <1>5, <1>6, <2>1
  <2>3. legs'["client"][linked_pool'["client"]] # {}
    BY <1>3, <1>6, <1>7
  <2> QED
    BY <2>1, <2>2, <2>3 DEF ObjectPart
<1>11. ObjectPart("exit")'
  BY <1>1, <1>5, <1>6, <1>7, ObjectFrame
<1>12. LivePart'
  <2>1. ASSUME NEW p \in Circuit
        PROVE  p \in live'["client"] <=>
                 (\E d \in Circuit : conflux'["client"][d] = p) \/ unlinked_cfx' = p
    <3>1. p \in live["client"] <=> p = o
      BY <1>1, <1>3 DEF LivePart
    <3>2. (\E d \in Circuit : conflux'["client"][d] = p) <=> p = o
      BY <1>1, <1>3, <1>5
    <3>3. unlinked_cfx' # p
      BY <1>1
    <3> QED
      BY <3>1, <3>2, <3>3
  <2>2. ASSUME NEW p \in Circuit
        PROVE  p \in live'["exit"] <=> \E d \in Circuit : conflux'["exit"][d] = p
    BY <1>1, <1>5 DEF LivePart
  <2> QED
    BY <2>1, <2>2 DEF LivePart
<1>13. UnlinkedPart'
  <2>1. \A d \in Circuit : circ'["client"][d] # "building"
    BY <1>3 DEF IInv, UnlinkedPart
  <2> QED
    BY <2>1 DEF IInv, UnlinkedPart
<1>14. CellPart'
  <2>1. ASSUME NEW d \in Circuit, <<"LINK", d>> \in cells'
        PROVE  /\ circ'["exit"][d] = "open" /\ conflux'["exit"][d] = None /\ d \notin live'["exit"]
               /\ <<"LINKED", d>> \notin cells' /\ <<"LINKED_ACK", d>> \notin cells'
               /\ circ'["client"][d] # "open"
    <3>1. d # c /\ <<"LINK", d>> \in cells
      BY <1>2, <1>8, <2>1
    <3> QED
      BY <1>1, <1>5, <1>8, <3>1 DEF CellPart
  <2>2. \A d \in Circuit : <<"LINKED", d>> \notin cells'
    BY <1>1, <1>8 DEF CellPart
  <2>3. ASSUME NEW d \in Circuit, <<"LINKED_ACK", d>> \in cells'
        PROVE  circ'["exit"][d] = "open" /\ conflux'["exit"][d] # None
    BY <1>1, <1>2, <1>5, <1>8, <2>3 DEF CellPart
  <2> QED
    BY <1>1, <2>1, <2>2, <2>3 DEF CellPart
<1>15. LinkedAtExitFirst'
  <2>1. \A d \in ls : circ["exit"][d] = "open" => conflux["exit"][d] # None
    BY <1>2, <1>3 DEF IInv, LinkedAtExitFirst
  <2> QED
    BY <1>5, <2>1 DEF LinkedAtExitFirst
<1> QED
  BY <1>9, <1>10, <1>11, <1>12, <1>13, <1>14, <1>15 DEF IInv

\* conflux_process_linked
LEMMA InvReceiveLinked ==
    ASSUME IInv, NEW c \in Circuit, ReceiveLinked(c)
    PROVE  IInv'
<1>1. <<"LINKED", c>> \in cells /\ c \in unlinked_legs
  BY DEF ReceiveLinked, IInv, CellPart
<1>2. CASE /\ UnlinkedLegCloses(c) /\ cells' = cells \ {<<"LINKED", c>>}
           /\ UNCHANGED linked_set
  BY <1>1, <1>2, InvUnlinkedClose
<1>3. CASE /\ cells' = (cells \ {<<"LINKED", c>>}) \cup Sent("LINKED_ACK", c, "exit")
           /\ unlinked_legs \subseteq linked \cup {c}
           /\ Finalize("client", unlinked_cfx, unlinked_legs)
           /\ unlinked_cfx' = None /\ unlinked_legs' = {} /\ linked' = {}
           /\ UNCHANGED <<circ, live, used, num_leg_launch>>
  BY <1>1, <1>3, InvSetLinked
<1>4. CASE /\ cells' = (cells \ {<<"LINKED", c>>}) \cup Sent("LINKED_ACK", c, "exit")
           /\ linked' = linked \cup {c}
           /\ UNCHANGED <<conflux, linked_pool, legs, unlinked_cfx, unlinked_legs>>
           /\ UNCHANGED <<circ, live, used, num_leg_launch>>
  BY <1>1, <1>4, InvLegLinked
<1> QED
  BY <1>2, <1>3, <1>4 DEF ReceiveLinked

\* conflux_process_linked_ack: the leg is linked, so no LINKED_ACK closes a circuit.
LEMMA InvReceiveLinkedAck ==
    ASSUME IInv, NEW c \in Circuit, ReceiveLinkedAck(c)
    PROVE  IInv' /\ UNCHANGED circ
<1>1. /\ UNCHANGED <<circ, conflux, linked_pool, legs, used, live>>
      /\ UNCHANGED <<unlinked_cfx, unlinked_legs, linked, num_leg_launch>>
      /\ cells' \subseteq cells
  BY DEF ReceiveLinkedAck, IInv, CellPart, linked_set, unlinked_set
<1>2. TypeOK'
  BY <1>1 DEF IInv, TypeOK
<1>3. ObjectPart("client")' /\ ObjectPart("exit")' /\ LivePart' /\ UnlinkedPart'
  BY <1>1 DEF IInv, ObjectPart, LivePart, UnlinkedPart
<1>4. CellPart' /\ LinkedAtExitFirst'
  BY <1>1 DEF IInv, CellPart, LinkedAtExitFirst
<1> QED
  BY <1>1, <1>2, <1>3, <1>4 DEF IInv

\* Data that is sent or arrives changes nothing of the sets.
LEMMA InvData ==
    ASSUME IInv, NEW c \in Circuit, SendData(c) \/ ReceiveData(c)
    PROVE  IInv'
<1>1. /\ UNCHANGED <<circ, conflux, linked_pool, legs, live>>
      /\ UNCHANGED <<unlinked_cfx, unlinked_legs, linked, num_leg_launch>>
  BY DEF SendData, ReceiveData, unlinked_set
<1>2. /\ cells' \subseteq cells \cup {<<"DATA", c>>}
      /\ cells' \subseteq (ToExit \cup {"LINKED"}) \X Circuit
  BY DEF IInv, TypeOK, SendData, ReceiveData, Sent, ToExit
<1>3. \A d \in Circuit : /\ <<"LINK", d>> \in cells' => <<"LINK", d>> \in cells
                         /\ <<"LINKED", d>> \in cells' => <<"LINKED", d>> \in cells
                         /\ <<"LINKED_ACK", d>> \in cells' => <<"LINKED_ACK", d>> \in cells
  BY <1>2
<1>4. TypeOK'
  <2>1. used' \in [End -> SUBSET Circuit]
    <3>1. /\ used \in [End -> SUBSET Circuit]
          /\ conflux["client"][c] \in Circuit \cup {None}
          /\ conflux["exit"][c] \in Circuit \cup {None}
      BY DEF IInv, TypeOK, End
    <3> QED
      BY <3>1 DEF SendData, ReceiveData, End
  <2> QED
    BY <1>1, <1>2, <2>1 DEF IInv, TypeOK
<1>5. ObjectPart("client")' /\ ObjectPart("exit")' /\ LivePart' /\ UnlinkedPart'
  BY <1>1 DEF IInv, ObjectPart, LivePart, UnlinkedPart
<1>6. CellPart' /\ LinkedAtExitFirst'
  BY <1>1, <1>3 DEF IInv, CellPart, LinkedAtExitFirst
<1> QED
  BY <1>4, <1>5, <1>6 DEF IInv

-----------------------------------------------------------------------------
(* The theorems.                                                           *)

LEMMA InvInit == Init => IInv
<1> SUFFICES ASSUME Init PROVE IInv
  OBVIOUS
<1>1. /\ None \notin Circuit /\ MaxLaunch \in Nat /\ "client" \in End /\ "exit" \in End
  BY CircuitFacts DEF End
<1>2. TypeOK
  BY <1>1 DEF Init, TypeOK
<1>3. /\ \A e \in End, c \in Circuit : /\ circ[e][c] = "none" /\ conflux[e][c] = None
                                       /\ legs[e][c] = {}
      /\ \A e \in End : linked_pool[e] = None /\ live[e] = {}
  BY DEF Init
<1>4. ObjectPart("client") /\ ObjectPart("exit")
  BY <1>1, <1>3 DEF ObjectPart
<1>5. LivePart /\ UnlinkedPart /\ CellPart /\ LinkedAtExitFirst
  BY <1>1, <1>3 DEF Init, LivePart, UnlinkedPart, CellPart, LinkedAtExitFirst
<1> QED
  BY <1>2, <1>4, <1>5 DEF IInv

LEMMA InvNext == IInv /\ [Next]_vars => IInv'
<1> SUFFICES ASSUME IInv, [Next]_vars PROVE IInv'
  OBVIOUS
<1>1. CASE LaunchNewSet
  BY <1>1, InvLaunch
<1>2. ASSUME NEW c \in Circuit,
             \/ HasOpened(c) \/ ReceiveLink(c) \/ ReceiveLinked(c)
             \/ ReceiveLinkedAck(c) \/ SendData(c) \/ ReceiveData(c)
      PROVE  IInv'
  BY <1>2, InvHasOpened, InvReceiveLink, InvReceiveLinked, InvReceiveLinkedAck, InvData
<1>3. ASSUME NEW e \in End, NEW c \in Circuit, Closes(e, c)
      PROVE  IInv'
  BY <1>3, InvCloses
<1>4. ASSUME NEW e \in End, CloseAllMarked(e)
      PROVE  IInv'
  BY <1>4, InvCloseAllMarked
<1>5. CASE UNCHANGED vars
  <2>1. /\ UNCHANGED <<circ, conflux, linked_pool, legs, used, live, cells>>
        /\ UNCHANGED <<unlinked_cfx, unlinked_legs, linked, num_leg_launch>>
    BY <1>5 DEF vars, linked_set, unlinked_set
  <2>2. TypeOK' /\ ObjectPart("client")' /\ ObjectPart("exit")' /\ LivePart'
    BY <2>1 DEF IInv, TypeOK, ObjectPart, LivePart
  <2>3. UnlinkedPart' /\ CellPart' /\ LinkedAtExitFirst'
    BY <2>1 DEF IInv, UnlinkedPart, CellPart, LinkedAtExitFirst
  <2> QED
    BY <2>2, <2>3 DEF IInv
<1> QED
  BY <1>1, <1>2, <1>3, <1>4, <1>5 DEF Next

\* The inductive invariant holds in every reachable state of the two pools.
THEOREM Invariance == Spec => []IInv
BY InvInit, InvNext, PTL DEF Spec

\* What the pools hand out can be used, whatever closes, is rejected or is freed late: the
\* object in the linked pool has open legs that point back to it, and no leg of the nonce
\* is linked at the client as long as its unlinked set exists (linked_circuit_free's assert).
THEOREM PoolsAreCoherent == Spec => []PoolCoherent
<1>1. IInv => PoolCoherent
  <2> SUFFICES ASSUME IInv PROVE PoolCoherent
    OBVIOUS
  <2>1. TypeOK /\ ObjectPart("client") /\ ObjectPart("exit")
    BY DEF IInv
  <2>2. ASSUME NEW e \in End, linked_pool[e] # None
        PROVE  /\ legs[e][linked_pool[e]] # {}
               /\ \A c \in legs[e][linked_pool[e]] :
                    circ[e][c] = "open" /\ conflux[e][c] = linked_pool[e]
    <3>1. ObjectPart(e)
      BY <2>1 DEF End
    <3>2. linked_pool[e] \in Circuit /\ legs[e][linked_pool[e]] \subseteq Circuit
      BY <2>1, <2>2 DEF TypeOK
    <3> QED
      BY <2>2, <3>1, <3>2 DEF ObjectPart
  <2>3. unlinked_cfx # None => /\ unlinked_legs # {}
                               /\ \A c \in Circuit : conflux["client"][c] = None
    BY DEF IInv, UnlinkedPart
  <2> QED
    BY <2>1, <2>2, <2>3 DEF PoolCoherent
<1> QED
  BY <1>1, Invariance, PTL

\* A conflux_t is in memory exactly as long as a circuit or the client's unlinked set points
\* to it, and the last circuit that points to it is alone: it is freed once and never early.
THEOREM ObjectsAreOwned == Spec => []ObjectOwned
<1>1. IInv => ObjectOwned
  <2> SUFFICES ASSUME IInv, NEW e \in End, NEW o \in Circuit
               PROVE  LET holders == {c \in Circuit : conflux[e][c] = o}
                      IN  /\ o \in live[e] <=> holders # {} \/ (e = "client" /\ unlinked_cfx = o)
                          /\ legs[e][o] = {} => Cardinality(holders) <= 1
                          /\ legs[e][o] # {} => holders = legs[e][o]
    BY DEF ObjectOwned
  <2> DEFINE holders == {c \in Circuit : conflux[e][c] = o}
  <2>1. /\ TypeOK /\ ObjectPart(e) /\ LivePart /\ None \notin Circuit
    BY CircuitFacts DEF IInv, End
  <2>2. o \in live[e] <=> holders # {} \/ (e = "client" /\ unlinked_cfx = o)
    BY <2>1 DEF LivePart, End
  <2>3. ASSUME legs[e][o] = {} PROVE Cardinality(holders) <= 1
    <3>1. CASE holders = {}
      BY <3>1, FS_EmptySet
    <3>2. CASE holders # {}
      <4>1. PICK c \in holders : TRUE
        BY <3>2
      <4>2. c \in Circuit /\ conflux[e][c] = o /\ circ[e][c] = "marked"
        BY <2>1, <2>3, <4>1 DEF ObjectPart
      <4>3. \A d \in holders : d = c
        BY <2>1, <4>2 DEF ObjectPart
      <4>4. holders = {c}
        BY <4>1, <4>3
      <4>5. Cardinality({c}) = 1
        BY FS_Singleton, Zenon
      <4> HIDE DEF holders
      <4> QED
        BY <4>4, <4>5
    <3> QED
      BY <3>1, <3>2
  <2>4. ASSUME legs[e][o] # {} PROVE holders = legs[e][o]
    <3>1. legs[e][o] \subseteq Circuit
      BY <2>1 DEF TypeOK
    <3>2. PICK l \in legs[e][o] : TRUE
      BY <2>4
    <3>3. l \in Circuit /\ circ[e][l] = "open" /\ conflux[e][l] = o
      BY <2>1, <3>1, <3>2 DEF ObjectPart
    <3>4. ASSUME NEW d \in holders PROVE d \in legs[e][o]
      <4>1. d \in Circuit /\ conflux[e][d] = o /\ circ[e][d] \in {"open", "marked"}
        BY <2>1, <3>4 DEF ObjectPart
      <4>2. circ[e][d] # "marked"
        BY <2>1, <3>3, <4>1 DEF ObjectPart
      <4> QED
        BY <2>1, <4>1, <4>2 DEF ObjectPart
    <3>5. ASSUME NEW d \in legs[e][o] PROVE d \in holders
      BY <2>1, <3>1, <3>5 DEF ObjectPart
    <3> QED
      BY <3>4, <3>5
  <2> QED
    BY <2>2, <2>3, <2>4
<1> QED
  BY <1>1, Invariance, PTL

\* A leg that the client counts as linked, or uses, is linked at the exit, if it is open there.
THEOREM ExitLinksFirst == Spec => []LinkedAtExitFirst
<1>1. IInv => LinkedAtExitFirst
  BY DEF IInv
<1> QED
  BY <1>1, Invariance, PTL

\* conflux_process_linked_ack never finds a circuit that is not linked: the branch that
\* closes it is for a misbehaving client.
AckFindsLeg == [][\A c \in Circuit : ReceiveLinkedAck(c) => UNCHANGED circ]_vars

\* Between a client and an exit that follow the protocol, a LINKED_ACK closes no circuit.
THEOREM AcksAreExpected == Spec => AckFindsLeg
<1>1. IInv /\ [Next]_vars => [\A c \in Circuit : ReceiveLinkedAck(c) => UNCHANGED circ]_vars
  BY InvReceiveLinkedAck
<1> QED
  BY <1>1, Invariance, PTL DEF Spec, AckFindsLeg
=============================================================================
