---------------------------- MODULE SendmeProofs ----------------------------
(***************************************************************************)
(* Proofs about Sendme, for every window, increment and number of cells.   *)
(***************************************************************************)
EXTENDS Sendme, SequenceTheorems, TLAPS

-----------------------------------------------------------------------------
(* Arithmetic of the increments.                                           *)

\* x cells short of a multiple of k: divisible only when x is k itself.
LEMMA ModBelow ==
    ASSUME NEW k \in Nat \ {0}, NEW a \in Int, NEW r \in 1..k
    PROVE  (k * a - r) % k = 0 <=> r = k
OBVIOUS

\* r cells past a multiple of k: divisible only when r is k itself.
LEMMA ModAbove ==
    ASSUME NEW k \in Nat \ {0}, NEW a \in Int, NEW r \in 1..k
    PROVE  (k * a + r) % k = 0 <=> r = k
OBVIOUS

\* A window that lacks one increment and not two lacks exactly one.
LEMMA DivOne ==
    ASSUME NEW k \in Nat \ {0}, NEW x \in Int, k <= x, x < k + k
    PROVE  x \div k = 1
OBVIOUS

\* Products of the increment distribute; the provers use it as a rewrite.
LEMMA IncTimes ==
    ASSUME NEW k \in Nat \ {0}, NEW a \in Int, NEW b \in Int
    PROVE  /\ k * (a + b) = k * a + k * b
           /\ k * a \in Int
           /\ k * 1 = k
           /\ (a <= b <=> k * a <= k * b)
           /\ (a < b <=> k * a < k * b)
OBVIOUS

\* The test of circuit_sent_cell_for_sendme on inflight, in numbers: d cells sent,
\* a SENDMEs received, n increments completed.
LEMMA PredictInflight ==
    ASSUME NEW k \in Nat, k >= 2, NEW d \in Nat, NEW a \in Nat, NEW n \in Nat,
           k * n <= d, d < k * n + k
    PROVE  (d - k * a # 0 /\ (d - k * a + 1) % k = 0) <=> d + 1 = k * n + k
<1> DEFINE r == d + 1 - k * n
<1>1. r \in 1..k
  OBVIOUS
<1>2. d - k * a + 1 = k * (n - a) + r
  OBVIOUS
<1>3. (d - k * a + 1) % k = 0 <=> r = k
  <2>1. n - a \in Int /\ k \in Nat \ {0}
    OBVIOUS
  <2> HIDE DEF r
  <2>2. (k * (n - a) + r) % k = 0 <=> r = k
    BY <1>1, <2>1, ModAbove, Zenon
  <2> QED
    BY <1>2, <2>2, Zenon
<1>4. ASSUME d - k * a = 0 PROVE r # k
  <2>1. k * (n - a) + r = 1
    BY <1>2, <1>4
  <2>2. r = k => k * (n - a + 1) = 1
    BY <2>1
  <2>3. \A x \in Int : k * x # 1
    OBVIOUS
  <2> QED
    BY <2>2, <2>3
<1> QED
  BY <1>3, <1>4

\* What the arithmetic needs to know of the constants.
LEMMA Constants ==
    /\ Inc \in Nat /\ Inc > 0
    /\ CircwindowStart \in Nat /\ Inc <= CircwindowStart
    /\ PackageWindowInit \in Nat /\ PackageWindowInit <= CircwindowStart
    /\ CwndMin \in Nat /\ CwndMax \in Nat /\ CwndInit \in CwndMin..CwndMax
BY ConstantsAssumption

-----------------------------------------------------------------------------
(* Order on a link.                                                        *)

\* Cells on a link are numbered by naturals.
LEMMA CellNth ==
    ASSUME NEW s \in Seq(Cell), NEW i \in 1..Len(s)
    PROVE  s[i] \in Cell /\ s[i].nth \in Nat
<1>1. s[i] \in Cell
  OBVIOUS
<1> QED
  BY <1>1 DEF Cell

\* Appending the next cell of the command extends the numbering.
LEMMA AppendSame ==
    ASSUME NEW s \in Seq(Cell), NEW x \in Cell, NEW lo \in Nat, NEW hi \in Nat, NEW c,
           lo <= hi, InOrder(s, c, lo, hi), x.cmd = c, x.nth = hi + 1
    PROVE  InOrder(Append(s, x), c, lo, hi + 1)
<1> DEFINE t == Append(s, x)
<1>1. /\ DOMAIN t = 1..(Len(s) + 1) /\ DOMAIN s = 1..Len(s)
      /\ \A i \in 1..Len(s) : t[i] = s[i]
      /\ t[Len(s) + 1] = x
      /\ Len(s) \in Nat
  OBVIOUS
<1>n. \A i \in 1..Len(s) : s[i].nth \in Nat
  BY CellNth
<1> HIDE DEF t
<1>2. \A i \in DOMAIN t : t[i].cmd = c => lo < t[i].nth /\ t[i].nth <= hi + 1
  <2> TAKE i \in DOMAIN t
  <2>1. CASE i = Len(s) + 1
    BY <1>1, <2>1
  <2>2. CASE i \in DOMAIN s
    <3>1. t[i] = s[i] /\ s[i].nth \in Nat
      BY <1>1, <1>n, <2>2
    <3> QED
      BY <2>2, <3>1 DEF InOrder
  <2> QED
    BY <1>1, <2>1, <2>2
<1>3. \A i, j \in DOMAIN t :
          i < j /\ t[i].cmd = c /\ t[j].cmd = c => t[i].nth < t[j].nth
  <2> SUFFICES ASSUME NEW i \in DOMAIN t, NEW j \in DOMAIN t,
                      i < j, t[i].cmd = c, t[j].cmd = c
               PROVE  t[i].nth < t[j].nth
    OBVIOUS
  <2>1. i \in DOMAIN s /\ t[i] = s[i] /\ s[i].nth \in Nat
    BY <1>1, <1>n
  <2>2. CASE j = Len(s) + 1
    <3>1. s[i].nth <= hi /\ t[j].nth = hi + 1
      BY <1>1, <2>1, <2>2 DEF InOrder
    <3> QED
      BY <2>1, <3>1
  <2>3. CASE j \in DOMAIN s
    BY <1>1, <2>1, <2>3 DEF InOrder
  <2> QED
    BY <1>1, <2>2, <2>3
<1>4. \A n \in (lo + 1)..(hi + 1) : \E i \in DOMAIN t : t[i].cmd = c /\ t[i].nth = n
  BY <1>1, SMTT(40) DEF InOrder
<1>5. InOrder(t, c, lo, hi + 1)
  BY <1>2, <1>3, <1>4 DEF InOrder
<1> QED
  BY <1>5 DEF t

\* Appending a cell of another command does not disturb the numbering.
LEMMA AppendAnother ==
    ASSUME NEW s \in Seq(Cell), NEW x \in Cell, NEW lo \in Nat, NEW hi \in Nat, NEW c,
           InOrder(s, c, lo, hi), x.cmd # c
    PROVE  InOrder(Append(s, x), c, lo, hi)
<1> DEFINE t == Append(s, x)
<1>1. /\ DOMAIN t = 1..(Len(s) + 1) /\ DOMAIN s = 1..Len(s)
      /\ \A i \in 1..Len(s) : t[i] = s[i]
      /\ t[Len(s) + 1] = x
      /\ Len(s) \in Nat
  OBVIOUS
<1> HIDE DEF t
<1>2. \A i \in DOMAIN t : t[i].cmd = c => lo < t[i].nth /\ t[i].nth <= hi
  BY <1>1 DEF InOrder
<1>3. \A i, j \in DOMAIN t :
          i < j /\ t[i].cmd = c /\ t[j].cmd = c => t[i].nth < t[j].nth
  BY <1>1 DEF InOrder
<1>4. \A n \in (lo + 1)..hi : \E i \in DOMAIN t : t[i].cmd = c /\ t[i].nth = n
  BY <1>1 DEF InOrder
<1>5. InOrder(t, c, lo, hi)
  BY <1>2, <1>3, <1>4 DEF InOrder
<1> QED
  BY <1>5 DEF t

\* The head of the command at the front of the link is its oldest cell, and
\* taking it off leaves the rest in order.
LEMMA TailSame ==
    ASSUME NEW s \in Seq(Cell), NEW lo \in Nat, NEW hi \in Nat, NEW c,
           InOrder(s, c, lo, hi), s # <<>>, Head(s).cmd = c
    PROVE  /\ Head(s).nth = lo + 1 /\ lo + 1 <= hi
           /\ InOrder(Tail(s), c, lo + 1, hi)
<1> DEFINE t == Tail(s)
<1>1. /\ DOMAIN t = 1..(Len(s) - 1) /\ DOMAIN s = 1..Len(s)
      /\ \A i \in 1..(Len(s) - 1) : t[i] = s[i + 1]
      /\ Len(s) \in Nat /\ Len(s) > 0
      /\ Head(s) = s[1]
  OBVIOUS
<1>n. \A i \in 1..Len(s) : s[i].nth \in Nat
  BY CellNth
<1> HIDE DEF t
<1>2. s[1].nth = lo + 1 /\ lo + 1 <= hi
  <2>1. /\ s[1].nth \in Nat /\ s[1].cmd = c /\ 1 \in DOMAIN s
        /\ lo < s[1].nth /\ s[1].nth <= hi
    BY <1>1, <1>n DEF InOrder
  <2>2. PICK i \in DOMAIN s : s[i].cmd = c /\ s[i].nth = lo + 1
    BY <2>1 DEF InOrder
  <2>3. i # 1 => s[1].nth < lo + 1
    BY <1>1, <2>1, <2>2, SMTT(40) DEF InOrder
  <2> QED
    BY <2>1, <2>2, <2>3
<1>3. \A i \in DOMAIN t : t[i].cmd = c => lo + 1 < t[i].nth /\ t[i].nth <= hi
  <2> TAKE i \in DOMAIN t
  <2>1. /\ i + 1 \in DOMAIN s /\ t[i] = s[i + 1] /\ 1 \in DOMAIN s /\ 1 < i + 1
        /\ s[i + 1].nth \in Nat
    BY <1>1, <1>n
  <2>2. s[i + 1].cmd = c => s[1].nth < s[i + 1].nth /\ s[i + 1].nth <= hi
    BY <1>1, <2>1 DEF InOrder
  <2> QED
    BY <1>2, <2>1, <2>2
<1>4. \A i, j \in DOMAIN t :
          i < j /\ t[i].cmd = c /\ t[j].cmd = c => t[i].nth < t[j].nth
  <2> TAKE i, j \in DOMAIN t
  <2>1. /\ i + 1 \in DOMAIN s /\ j + 1 \in DOMAIN s /\ (i < j => i + 1 < j + 1)
        /\ t[i] = s[i + 1] /\ t[j] = s[j + 1]
    BY <1>1
  <2> QED
    BY <2>1 DEF InOrder
<1>5. \A n \in (lo + 1 + 1)..hi : \E i \in DOMAIN t : t[i].cmd = c /\ t[i].nth = n
  <2> TAKE n \in (lo + 1 + 1)..hi
  <2>1. PICK i \in DOMAIN s : s[i].cmd = c /\ s[i].nth = n
    BY DEF InOrder
  <2>2. i # 1 /\ i - 1 \in DOMAIN t /\ t[i - 1] = s[i]
    BY <1>1, <1>2, <2>1
  <2> QED
    BY <2>1, <2>2
<1>6. InOrder(t, c, lo + 1, hi)
  BY <1>3, <1>4, <1>5 DEF InOrder
<1> QED
  BY <1>1, <1>2, <1>6 DEF t

\* Taking off a cell of another command does not disturb the numbering.
LEMMA TailAnother ==
    ASSUME NEW s \in Seq(Cell), NEW lo \in Nat, NEW hi \in Nat, NEW c,
           InOrder(s, c, lo, hi), s # <<>>, Head(s).cmd # c
    PROVE  InOrder(Tail(s), c, lo, hi)
<1> DEFINE t == Tail(s)
<1>1. /\ DOMAIN t = 1..(Len(s) - 1) /\ DOMAIN s = 1..Len(s)
      /\ \A i \in 1..(Len(s) - 1) : t[i] = s[i + 1]
      /\ Len(s) \in Nat /\ Len(s) > 0
      /\ Head(s) = s[1]
  OBVIOUS
<1> HIDE DEF t
<1>3. \A i \in DOMAIN t : t[i].cmd = c => lo < t[i].nth /\ t[i].nth <= hi
  BY <1>1 DEF InOrder
<1>4. \A i, j \in DOMAIN t :
          i < j /\ t[i].cmd = c /\ t[j].cmd = c => t[i].nth < t[j].nth
  BY <1>1, SMTT(40) DEF InOrder
<1>5. \A n \in (lo + 1)..hi : \E i \in DOMAIN t : t[i].cmd = c /\ t[i].nth = n
  <2> TAKE n \in (lo + 1)..hi
  <2>1. PICK i \in DOMAIN s : s[i].cmd = c /\ s[i].nth = n
    BY DEF InOrder
  <2>2. i # 1 /\ i - 1 \in DOMAIN t /\ t[i - 1] = s[i]
    BY <1>1, <2>1
  <2> QED
    BY <2>1, <2>2
<1>6. InOrder(t, c, lo, hi)
  BY <1>3, <1>4, <1>5 DEF InOrder
<1> QED
  BY <1>6 DEF t

-----------------------------------------------------------------------------
(* The digests an end waits for.                                           *)

\* Recording the tag of the cell that completes the increment.
LEMMA AwaitsAppend ==
    ASSUME NEW q \in Seq(Tag), NEW e \in End, NEW a \in Nat, NEW d \in Nat,
           Awaits(q, e, a, d), d + 1 = Inc * (a + Len(q)) + Inc
    PROVE  Awaits(Append(q, [from |-> e, nth |-> d + 1]), e, a, d + 1)
<1> DEFINE tag == [from |-> e, nth |-> d + 1]
           t == Append(q, tag)
           n == Len(q)
<1>1. n \in Nat /\ Inc \in Nat \ {0} /\ tag \in Tag
  BY ConstantsAssumption DEF Tag
<1>2. /\ Len(t) = n + 1 /\ DOMAIN t = 1..(n + 1) /\ DOMAIN q = 1..n
      /\ \A i \in 1..n : t[i] = q[i]
      /\ t[n + 1] = tag
  BY <1>1
<1>3. Inc * (a + (n + 1)) = Inc * (a + n) + Inc /\ Inc * (a + n) \in Int
  <2> HIDE DEF n
  <2> QED
    BY <1>1
<1>4. ASSUME NEW i \in 1..(n + 1) PROVE t[i] = [from |-> e, nth |-> Inc * (a + i)]
  <2>1. CASE i = n + 1
    BY <1>2, <1>3, <2>1
  <2>2. CASE i \in 1..n
    BY <1>2, <2>2 DEF Awaits
  <2> QED
    BY <1>1, <2>1, <2>2
<1>5. Inc * (a + Len(t)) <= d + 1 /\ d + 1 < Inc * (a + Len(t)) + Inc
  <2> HIDE DEF t, n
  <2> QED
    BY <1>1, <1>2, <1>3 DEF n
<1> QED
  BY <1>2, <1>4, <1>5 DEF Awaits

\* A cell inside an increment records nothing.
LEMMA AwaitsSame ==
    ASSUME NEW q \in Seq(Tag), NEW e \in End, NEW a \in Nat, NEW d \in Nat,
           Awaits(q, e, a, d), d + 1 # Inc * (a + Len(q)) + Inc
    PROVE  Awaits(q, e, a, d + 1)
<1>1. Inc * (a + Len(q)) \in Int /\ Inc \in Int
  BY Constants
<1> QED
  BY <1>1 DEF Awaits

\* Popping the digest for a SENDME.
LEMMA AwaitsTail ==
    ASSUME NEW q \in Seq(Tag), NEW e \in End, NEW a \in Nat, NEW d \in Nat,
           Awaits(q, e, a, d), q # <<>>
    PROVE  /\ Head(q) = [from |-> e, nth |-> Inc * (a + 1)]
           /\ Awaits(Tail(q), e, a + 1, d)
<1> DEFINE t == Tail(q)
           n == Len(q)
<1>1. /\ n \in Nat /\ n > 0 /\ Len(t) = n - 1 /\ DOMAIN t = 1..(n - 1)
      /\ DOMAIN q = 1..n /\ Head(q) = q[1]
      /\ \A i \in 1..(n - 1) : t[i] = q[i + 1]
  OBVIOUS
<1>2. a + 1 + (n - 1) = a + n
  BY <1>1
<1>3. ASSUME NEW i \in 1..(n - 1) PROVE t[i] = [from |-> e, nth |-> Inc * (a + 1 + i)]
  <2>1. i + 1 \in 1..n /\ a + (i + 1) = a + 1 + i
    BY <1>1
  <2>2. q[i + 1] = [from |-> e, nth |-> Inc * (a + (i + 1))]
    BY <1>1, <2>1 DEF Awaits
  <2> QED
    BY <1>1, <2>1, <2>2
<1>4. Inc * (a + 1 + Len(t)) <= d /\ d < Inc * (a + 1 + Len(t)) + Inc
  BY <1>1, <1>2 DEF Awaits
<1>5. Head(q) = [from |-> e, nth |-> Inc * (a + 1)]
  BY <1>1 DEF Awaits
<1> QED
  BY <1>1, <1>3, <1>4, <1>5 DEF Awaits

-----------------------------------------------------------------------------
(* Type correctness.                                                       *)

\* The two ends are each other's peer.
LEMMA Peers ==
    ASSUME NEW e \in End
    PROVE  Peer(e) \in End /\ Peer(Peer(e)) = e /\ Peer(e) # e
BY DEF End, Peer

\* The SENDMEs of one pass of the loop are cells.
LEMMA SendmesType ==
    ASSUME TypeOK, NEW e \in End, NEW w \in Int, NEW tag \in Tag
    PROVE  /\ SendmesConsidered(e, w, tag) \in Seq(Cell)
           /\ Len(SendmesConsidered(e, w, tag)) =
                IF w > CircwindowStart - Inc THEN 0 ELSE (CircwindowStart - w) \div Inc
           /\ Len(SendmesConsidered(e, w, tag)) \in Nat
<1> DEFINE n == IF w > CircwindowStart - Inc THEN 0 ELSE (CircwindowStart - w) \div Inc
           s == SendmesConsidered(e, w, tag)
<1>1. n \in Nat
  BY Constants
<1>2. \A i \in 1..n : s[i] \in Cell
  <2> TAKE i \in 1..n
  <2>1. sendmes_sent[e] \in Nat
    BY DEF TypeOK
  <2>2. tag \in Tag /\ [from |-> e, nth |-> 0] \in Tag
    BY DEF Tag
  <2>3. s[i] = [cmd |-> "SENDME", nth |-> sendmes_sent[e] + i,
                ack |-> IF EmitVersion[e] = 0 THEN EmptyPayload
                        ELSE IF i = 1 THEN tag ELSE [from |-> e, nth |-> 0]]
    BY DEF SendmesConsidered
  <2> HIDE DEF s, n
  <2> QED
    BY <1>1, <2>1, <2>2, <2>3 DEF Cell
<1>3. s \in [1..n -> Cell]
  BY <1>2 DEF SendmesConsidered
<1>4. s \in Seq(Cell) /\ Len(s) = n
  <2> HIDE DEF s, n
  <2> QED
    BY <1>1, <1>3
<1> QED
  BY <1>1, <1>4

\* The cell at the front of a link is a cell, and its tag is a tag.
LEMMA HeadCell ==
    ASSUME TypeOK, NEW e \in End, link[e] # <<>>
    PROVE  /\ Head(link[e]) \in Cell /\ Head(link[e]).nth \in Nat
           /\ TagOf(e, Head(link[e])) \in Tag
           /\ Tail(link[e]) \in Seq(Cell)
<1>1. Head(link[e]) \in Cell /\ Tail(link[e]) \in Seq(Cell)
  BY DEF TypeOK
<1>2. Head(link[e]).nth \in Nat
  BY <1>1 DEF Cell
<1> QED
  BY <1>1, <1>2 DEF TagOf, Tag

\* Only the components of the state an action changes need their types checked.
LEMMA TypePackageData ==
    ASSUME TypeOK, NEW e \in End, PackageData(e)
    PROVE  TypeOK'
<1> DEFINE cell == [cmd |-> "DATA", nth |-> data_sent[e] + 1, ack |-> EmptyPayload]
<1>1. data_sent[e] \in Nat
  BY DEF TypeOK
<1>2. cell \in Cell /\ TagOf(e, cell) \in Tag
  BY <1>1 DEF Cell, TagOf, Tag
<1> HIDE DEF cell
<1>3. link' \in [End -> Seq(Cell)] /\ sendme_digest' \in [End -> Tag]
      /\ sendme_last_digests' \in [End -> Seq(Tag)]
  BY <1>2 DEF PackageData, TypeOK, cell
<1>4. package_window' \in [End -> 0..CircwindowStart]
  <2>1. CASE UsesCC
    BY <2>1 DEF PackageData, NoteDataPackaged, TypeOK
  <2>2. CASE ~UsesCC
    <3>1. /\ package_window[e] > 0
          /\ package_window' = [package_window EXCEPT ![e] = @ - 1]
      BY <2>2 DEF PackageData, NoteDataPackaged, GetPackageWindow
    <3>2. package_window \in [End -> 0..CircwindowStart]
      BY DEF TypeOK
    <3>3. package_window[e] - 1 \in 0..CircwindowStart
      BY <3>1, <3>2, Constants
    <3> QED
      BY <3>1, <3>2, <3>3
  <2> QED
    BY <2>1, <2>2
<1>5. inflight' \in [End -> Int]
  <2>1. inflight' = inflight \/ inflight' = [inflight EXCEPT ![e] = @ + 1]
    BY DEF PackageData, NoteDataPackaged
  <2>2. inflight \in [End -> Int]
    BY DEF TypeOK
  <2> QED
    BY <2>1, <2>2
<1>6. data_sent' \in [End -> Nat]
  BY SMTT(40) DEF PackageData, TypeOK
<1> QED
  BY <1>3, <1>4, <1>5, <1>6 DEF PackageData, TypeOK

LEMMA TypeSendOther ==
    ASSUME TypeOK, NEW e \in End, SendOther(e)
    PROVE  TypeOK'
<1> DEFINE cell == [cmd |-> "OTHER", nth |-> other_sent[e] + 1, ack |-> EmptyPayload]
<1>1. other_sent[e] \in Nat
  BY DEF TypeOK
<1>2. cell \in Cell /\ TagOf(e, cell) \in Tag
  BY <1>1 DEF Cell, TagOf, Tag
<1> HIDE DEF cell
<1>3. link' \in [End -> Seq(Cell)] /\ sendme_digest' \in [End -> Tag]
  BY <1>2 DEF SendOther, TypeOK, cell
<1>4. other_sent' \in [End -> Nat]
  BY DEF SendOther, TypeOK
<1> QED
  BY <1>3, <1>4 DEF SendOther, TypeOK, windows

LEMMA TypeReceiveData ==
    ASSUME TypeOK, NEW e \in End, ReceiveData(e)
    PROVE  TypeOK'
<1> DEFINE p == Peer(e)
           w == deliver_window[e] - 1
           tag == TagOf(Peer(e), Head(link[Peer(e)]))
           s == SendmesConsidered(e, w, tag)
<1>1. p \in End /\ p # e
  BY Peers
<1>2. tag \in Tag /\ Tail(link[p]) \in Seq(Cell)
  BY <1>1, HeadCell DEF ReceiveData, Incoming
<1>3. w \in Int /\ link[e] \in Seq(Cell) /\ [from |-> e, nth |-> 0] \in Tag
  BY DEF TypeOK, Tag
<1>4. s \in Seq(Cell) /\ Len(s) \in Nat
  BY <1>2, <1>3, SendmesType
<1>5. Len(s) * Inc \in Int
  BY <1>4, Constants
<1>6. IF w < 0
      THEN /\ marked_for_close' = [marked_for_close EXCEPT ![e] = TRUE]
           /\ deliver_window' = [deliver_window EXCEPT ![e] = w]
           /\ link' = [link EXCEPT ![p] = Tail(@)]
           /\ sendme_digest' = [sendme_digest EXCEPT ![e] = tag]
           /\ UNCHANGED <<sendmes_sent, data_rcvd>>
      ELSE /\ deliver_window' = [deliver_window EXCEPT ![e] = w + Len(s) * Inc]
           /\ link' = [link EXCEPT ![p] = Tail(@), ![e] = @ \o s]
           /\ sendme_digest' = [sendme_digest EXCEPT ![e] =
                IF Len(s) = 0 THEN tag ELSE [from |-> e, nth |-> 0]]
           /\ sendmes_sent' = [sendmes_sent EXCEPT ![e] = @ + Len(s)]
           /\ data_rcvd' = [data_rcvd EXCEPT ![e] = @ + 1]
           /\ UNCHANGED marked_for_close
  BY DEF ReceiveData
<1>7. UNCHANGED <<package_window, inflight, cwnd, sendme_last_digests, data_sent,
                  sendmes_rcvd, other_sent>>
  BY DEF ReceiveData
<1> HIDE DEF p, w, tag, s
<1>8. deliver_window' \in [End -> Int]
  <2>1. deliver_window \in [End -> Int] /\ w + Len(s) * Inc \in Int
    BY <1>3, <1>5, SMTT(40) DEF TypeOK
  <2> QED
    BY <1>3, <1>6, <2>1
<1>9. sendme_digest' \in [End -> Tag]
  BY <1>2, <1>3, <1>6 DEF TypeOK
<1>10. link' \in [End -> Seq(Cell)]
  <2>1. link[e] \o s \in Seq(Cell)
    BY <1>3, <1>4
  <2> QED
    BY <1>1, <1>2, <1>6, <2>1, ZenonT(40) DEF TypeOK
<1>11. sendmes_sent' \in [End -> Nat] /\ data_rcvd' \in [End -> Nat]
  <2>1. sendmes_sent \in [End -> Nat] /\ data_rcvd \in [End -> Nat]
    BY DEF TypeOK
  <2>2. CASE w < 0
    BY <1>6, <2>1, <2>2
  <2>3. CASE ~(w < 0)
    <3>1. /\ sendmes_sent' = [sendmes_sent EXCEPT ![e] = @ + Len(s)]
          /\ data_rcvd' = [data_rcvd EXCEPT ![e] = @ + 1]
      BY <1>6, <2>3
    <3>2. sendmes_sent[e] + Len(s) \in Nat /\ data_rcvd[e] + 1 \in Nat
      BY <1>4, <2>1
    <3> QED
      BY <2>1, <3>1, <3>2
  <2> QED
    BY <2>2, <2>3
<1>12. marked_for_close' \in [End -> BOOLEAN]
  BY <1>6 DEF TypeOK
<1> QED
  BY <1>7, <1>8, <1>9, <1>10, <1>11, <1>12 DEF TypeOK

LEMMA TypeReceiveSendme ==
    ASSUME TypeOK, NEW e \in End, ReceiveSendme(e)
    PROVE  TypeOK'
<1>1. /\ Peer(e) \in End /\ Tail(link[Peer(e)]) \in Seq(Cell)
      /\ TagOf(Peer(e), Head(link[Peer(e)])) \in Tag
  BY Peers, HeadCell DEF ReceiveSendme, Incoming
<1>2. link' \in [End -> Seq(Cell)] /\ sendme_digest' \in [End -> Tag]
  BY <1>1 DEF ReceiveSendme, TypeOK
<1>3. sendme_last_digests' \in [End -> Seq(Tag)]
  <2>1. sendme_last_digests[e] # <<>> => Tail(sendme_last_digests[e]) \in Seq(Tag)
    BY DEF TypeOK
  <2> QED
    BY <2>1 DEF ReceiveSendme, TypeOK
<1>4. sendmes_rcvd' \in [End -> Nat] /\ marked_for_close' \in [End -> BOOLEAN]
  <2>1. \/ sendmes_rcvd' = sendmes_rcvd
        \/ sendmes_rcvd' = [sendmes_rcvd EXCEPT ![e] = @ + 1]
    BY DEF ReceiveSendme
  <2>2. \/ marked_for_close' = marked_for_close
        \/ marked_for_close' = [marked_for_close EXCEPT ![e] = TRUE]
    BY DEF ReceiveSendme
  <2>3. sendmes_rcvd \in [End -> Nat] /\ marked_for_close \in [End -> BOOLEAN]
    BY DEF TypeOK
  <2>4. sendmes_rcvd' \in [End -> Nat]
    BY <2>1, <2>3
  <2>5. marked_for_close' \in [End -> BOOLEAN]
    BY <2>2, <2>3
  <2> QED
    BY <2>4, <2>5
<1>5. /\ package_window' \in [End -> 0..CircwindowStart]
      /\ inflight' \in [End -> Int] /\ cwnd' \in [End -> CwndMin..CwndMax]
  <2>1. CASE UNCHANGED <<package_window, inflight, cwnd>>
    BY <2>1 DEF TypeOK
  <2>2. CASE UpdateWindow(e) /\ (UsesCC \/ package_window[e] + Inc <= CircwindowStart)
    <3>1. CASE UsesCC
      <4>1. /\ package_window' = package_window
            /\ inflight' = [inflight EXCEPT ![e] = @ - Inc]
            /\ \E w \in CwndMin..CwndMax : cwnd' = [cwnd EXCEPT ![e] = w]
        BY <2>2, <3>1 DEF UpdateWindow
      <4>2. inflight \in [End -> Int] /\ inflight[e] - Inc \in Int
        BY Constants, SMTT(40) DEF TypeOK
      <4>3. cwnd' \in [End -> CwndMin..CwndMax]
        BY <4>1 DEF TypeOK
      <4>4. inflight' \in [End -> Int]
        BY <4>1, <4>2
      <4> QED
        BY <4>1, <4>3, <4>4 DEF TypeOK
    <3>2. CASE ~UsesCC
      <4>1. package_window[e] + Inc \in 0..CircwindowStart
        BY <2>2, <3>2, Constants, SMTT(40) DEF TypeOK
      <4> QED
        BY <2>2, <3>2, <4>1 DEF UpdateWindow, TypeOK
    <3> QED
      BY <3>1, <3>2
  <2> QED
    BY <2>1, <2>2 DEF ReceiveSendme
<1> QED
  BY <1>2, <1>3, <1>4, <1>5 DEF ReceiveSendme, TypeOK

LEMMA TypeReceiveOther ==
    ASSUME TypeOK, NEW e \in End, ReceiveOther(e)
    PROVE  TypeOK'
<1>1. /\ Peer(e) \in End /\ Tail(link[Peer(e)]) \in Seq(Cell)
      /\ TagOf(Peer(e), Head(link[Peer(e)])) \in Tag
  BY Peers, HeadCell DEF ReceiveOther, Incoming
<1> QED
  BY <1>1 DEF ReceiveOther, TypeOK, windows, history

\* The variables keep their types; in particular the package window stays within
\* 0..CIRCWINDOW_START (the guard of the packaging loop in
\* connection_edge_package_raw_inbuf, the check of a SENDME in
\* sendme_process_circuit_level_impl), and the congestion window in its bounds.
THEOREM TypeCorrect == Spec => []TypeOK
<1>1. Init => TypeOK
  BY Constants DEF Init, TypeOK, Tag, Cell
<1>2. TypeOK /\ [Next]_vars => TypeOK'
  <2> SUFFICES ASSUME TypeOK, [Next]_vars PROVE TypeOK'
    OBVIOUS
  <2>1. CASE UNCHANGED vars
    BY <2>1 DEF vars, windows, history, TypeOK
  <2> QED
    BY <2>1, TypePackageData, TypeSendOther, TypeReceiveData, TypeReceiveSendme,
       TypeReceiveOther DEF Next, Receive
<1> QED
  BY <1>1, <1>2, PTL DEF Spec

-----------------------------------------------------------------------------
(* The inductive invariant.  Each action moves one count of each direction,*)
(* so every lemma treats the direction it serves and the other one apart.  *)

\* The prediction of circuit_sent_cell_for_sendme is right in every state of the
\* invariant: the cell completes an increment, and its digest is the next one due.
LEMMA Prediction ==
    ASSUME IInv, AgreeingParameters, NEW e \in End, GetPackageWindow(e) > 0
    PROVE  CircuitSentCellForSendme(e) <=>
             data_sent[e] + 1 = Inc * (sendmes_rcvd[e] + Len(sendme_last_digests[e])) + Inc
<1> DEFINE K == sendmes_rcvd[e] + Len(sendme_last_digests[e])
           A == sendmes_rcvd[e]
<1>1. K \in Nat /\ A \in Nat /\ A <= K /\ data_sent[e] \in Nat /\ Inc \in Nat /\ Inc >= 2
  BY Constants DEF IInv, TypeOK, AgreeingParameters
<1>2. Inc * K <= data_sent[e] /\ data_sent[e] < Inc * K + Inc
  BY DEF IInv, DigestsInv, Awaits
<1>3. CASE UsesCC
  <2>1. inflight[e] = data_sent[e] - Inc * A
    BY <1>3 DEF IInv, WindowsInv, Unacked
  <2> HIDE DEF K, A
  <2>2. (inflight[e] # 0 /\ (inflight[e] + 1) % Inc = 0) <=> data_sent[e] + 1 = Inc * K + Inc
    <3> DEFINE D == data_sent[e]
    <3>1. D \in Nat /\ Inc * K <= D /\ D < Inc * K + Inc
      BY <1>1, <1>2
    <3> HIDE DEF D
    <3>2. (D - Inc * A # 0 /\ (D - Inc * A + 1) % Inc = 0) <=> D + 1 = Inc * K + Inc
      BY <1>1, <3>1, PredictInflight, ZenonT(40)
    <3> QED
      BY <2>1, <3>2, Zenon DEF D
  <2> QED
    BY <1>3, <2>2 DEF CircuitSentCellForSendme, K
<1>4. CASE ~UsesCC
  <2>1. PICK m \in Nat : PackageWindowInit = Inc * m
    BY <1>4 DEF AgreeingParameters
  <2>2. package_window[e] = Inc * m - (data_sent[e] - Inc * A)
    BY <1>4, <2>1 DEF IInv, WindowsInv, Unacked
  <2>3. CircwindowStart \in Nat /\ Inc * m <= CircwindowStart
    BY <2>1, Constants
  <2> HIDE DEF K, A
  <2>4. (package_window[e] # CircwindowStart /\ (package_window[e] - 1) % Inc = 0)
          <=> data_sent[e] + 1 = Inc * K + Inc
    <3> DEFINE D == data_sent[e]
               w == package_window[e]
    <3>1. /\ D \in Nat /\ Inc * K <= D /\ D < Inc * K + Inc
          /\ w \in Int /\ w = Inc * m - (D - Inc * A)
      BY <1>1, <1>2, <2>2 DEF IInv, TypeOK
    <3> HIDE DEF D, w
    <3>2. (w # CircwindowStart /\ (w - 1) % Inc = 0) <=> D + 1 = Inc * K + Inc
      <4> DEFINE r == D + 1 - Inc * K
      <4>1. r \in 1..Inc /\ m + A - K \in Int /\ Inc \in Nat \ {0}
        BY <1>1, <3>1
      <4>2. w - 1 = Inc * (m + A - K) - r
        BY <1>1, <3>1
      <4>3. Inc * A <= Inc * K
        BY <1>1, IncTimes
      <4>4. w = CircwindowStart => r # Inc
        BY <1>1, <2>3, <3>1, <4>3
      <4>5. r = Inc <=> D + 1 = Inc * K + Inc
        BY <1>1, <3>1
      <4> HIDE DEF r
      <4>6. (Inc * (m + A - K) - r) % Inc = 0 <=> r = Inc
        BY <4>1, ModBelow, Zenon
      <4> QED
        BY <4>2, <4>4, <4>5, <4>6, Zenon
    <3> QED
      BY <3>2, Zenon DEF D, w
  <2> QED
    BY <1>4, <2>4 DEF CircuitSentCellForSendme, K
<1> QED
  BY <1>3, <1>4

\* The conjuncts of the invariant at one end, with the types its proof uses.
LEMMA Parts ==
    ASSUME IInv, NEW e \in End
    PROVE  /\ CountsInv(e) /\ WindowsInv(e) /\ DigestsInv(e) /\ LinksInv(e)
           /\ data_sent[e] \in Nat /\ data_rcvd[e] \in Nat
           /\ sendmes_sent[e] \in Nat /\ sendmes_rcvd[e] \in Nat
           /\ link[e] \in Seq(Cell) /\ sendme_last_digests[e] \in Seq(Tag)
           /\ Len(sendme_last_digests[e]) \in Nat
           /\ package_window[e] \in Int /\ inflight[e] \in Int
           /\ deliver_window[e] \in Int /\ cwnd[e] \in CwndMin..CwndMax
           /\ Peer(e) \in End /\ Peer(Peer(e)) = e /\ Peer(e) # e
<1>1. TypeOK
  BY DEF IInv
<1>2. package_window[e] \in Int
  BY <1>1, Constants DEF TypeOK
<1> QED
  BY <1>1, <1>2, Peers DEF IInv, TypeOK

\* An invariant of both ends, from its four conjuncts at one end and at its peer.
LEMMA BothEnds ==
    ASSUME NEW x \in End, TypeOK', HonestCircuitStaysOpen',
           CountsInv(x)', WindowsInv(x)', DigestsInv(x)', LinksInv(x)',
           CountsInv(Peer(x))', WindowsInv(Peer(x))', DigestsInv(Peer(x))',
           LinksInv(Peer(x))'
    PROVE  IInv'
<1>1. \A e \in End : e = x \/ e = Peer(x)
  BY DEF End, Peer
<1> QED
  BY <1>1 DEF IInv

\* Appending a cell that acknowledges what it should, or is no SENDME at all.
LEMMA AcknowledgeAppend ==
    ASSUME NEW s \in Seq(Cell), NEW c \in Cell, NEW e \in End, Acknowledge(s, e),
           c.cmd = "SENDME" =>
              c.ack = IF EmitVersion[Peer(e)] = 0 THEN EmptyPayload
                      ELSE [from |-> e, nth |-> Inc * c.nth]
    PROVE  Acknowledge(Append(s, c), e)
<1> DEFINE t == Append(s, c)
<1>1. /\ DOMAIN t = 1..(Len(s) + 1) /\ DOMAIN s = 1..Len(s) /\ Len(s) \in Nat
      /\ \A i \in DOMAIN s : t[i] = s[i]
      /\ t[Len(s) + 1] = c
  OBVIOUS
<1> HIDE DEF t
<1>2. Acknowledge(t, e)
  BY <1>1 DEF Acknowledge
<1> QED
  BY <1>2 DEF t

\* Taking any cell off a link keeps the acknowledgements of those behind it.
LEMMA AcknowledgeTail ==
    ASSUME NEW s \in Seq(Cell), NEW e \in End, s # <<>>, Acknowledge(s, e)
    PROVE  Acknowledge(Tail(s), e)
<1> DEFINE t == Tail(s)
<1>1. /\ DOMAIN t = 1..(Len(s) - 1) /\ DOMAIN s = 1..Len(s) /\ Len(s) \in Nat
      /\ \A i \in DOMAIN t : t[i] = s[i + 1] /\ i + 1 \in DOMAIN s
  OBVIOUS
<1> HIDE DEF t
<1>2. Acknowledge(t, e)
  BY <1>1 DEF Acknowledge
<1> QED
  BY <1>2 DEF t

LEMMA InvPackageData ==
    ASSUME IInv, AgreeingParameters, NEW x \in End, PackageData(x)
    PROVE  IInv'
<1> DEFINE p == Peer(x)
           cell == [cmd |-> "DATA", nth |-> data_sent[x] + 1, ack |-> EmptyPayload]
           D == data_sent[x]
           A == sendmes_rcvd[x]
           q == sendme_last_digests[x]
<1>1. TypeOK'
  BY TypePackageData DEF IInv
<1>2. HonestCircuitStaysOpen'
  BY DEF IInv, HonestCircuitStaysOpen, PackageData
<1>3. /\ p \in End /\ p # x /\ Peer(p) = x /\ D \in Nat /\ A \in Nat
      /\ Inc \in Nat /\ Inc > 0 /\ Len(q) \in Nat /\ q \in Seq(Tag)
      /\ link[x] \in Seq(Cell) /\ link[p] \in Seq(Cell)
  BY Parts, Constants
<1>4. /\ link'[x] = Append(link[x], cell) /\ link'[p] = link[p]
      /\ data_sent'[x] = D + 1 /\ data_sent'[p] = data_sent[p]
      /\ UNCHANGED <<deliver_window, cwnd, marked_for_close, data_rcvd, sendmes_sent,
                     sendmes_rcvd>>
      /\ sendme_last_digests'[p] = sendme_last_digests[p]
      /\ package_window'[p] = package_window[p] /\ inflight'[p] = inflight[p]
  BY <1>3 DEF PackageData, NoteDataPackaged, IInv, TypeOK
<1>5. cell \in Cell /\ cell.cmd = "DATA" /\ cell.nth = D + 1
  BY <1>3 DEF Cell
<1>6. CountsInv(x)' /\ CountsInv(p)'
  <2>1. CountsInv(x) /\ CountsInv(p)
    BY <1>3, Parts
  <2>2. data_rcvd[p] \in Nat
    BY <1>3, Parts
  <2> QED
    BY <1>3, <1>4, <2>1, <2>2 DEF CountsInv
<1>7. WindowsInv(x)'
  <2>1. WindowsInv(x) /\ Inc * A \in Int
    BY <1>3, Parts
  <2>2. CASE UsesCC
    <3>1. inflight'[x] = inflight[x] + 1 /\ inflight[x] < cwnd[x]
      BY <2>2, Parts, Constants, SMTT(40) DEF PackageData, NoteDataPackaged, GetPackageWindow, IInv, TypeOK
    <3>2. cwnd[x] <= CwndMax /\ cwnd[x] \in Int /\ CwndMax \in Int /\ inflight[x] \in Int
      BY Parts, Constants
    <3> QED
      BY <1>3, <1>4, <2>1, <2>2, <3>1, <3>2, SMTT(40) DEF WindowsInv, Unacked
  <2>3. CASE ~UsesCC
    <3>1. package_window'[x] = package_window[x] - 1
      BY <2>3 DEF PackageData, NoteDataPackaged, IInv, TypeOK
    <3>2. PackageWindowInit \in Int
      BY Constants
    <3> QED
      BY <1>3, <1>4, <2>1, <2>3, <3>1, <3>2, SMTT(40) DEF WindowsInv, Unacked
  <2> QED
    BY <2>2, <2>3
<1>8. WindowsInv(p)'
  BY <1>3, <1>4, Parts DEF WindowsInv, Unacked
<1>9. DigestsInv(x)'
  <2>1. DigestsInv(x)
    BY Parts
  <2>2. CircuitSentCellForSendme(x) <=> D + 1 = Inc * (A + Len(q)) + Inc
    BY Prediction DEF PackageData
  <2>4. CASE CircuitSentCellForSendme(x)
    <3>1. sendme_last_digests'[x] = Append(q, TagOf(x, cell))
      BY <2>4 DEF PackageData, IInv, TypeOK
    <3>2. TagOf(x, cell) = [from |-> x, nth |-> D + 1]
      BY DEF TagOf
    <3> HIDE DEF cell, q, D, A
    <3>3. Awaits(Append(q, [from |-> x, nth |-> D + 1]), x, A, D + 1)
      BY <1>3, <2>1, <2>2, <2>4, AwaitsAppend DEF DigestsInv, q, D, A
    <3> QED
      BY <1>4, <3>1, <3>2, <3>3 DEF DigestsInv, A
  <2>5. CASE ~CircuitSentCellForSendme(x)
    <3>1. sendme_last_digests'[x] = q
      BY <2>5 DEF PackageData
    <3>2. Awaits(q, x, A, D + 1)
      BY <1>3, <2>1, <2>2, <2>5, AwaitsSame DEF DigestsInv
    <3> QED
      BY <1>4, <3>1, <3>2 DEF DigestsInv
  <2> QED
    BY <2>4, <2>5
<1>10. DigestsInv(p)'
  BY <1>3, <1>4, Parts DEF DigestsInv
<1>11. LinksInv(x)'
  <2>1. LinksInv(x) /\ data_rcvd[p] \in Nat /\ data_rcvd[p] <= D
    BY <1>3, Parts DEF CountsInv
  <2>2. InOrder(Append(link[x], cell), "DATA", data_rcvd[p], D + 1)
    <3> HIDE DEF cell
    <3> QED
      BY <1>3, <1>5, <2>1, AppendSame DEF LinksInv
  <2> QED
    BY <1>3, <1>4, <2>1, <2>2 DEF LinksInv
<1>12. LinksInv(p)'
  <2>1. LinksInv(p) /\ sendmes_rcvd[p] \in Nat /\ sendmes_sent[x] \in Nat
    BY <1>3, Parts
  <2> DEFINE t == Append(link[x], cell)
  <2> HIDE DEF cell
  <2>2. InOrder(t, "SENDME", sendmes_rcvd[p], sendmes_sent[x])
    BY <1>3, <1>5, <2>1, AppendAnother DEF LinksInv
  <2>a. Acknowledge(t, p)
    BY <1>3, <1>5, <2>1, AcknowledgeAppend DEF LinksInv
  <2>3. link'[x] = t
    BY <1>4 DEF cell
  <2> HIDE DEF t
  <2> QED
    BY <1>3, <1>4, <2>1, <2>2, <2>3, <2>a DEF LinksInv
<1> QED
  BY <1>1, <1>2, <1>6, <1>7, <1>8, <1>9, <1>10, <1>11, <1>12, BothEnds

LEMMA InvSendOther ==
    ASSUME IInv, NEW x \in End, SendOther(x)
    PROVE  IInv'
<1> DEFINE p == Peer(x)
           cell == [cmd |-> "OTHER", nth |-> other_sent[x] + 1, ack |-> EmptyPayload]
<1>1. TypeOK'
  BY TypeSendOther DEF IInv
<1>2. HonestCircuitStaysOpen'
  BY DEF IInv, HonestCircuitStaysOpen, SendOther
<1>3. /\ p \in End /\ p # x /\ Peer(p) = x
      /\ link[x] \in Seq(Cell) /\ link[p] \in Seq(Cell)
  BY Parts
<1>4. /\ link'[x] = Append(link[x], cell) /\ link'[p] = link[p]
      /\ UNCHANGED <<package_window, deliver_window, inflight, data_sent, data_rcvd,
                     sendmes_sent, sendmes_rcvd, sendme_last_digests>>
  BY <1>3 DEF SendOther, windows, IInv, TypeOK
<1>5. cell \in Cell /\ cell.cmd = "OTHER"
  BY DEF Cell, IInv, TypeOK
<1> HIDE DEF cell
<1>6. CountsInv(x)' /\ CountsInv(p)' /\ WindowsInv(x)' /\ WindowsInv(p)'
      /\ DigestsInv(x)' /\ DigestsInv(p)'
  <2>1. CountsInv(x) /\ CountsInv(p) /\ WindowsInv(x) /\ WindowsInv(p)
        /\ DigestsInv(x) /\ DigestsInv(p)
    BY <1>3, Parts
  <2> QED
    BY <1>4, <2>1 DEF CountsInv, WindowsInv, DigestsInv, Unacked
<1>7. LinksInv(x)'
  <2>1. LinksInv(x) /\ data_rcvd[p] \in Nat /\ data_sent[x] \in Nat
    BY <1>3, Parts
  <2>2. InOrder(Append(link[x], cell), "DATA", data_rcvd[p], data_sent[x])
    BY <1>3, <1>5, <2>1, AppendAnother DEF LinksInv
  <2> QED
    BY <1>3, <1>4, <2>1, <2>2 DEF LinksInv
<1>8. LinksInv(p)'
  <2>1. LinksInv(p) /\ sendmes_rcvd[p] \in Nat /\ sendmes_sent[x] \in Nat
    BY <1>3, Parts
  <2> DEFINE t == Append(link[x], cell)
  <2>2. InOrder(t, "SENDME", sendmes_rcvd[p], sendmes_sent[x])
    BY <1>3, <1>5, <2>1, AppendAnother DEF LinksInv
  <2>a. Acknowledge(t, p)
    BY <1>3, <1>5, <2>1, AcknowledgeAppend DEF LinksInv
  <2> HIDE DEF t
  <2> QED
    BY <1>3, <1>4, <2>1, <2>2, <2>a DEF LinksInv, t
<1> QED
  BY <1>1, <1>2, <1>6, <1>7, <1>8, BothEnds

LEMMA InvReceiveOther ==
    ASSUME IInv, NEW x \in End, ReceiveOther(x)
    PROVE  IInv'
<1> DEFINE p == Peer(x)
<1>1. TypeOK'
  BY TypeReceiveOther DEF IInv
<1>2. HonestCircuitStaysOpen'
  BY DEF IInv, HonestCircuitStaysOpen, ReceiveOther
<1>3. /\ p \in End /\ p # x /\ Peer(p) = x
      /\ link[x] \in Seq(Cell) /\ link[p] \in Seq(Cell)
  BY Parts
<1>4. /\ link[p] # <<>> /\ Head(link[p]).cmd = "OTHER"
      /\ link'[p] = Tail(link[p]) /\ link'[x] = link[x]
      /\ UNCHANGED <<package_window, deliver_window, inflight, data_sent, data_rcvd,
                     sendmes_sent, sendmes_rcvd, sendme_last_digests>>
  BY <1>3 DEF ReceiveOther, Incoming, windows, history, IInv, TypeOK
<1>5. CountsInv(x)' /\ CountsInv(p)' /\ WindowsInv(x)' /\ WindowsInv(p)'
      /\ DigestsInv(x)' /\ DigestsInv(p)'
  <2>1. CountsInv(x) /\ CountsInv(p) /\ WindowsInv(x) /\ WindowsInv(p)
        /\ DigestsInv(x) /\ DigestsInv(p)
    BY <1>3, Parts
  <2> QED
    BY <1>4, <2>1 DEF CountsInv, WindowsInv, DigestsInv, Unacked
<1>6. LinksInv(x)'
  <2>1. LinksInv(x) /\ sendmes_rcvd[x] \in Nat /\ sendmes_sent[p] \in Nat
    BY <1>3, Parts
  <2>2. InOrder(Tail(link[p]), "SENDME", sendmes_rcvd[x], sendmes_sent[p])
    BY <1>3, <1>4, <2>1, TailAnother DEF LinksInv
  <2>3. Acknowledge(Tail(link[p]), x)
    BY <1>3, <1>4, <2>1, AcknowledgeTail DEF LinksInv
  <2> QED
    BY <1>3, <1>4, <2>1, <2>2, <2>3 DEF LinksInv
<1>7. LinksInv(p)'
  <2>1. LinksInv(p) /\ data_rcvd[x] \in Nat /\ data_sent[p] \in Nat
    BY <1>3, Parts
  <2>2. InOrder(Tail(link[p]), "DATA", data_rcvd[x], data_sent[p])
    BY <1>3, <1>4, <2>1, TailAnother DEF LinksInv
  <2> QED
    BY <1>3, <1>4, <2>1, <2>2 DEF LinksInv
<1> QED
  BY <1>1, <1>2, <1>5, <1>6, <1>7, BothEnds

\* Appending a sequence of one cell, or of none.
LEMMA ConcatShort ==
    ASSUME NEW s \in Seq(Cell), NEW t \in Seq(Cell)
    PROVE  /\ Len(t) = 0 => s \o t = s
           /\ Len(t) = 1 => s \o t = Append(s, t[1])
<1> DEFINE u == s \o t
<1>1. /\ u \in Seq(Cell) /\ Len(u) = Len(s) + Len(t)
      /\ \A i \in 1..(Len(s) + Len(t)) :
            u[i] = IF i <= Len(s) THEN s[i] ELSE t[i - Len(s)]
  BY ConcatProperties
<1>2. Len(s) \in Nat /\ Len(t) \in Nat
  OBVIOUS
<1> HIDE DEF u
<1>3. ASSUME Len(t) = 0 PROVE u = s
  <2>1. Len(u) = Len(s) /\ \A i \in 1..Len(u) : u[i] = s[i]
    BY <1>1, <1>2, <1>3
  <2> QED
    BY <1>1, <2>1, SeqEqual
<1>4. ASSUME Len(t) = 1 PROVE u = Append(s, t[1])
  <2> DEFINE v == Append(s, t[1])
  <2>0. t[1] \in Cell
    <3>1. 1 \in 1..Len(t)
      BY <1>4
    <3> QED
      BY <3>1, ElementOfSeq
  <2>1. /\ v \in Seq(Cell) /\ Len(v) = Len(s) + 1 /\ v[Len(s) + 1] = t[1]
        /\ \A i \in 1..Len(s) : v[i] = s[i]
    BY <2>0
  <2> HIDE DEF v
  <2>2. \A i \in 1..Len(u) : u[i] = v[i]
    <3> TAKE i \in 1..Len(u)
    <3>1. CASE i <= Len(s)
      BY <1>1, <1>2, <1>4, <2>1, <3>1
    <3>2. CASE i = Len(s) + 1
      <4>1. i - Len(s) = 1 /\ ~(i <= Len(s))
        BY <1>2, <3>2
      <4> QED
        BY <1>1, <1>2, <1>4, <2>1, <3>2, <4>1
    <3> QED
      BY <1>1, <1>2, <1>4, <3>1, <3>2
  <2>3. u = v
    BY <1>1, <1>4, <2>1, <2>2, SeqEqual
  <2> QED
    BY <2>3 DEF v
<1> QED
  BY <1>3, <1>4 DEF u

\* The step of the receiver: the deliver window and the count of SENDMEs stay in
\* step because a DATA cell is answered by at most one SENDME.
LEMMA ConsiderSending ==
    ASSUME IInv, NEW x \in End, ReceiveData(x)
    PROVE  LET p == Peer(x)
               w == deliver_window[x] - 1
               tag == TagOf(p, Head(link[p]))
               n == IF data_rcvd[x] + 1 = Inc * sendmes_sent[x] + Inc THEN 1 ELSE 0
               c == [cmd |-> "SENDME", nth |-> sendmes_sent[x] + 1,
                     ack |-> IF EmitVersion[x] = 0 THEN EmptyPayload ELSE tag]
           IN  /\ w >= 0 /\ w \in Int
               /\ deliver_window'[x] = w + n * Inc
               /\ data_rcvd'[x] = data_rcvd[x] + 1
               /\ sendmes_sent'[x] = sendmes_sent[x] + n
               /\ link'[x] = IF n = 0 THEN link[x] ELSE Append(link[x], c)
               /\ c \in Cell
               /\ UNCHANGED marked_for_close
<1> DEFINE p == Peer(x)
           w == deliver_window[x] - 1
           tag == TagOf(p, Head(link[p]))
           s == SendmesConsidered(x, w, tag)
           n == IF data_rcvd[x] + 1 = Inc * sendmes_sent[x] + Inc THEN 1 ELSE 0
           c == [cmd |-> "SENDME", nth |-> sendmes_sent[x] + 1,
                 ack |-> IF EmitVersion[x] = 0 THEN EmptyPayload ELSE tag]
<1>1. /\ p \in End /\ p # x /\ Peer(p) = x /\ w \in Int
      /\ data_rcvd[x] \in Nat /\ sendmes_sent[x] \in Nat
      /\ link[x] \in Seq(Cell)
  BY Parts
<1>2. tag \in Tag
  BY <1>1, HeadCell DEF ReceiveData, Incoming, IInv
<1>3. /\ deliver_window[x] = CircwindowStart - data_rcvd[x] + Inc * sendmes_sent[x]
      /\ Inc * sendmes_sent[x] <= data_rcvd[x]
      /\ data_rcvd[x] < Inc * sendmes_sent[x] + Inc
  <2>1. WindowsInv(p) /\ CountsInv(p)
    BY <1>1, Parts
  <2> QED
    BY <1>1, <2>1 DEF WindowsInv, CountsInv
<1>4. Inc * sendmes_sent[x] \in Int
  BY <1>1, Constants
<1>5. w >= 0
  BY <1>1, <1>3, <1>4, Constants
<1>6. Len(s) = n
  <2>1. s \in Seq(Cell)
        /\ Len(s) = IF w > CircwindowStart - Inc THEN 0 ELSE (CircwindowStart - w) \div Inc
    BY <1>1, <1>2, SendmesType DEF IInv
  <2> DEFINE g == Inc * sendmes_sent[x]
             R == data_rcvd[x]
  <2>0. /\ w = CircwindowStart - R + g - 1
        /\ g \in Int /\ R \in Int /\ g <= R /\ R < g + Inc
    BY <1>1, <1>3, <1>4, Constants, SMTT(40)
  <2> HIDE DEF s, w, g, R
  <2>2. CASE R + 1 # g + Inc
    <3>1. w > CircwindowStart - Inc
      BY <2>0, <2>2, Constants
    <3> QED
      BY <2>1, <2>2, <3>1 DEF g, R
  <2>3. CASE R + 1 = g + Inc
    <3>1. CircwindowStart - w = Inc /\ ~(w > CircwindowStart - Inc)
      BY <2>0, <2>3, Constants
    <3>2. Inc \div Inc = 1
      <4>1. Inc \in Nat \ {0} /\ Inc \in Int /\ Inc <= Inc /\ Inc < Inc + Inc
        BY Constants
      <4> QED
        BY <4>1, DivOne
    <3> QED
      BY <2>1, <2>3, <3>1, <3>2 DEF g, R
  <2> QED
    BY <2>2, <2>3
<1>7. s \in Seq(Cell)
  BY <1>1, <1>2, SendmesType DEF IInv
<1>8. n = 1 => s[1] = c
  <2> SUFFICES ASSUME n = 1 PROVE s[1] = c
    OBVIOUS
  <2> DEFINE f == [i \in 1..(IF w > CircwindowStart - Inc THEN 0
                            ELSE (CircwindowStart - w) \div Inc) |->
                     [cmd |-> "SENDME", nth |-> sendmes_sent[x] + i,
                      ack |-> IF EmitVersion[x] = 0 THEN EmptyPayload
                              ELSE IF i = 1 THEN tag ELSE [from |-> x, nth |-> 0]]]
  <2>1. s = f
    BY DEF SendmesConsidered
  <2>2. 1 \in DOMAIN s
    <3> HIDE DEF s
    <3> QED
      BY <1>6, <1>7
  <2>3. 1 \in DOMAIN f
    BY <2>1, <2>2
  <2>4. f[1] = [cmd |-> "SENDME", nth |-> sendmes_sent[x] + 1,
                ack |-> IF EmitVersion[x] = 0 THEN EmptyPayload ELSE tag]
    BY <2>3
  <2> HIDE DEF s, f
  <2> QED
    BY <2>1, <2>4
<1>9. c \in Cell
  BY <1>1, <1>2 DEF Cell
<1>10. /\ deliver_window' = [deliver_window EXCEPT ![x] = w + Len(s) * Inc]
       /\ link' = [link EXCEPT ![p] = Tail(@), ![x] = @ \o s]
       /\ sendmes_sent' = [sendmes_sent EXCEPT ![x] = @ + Len(s)]
       /\ data_rcvd' = [data_rcvd EXCEPT ![x] = @ + 1]
       /\ UNCHANGED marked_for_close
  <2>1. IF w < 0 THEN TRUE
        ELSE /\ deliver_window' = [deliver_window EXCEPT ![x] = w + Len(s) * Inc]
             /\ link' = [link EXCEPT ![p] = Tail(@), ![x] = @ \o s]
             /\ sendmes_sent' = [sendmes_sent EXCEPT ![x] = @ + Len(s)]
             /\ data_rcvd' = [data_rcvd EXCEPT ![x] = @ + 1]
             /\ UNCHANGED marked_for_close
    BY DEF ReceiveData
  <2>2. ~(w < 0)
    BY <1>1, <1>5
  <2> HIDE DEF w, s, p
  <2> QED
    BY <2>1, <2>2
<1>11. /\ deliver_window \in [End -> Int] /\ sendmes_sent \in [End -> Nat]
       /\ data_rcvd \in [End -> Nat] /\ link \in [End -> Seq(Cell)]
  BY DEF IInv, TypeOK
<1> HIDE DEF w, s, c, tag
<1>12. link'[x] = link[x] \o s
  BY <1>1, <1>10, <1>11
<1>13. link'[x] = IF n = 0 THEN link[x] ELSE Append(link[x], c)
  BY <1>1, <1>6, <1>7, <1>8, <1>12, ConcatShort
<1> HIDE DEF n
<1>14. /\ deliver_window'[x] = w + n * Inc
       /\ data_rcvd'[x] = data_rcvd[x] + 1
       /\ sendmes_sent'[x] = sendmes_sent[x] + n
  BY <1>6, <1>10, <1>11
<1> QED
  BY <1>1, <1>5, <1>9, <1>10, <1>13, <1>14 DEF w, c, tag, n

\* What receiving a DATA cell may change: the counts of the receiver, and the links.
LEMMA ReceiveDataFrame ==
    ASSUME TypeOK, NEW x \in End, ReceiveData(x)
    PROVE  /\ \E w : deliver_window' = [deliver_window EXCEPT ![x] = w]
           /\ \E r : data_rcvd' = [data_rcvd EXCEPT ![x] = r]
           /\ \E r : sendmes_sent' = [sendmes_sent EXCEPT ![x] = r]
           /\ \/ link' = [link EXCEPT ![Peer(x)] = Tail(@)]
              \/ \E s : link' = [link EXCEPT ![Peer(x)] = Tail(@), ![x] = s]
<1> DEFINE p == Peer(x)
           h == Head(link[p])
           w == deliver_window[x] - 1
           s == SendmesConsidered(x, w, TagOf(p, h))
<1>1. IF w < 0
      THEN /\ deliver_window' = [deliver_window EXCEPT ![x] = w]
           /\ link' = [link EXCEPT ![p] = Tail(@)]
           /\ UNCHANGED <<sendmes_sent, data_rcvd>>
      ELSE /\ deliver_window' = [deliver_window EXCEPT ![x] = w + Len(s) * Inc]
           /\ link' = [link EXCEPT ![p] = Tail(@), ![x] = @ \o s]
           /\ sendmes_sent' = [sendmes_sent EXCEPT ![x] = @ + Len(s)]
           /\ data_rcvd' = [data_rcvd EXCEPT ![x] = @ + 1]
  BY DEF ReceiveData
<1>2. /\ sendmes_sent = [sendmes_sent EXCEPT ![x] = sendmes_sent[x]]
      /\ data_rcvd = [data_rcvd EXCEPT ![x] = data_rcvd[x]]
  BY DEF TypeOK
<1> HIDE DEF w, s
<1> QED
  BY <1>1, <1>2

LEMMA InvReceiveData ==
    ASSUME IInv, NEW x \in End, ReceiveData(x)
    PROVE  IInv'
<1> DEFINE p == Peer(x)
           h == Head(link[p])
           R == data_rcvd[x]
           S == sendmes_sent[x]
           n == IF R + 1 = Inc * S + Inc THEN 1 ELSE 0
           c == [cmd |-> "SENDME", nth |-> S + 1,
                 ack |-> IF EmitVersion[x] = 0 THEN EmptyPayload ELSE TagOf(p, h)]
           u == IF n = 0 THEN link[x] ELSE Append(link[x], c)
<1>1. TypeOK'
  BY TypeReceiveData DEF IInv
<1>2. /\ p \in End /\ p # x /\ Peer(p) = x
      /\ link[x] \in Seq(Cell) /\ link[p] \in Seq(Cell)
      /\ R \in Nat /\ S \in Nat /\ Inc \in Nat /\ Inc > 0 /\ n \in 0..1
      /\ sendmes_rcvd[p] \in Nat /\ data_sent[p] \in Nat
  BY Parts, Constants
<1>3. /\ link[p] # <<>> /\ h.cmd = "DATA" /\ link'[p] = Tail(link[p])
      /\ UNCHANGED <<package_window, inflight, cwnd, sendme_last_digests, data_sent,
                     sendmes_rcvd>>
      /\ deliver_window'[p] = deliver_window[p] /\ data_rcvd'[p] = data_rcvd[p]
      /\ sendmes_sent'[p] = sendmes_sent[p]
  <2>1. /\ link[p] # <<>> /\ h.cmd = "DATA"
        /\ UNCHANGED <<package_window, inflight, cwnd, sendme_last_digests, data_sent,
                       sendmes_rcvd>>
    BY DEF ReceiveData, Incoming
  <2>2. /\ \E w : deliver_window' = [deliver_window EXCEPT ![x] = w]
        /\ \E r : data_rcvd' = [data_rcvd EXCEPT ![x] = r]
        /\ \E r : sendmes_sent' = [sendmes_sent EXCEPT ![x] = r]
        /\ \/ link' = [link EXCEPT ![p] = Tail(@)]
           \/ \E s : link' = [link EXCEPT ![p] = Tail(@), ![x] = s]
    BY ReceiveDataFrame DEF IInv
  <2>3. /\ deliver_window \in [End -> Int] /\ sendmes_sent \in [End -> Nat]
        /\ data_rcvd \in [End -> Nat] /\ link \in [End -> Seq(Cell)]
    BY DEF IInv, TypeOK
  <2>4. link'[p] = Tail(link[p])
    BY <1>2, <2>2, <2>3
  <2>5. deliver_window'[p] = deliver_window[p] /\ data_rcvd'[p] = data_rcvd[p]
        /\ sendmes_sent'[p] = sendmes_sent[p]
    BY <1>2, <2>2, <2>3
  <2> QED
    BY <2>1, <2>4, <2>5
<1>4. /\ deliver_window'[x] = deliver_window[x] - 1 + n * Inc
      /\ data_rcvd'[x] = R + 1 /\ sendmes_sent'[x] = S + n
      /\ link'[x] = u /\ c \in Cell /\ UNCHANGED marked_for_close
  BY ConsiderSending
<1>5. HonestCircuitStaysOpen'
  BY <1>4 DEF IInv, HonestCircuitStaysOpen
<1>6. CountsInv(x)' /\ WindowsInv(x)' /\ DigestsInv(x)'
  <2>1. CountsInv(x) /\ WindowsInv(x) /\ DigestsInv(x)
    BY Parts
  <2> QED
    BY <1>2, <1>3, <2>1 DEF CountsInv, WindowsInv, DigestsInv, Unacked
<1>7. DigestsInv(p)'
  BY <1>2, <1>3, Parts DEF DigestsInv
<1>8. h.nth = R + 1 /\ R + 1 <= data_sent[p]
      /\ InOrder(Tail(link[p]), "DATA", R + 1, data_sent[p])
  <2>1. InOrder(link[p], "DATA", R, data_sent[p])
    BY <1>2, Parts DEF LinksInv
  <2> QED
    BY <1>2, <1>3, <2>1, TailSame
<1>9. CountsInv(p)' /\ WindowsInv(p)'
  <2>1. CountsInv(p) /\ WindowsInv(p)
    BY <1>2, Parts
  <2> DEFINE g == Inc * S
  <2>2. g \in Int /\ Inc * (S + n) = g + n * Inc /\ n * Inc = IF n = 1 THEN Inc ELSE 0
    <3> HIDE DEF S, n
    <3> QED
      BY <1>2 DEF S
  <2>3. g <= R /\ R < g + Inc /\ deliver_window[x] = CircwindowStart - R + g
        /\ sendmes_rcvd[p] <= S
    BY <1>2, <2>1 DEF CountsInv, WindowsInv
  <2>4. (n = 1 => R + 1 = g + Inc) /\ (n = 0 => R + 1 # g + Inc)
    OBVIOUS
  <2>5. /\ Inc * (S + n) <= R + 1 /\ R + 1 < Inc * (S + n) + Inc
        /\ deliver_window[x] - 1 + n * Inc = CircwindowStart - (R + 1) + Inc * (S + n)
        /\ sendmes_rcvd[p] <= S + n
    <3> DEFINE k == Inc * (S + n)
               b == n * Inc
               w == deliver_window[x]
    <3>1. w \in Int /\ CircwindowStart \in Nat
      BY Parts, Constants
    <3>2. k = g + b /\ b = (IF n = 1 THEN Inc ELSE 0) /\ w = CircwindowStart - R + g
      BY <2>2, <2>3
    <3>3. R \in Nat /\ S \in Nat /\ Inc \in Nat /\ Inc > 0 /\ n \in {0, 1}
          /\ sendmes_rcvd[p] \in Nat
      BY <1>2
    <3> HIDE DEF k, b, w, g, n, R, S, p
    <3>4. /\ k <= R + 1 /\ R + 1 < k + Inc
          /\ w - 1 + b = CircwindowStart - (R + 1) + k /\ sendmes_rcvd[p] <= S + n
      <4>1. CASE n = 0
        BY <2>2, <2>3, <2>4, <3>1, <3>2, <3>3, <4>1
      <4>2. CASE n = 1
        BY <2>2, <2>3, <2>4, <3>1, <3>2, <3>3, <4>2
      <4> QED
        BY <3>3, <4>1, <4>2
    <3> QED
      BY <3>4 DEF k, b, w
  <2> HIDE DEF g, n, R, S, p
  <2>6. CountsInv(p)'
    BY <1>2, <1>3, <1>4, <1>8, <2>5 DEF CountsInv
  <2>7. WindowsInv(p)'
    BY <1>2, <1>3, <1>4, <2>1, <2>5 DEF WindowsInv, Unacked
  <2> QED
    BY <2>6, <2>7
<1>10. LinksInv(x)'
  <2>1. LinksInv(x) /\ data_rcvd[p] \in Nat /\ data_sent[x] \in Nat
        /\ sendmes_rcvd[x] \in Nat /\ sendmes_sent[p] \in Nat
    BY <1>2, Parts
  <2>2. c.cmd = "SENDME"
    OBVIOUS
  <2> HIDE DEF c, n
  <2>3. InOrder(u, "DATA", data_rcvd[p], data_sent[x])
    BY <1>2, <1>4, <2>1, <2>2, AppendAnother DEF LinksInv
  <2>4. InOrder(Tail(link[p]), "SENDME", sendmes_rcvd[x], sendmes_sent[p])
    BY <1>2, <1>3, <2>1, TailAnother DEF LinksInv
  <2>5. Acknowledge(Tail(link[p]), x)
    BY <1>2, <1>3, <2>1, AcknowledgeTail DEF LinksInv
  <2> HIDE DEF u
  <2> QED
    BY <1>2, <1>3, <1>4, <2>3, <2>4, <2>5 DEF LinksInv
<1>11. LinksInv(p)'
  <2>1. InOrder(link[x], "SENDME", sendmes_rcvd[p], S) /\ Acknowledge(link[x], p)
        /\ sendmes_rcvd[p] <= S
    BY <1>2, Parts DEF LinksInv, CountsInv
  <2>2. CASE n = 0
    BY <1>2, <1>3, <1>4, <1>8, <2>1, <2>2 DEF LinksInv
  <2>3. CASE n = 1
    <3>1. c.cmd = "SENDME" /\ c.nth = S + 1
      OBVIOUS
    <3>2. Inc * (S + 1) = R + 1
      <4> HIDE DEF R, S
      <4> QED
        BY <1>2, <2>3
    <3>3. TagOf(p, h) = [from |-> p, nth |-> Inc * (S + 1)]
      <4>1. TagOf(p, h) = [from |-> p, nth |-> h.nth]
        BY <1>3 DEF TagOf
      <4> QED
        BY <1>8, <3>2, <4>1
    <3>4. c.ack = IF EmitVersion[Peer(p)] = 0 THEN EmptyPayload
                  ELSE [from |-> p, nth |-> Inc * c.nth]
      BY <1>2, <3>3
    <3> HIDE DEF c
    <3>5. InOrder(Append(link[x], c), "SENDME", sendmes_rcvd[p], S + 1)
      BY <1>2, <1>4, <2>1, <3>1, AppendSame
    <3>6. Acknowledge(Append(link[x], c), p)
      BY <1>2, <1>4, <2>1, <3>4, AcknowledgeAppend
    <3>7. link'[x] = Append(link[x], c) /\ sendmes_sent'[x] = S + 1
      BY <1>4, <2>3
    <3> QED
      BY <1>2, <1>3, <1>4, <1>8, <3>5, <3>6, <3>7 DEF LinksInv
  <2> QED
    BY <1>2, <2>2, <2>3
<1> QED
  BY <1>1, <1>5, <1>6, <1>7, <1>9, <1>10, <1>11, BothEnds

LEMMA InvReceiveSendme ==
    ASSUME IInv, AgreeingParameters, NEW x \in End, ReceiveSendme(x)
    PROVE  IInv'
<1> DEFINE p == Peer(x)
           h == Head(link[p])
           A == sendmes_rcvd[x]
           S == sendmes_sent[p]
           q == sendme_last_digests[x]
<1>1. TypeOK'
  BY TypeReceiveSendme DEF IInv
<1>2. /\ p \in End /\ p # x /\ Peer(p) = x
      /\ link[x] \in Seq(Cell) /\ link[p] \in Seq(Cell)
      /\ A \in Nat /\ S \in Nat /\ Inc \in Nat /\ Inc > 0 /\ q \in Seq(Tag)
      /\ data_sent[x] \in Nat /\ data_rcvd[p] \in Nat /\ Len(q) \in Nat
  BY Parts, Constants
<1>3. /\ link[p] # <<>> /\ h.cmd = "SENDME" /\ link'[p] = Tail(link[p])
      /\ link'[x] = link[x]
      /\ UNCHANGED <<deliver_window, data_sent, data_rcvd, sendmes_sent>>
      /\ VersionAccepted(x, h) /\ q # <<>> => sendme_last_digests'[x] = Tail(q)
      /\ sendme_last_digests'[p] = sendme_last_digests[p]
  BY <1>2 DEF ReceiveSendme, Incoming, IInv, TypeOK
<1>4. /\ LinksInv(x) /\ CountsInv(x) /\ WindowsInv(x)
      /\ Awaits(q, x, A, data_sent[x])
  BY Parts DEF DigestsInv
<1>5. h.nth = A + 1 /\ A + 1 <= S /\ InOrder(Tail(link[p]), "SENDME", A + 1, S)
  BY <1>2, <1>3, <1>4, TailSame DEF LinksInv
<1>6. /\ Inc * (A + 1) = Inc * A + Inc /\ Inc * A \in Int /\ Inc * S \in Int
      /\ Inc * (A + 1) <= Inc * S /\ Inc * S <= data_rcvd[p]
      /\ data_rcvd[p] <= data_sent[x]
  <2>1. Inc * S <= data_rcvd[p] /\ data_rcvd[p] <= data_sent[x]
    BY <1>4 DEF CountsInv
  <2> HIDE DEF A, S
  <2> QED
    BY <1>2, <1>5, <2>1, IncTimes
<1>7. q # <<>>
  <2> SUFFICES ASSUME q = <<>> PROVE FALSE
    OBVIOUS
  <2>1. Len(q) = 0
    OBVIOUS
  <2>2. data_sent[x] < Inc * (A + 0) + Inc
    BY <1>4, <2>1 DEF Awaits
  <2>3. A + 0 = A
    BY <1>2
  <2> HIDE DEF A, S
  <2> QED
    BY <1>2, <1>6, <2>2, <2>3
<1>8. Head(q) = [from |-> x, nth |-> Inc * (A + 1)] /\ Awaits(Tail(q), x, A + 1, data_sent[x])
  BY <1>2, <1>4, <1>7, AwaitsTail
<1>9. SendmeIsValid(x, h) /\ VersionAccepted(x, h)
  <2>1. h.ack = IF EmitVersion[p] = 0 THEN EmptyPayload
                ELSE [from |-> x, nth |-> Inc * (A + 1)]
    <3>1. 1 \in DOMAIN link[p] /\ h = link[p][1]
      BY <1>2, <1>3
    <3> QED
      BY <1>2, <1>3, <1>4, <1>5, <3>1 DEF LinksInv, Acknowledge
  <2>2. EmitVersion[p] \in {0, 1} /\ EmitVersion[p] >= AcceptMinVersion[x]
        /\ AcceptMinVersion[x] \in {0, 1}
    BY <1>2, ConstantsAssumption DEF AgreeingParameters
  <2>3. [from |-> x, nth |-> Inc * (A + 1)] # EmptyPayload
    BY DEF EmptyPayload, End
  <2> QED
    BY <1>7, <1>8, <2>1, <2>2, <2>3 DEF SendmeIsValid, VersionAccepted
<1>10. UsesCC \/ package_window[x] + Inc <= CircwindowStart
  <2> SUFFICES ASSUME ~UsesCC PROVE package_window[x] + Inc <= CircwindowStart
    OBVIOUS
  <2>1. package_window[x] = PackageWindowInit - (data_sent[x] - Inc * A)
    BY <1>4 DEF WindowsInv, Unacked
  <2> DEFINE g == Inc * A
             w == package_window[x]
             d == data_sent[x]
  <2>2. /\ g \in Int /\ w \in Int /\ d \in Nat /\ w = PackageWindowInit - (d - g)
        /\ PackageWindowInit \in Nat /\ CircwindowStart \in Nat
        /\ PackageWindowInit <= CircwindowStart /\ Inc \in Nat
    BY <1>2, <1>6, <2>1, Parts, Constants
  <2>3. g + Inc <= d
    <3> HIDE DEF A, S
    <3> QED
      BY <1>2, <1>6 DEF g, d
  <2> HIDE DEF g, w, d
  <2>4. w + Inc <= CircwindowStart
    BY <2>2, <2>3
  <2> QED
    BY <2>4 DEF w
<1>11. /\ sendmes_rcvd' = [sendmes_rcvd EXCEPT ![x] = @ + 1]
       /\ UpdateWindow(x) /\ UNCHANGED marked_for_close
  BY <1>9, <1>10 DEF ReceiveSendme
<1>12. sendmes_rcvd'[x] = A + 1 /\ sendmes_rcvd'[p] = sendmes_rcvd[p]
  BY <1>2, <1>11 DEF IInv, TypeOK
<1>13. HonestCircuitStaysOpen'
  BY <1>11 DEF IInv, HonestCircuitStaysOpen
<1>14. CountsInv(x)' /\ CountsInv(p)' /\ DigestsInv(p)'
  <2>1. CountsInv(p) /\ DigestsInv(p)
    BY <1>2, Parts
  <2> QED
    BY <1>2, <1>3, <1>4, <1>5, <1>12, <2>1 DEF CountsInv, DigestsInv
<1>15. DigestsInv(x)'
  BY <1>3, <1>7, <1>8, <1>9, <1>12 DEF DigestsInv
<1>16. WindowsInv(x)'
  <2>1. CASE UsesCC
    <3>1. inflight'[x] = inflight[x] - Inc
      BY <1>11, <2>1 DEF UpdateWindow, IInv, TypeOK
    <3>2. inflight[x] = data_sent[x] - Inc * A /\ inflight[x] <= CwndMax
      BY <1>4, <2>1 DEF WindowsInv, Unacked
    <3>3. inflight'[x] = data_sent[x] - Inc * (A + 1) /\ inflight'[x] <= CwndMax
      <4> DEFINE g == Inc * A
                 k == Inc * (A + 1)
                 f == inflight[x]
                 d == data_sent[x]
      <4>1. /\ k = g + Inc /\ g \in Int /\ f = d - g /\ f \in Int /\ f <= CwndMax
            /\ d \in Nat /\ Inc \in Nat /\ CwndMax \in Nat
        BY <1>2, <1>6, <3>2, Parts, Constants
      <4> HIDE DEF g, k, f, d
      <4>2. f - Inc = d - k /\ f - Inc <= CwndMax
        BY <4>1
      <4> QED
        BY <3>1, <4>2 DEF f, d, k
    <3> QED
      BY <1>2, <1>3, <1>4, <1>12, <2>1, <3>3 DEF WindowsInv, Unacked
  <2>2. CASE ~UsesCC
    <3>1. package_window'[x] = package_window[x] + Inc
      BY <1>11, <2>2 DEF UpdateWindow, IInv, TypeOK
    <3>2. package_window[x] = PackageWindowInit - (data_sent[x] - Inc * A)
      BY <1>4, <2>2 DEF WindowsInv, Unacked
    <3>3. package_window'[x] = PackageWindowInit - (data_sent[x] - Inc * (A + 1))
      <4> HIDE DEF A
      <4> QED
        BY <1>2, <1>6, <3>1, <3>2, Constants, SMTT(40)
    <3> QED
      BY <1>2, <1>3, <1>4, <1>12, <2>2, <3>3 DEF WindowsInv, Unacked
  <2> QED
    BY <2>1, <2>2
<1>17. WindowsInv(p)'
  <2>1. package_window'[p] = package_window[p] /\ inflight'[p] = inflight[p]
    BY <1>2, <1>11 DEF UpdateWindow, IInv, TypeOK
  <2> QED
    BY <1>2, <1>3, <1>12, <2>1, Parts DEF WindowsInv, Unacked
<1>18. LinksInv(x)'
  <2>1. Acknowledge(Tail(link[p]), x)
    BY <1>2, <1>3, <1>4, AcknowledgeTail DEF LinksInv
  <2> QED
    BY <1>2, <1>3, <1>4, <1>5, <1>12, <2>1 DEF LinksInv
<1>19. LinksInv(p)'
  <2>1. LinksInv(p) /\ data_rcvd[x] \in Nat /\ data_sent[p] \in Nat
    BY <1>2, Parts
  <2>2. InOrder(Tail(link[p]), "DATA", data_rcvd[x], data_sent[p])
    BY <1>2, <1>3, <2>1, TailAnother DEF LinksInv
  <2> QED
    BY <1>2, <1>3, <1>12, <2>1, <2>2 DEF LinksInv
<1> QED
  BY <1>1, <1>13, <1>14, <1>15, <1>16, <1>17, <1>18, <1>19, BothEnds

\* The initial states satisfy the invariant.
LEMMA InvInit ==
    ASSUME Init
    PROVE  IInv
<1>1. TypeOK
  BY Constants DEF Init, TypeOK, Tag, Cell
<1> SUFFICES ASSUME NEW e \in End
             PROVE  CountsInv(e) /\ WindowsInv(e) /\ DigestsInv(e) /\ LinksInv(e)
  BY <1>1 DEF IInv, Init, HonestCircuitStaysOpen
<1>2. Peer(e) \in End
  BY Peers
<1>3. Inc * 0 = 0 /\ Inc * (0 + 0) = 0
  BY Constants
<1>4. CountsInv(e)
  BY <1>2, <1>3, Constants DEF Init, CountsInv
<1>5. WindowsInv(e)
  BY <1>2, <1>3, Constants DEF Init, WindowsInv, Unacked
<1>6. DigestsInv(e)
  BY <1>3, Constants DEF Init, DigestsInv, Awaits
<1>7. LinksInv(e)
  BY <1>2 DEF Init, LinksInv, InOrder, Acknowledge
<1> QED
  BY <1>4, <1>5, <1>6, <1>7

\* Every step keeps the invariant.
LEMMA InvNext ==
    ASSUME IInv, AgreeingParameters, [Next]_vars
    PROVE  IInv'
<1>1. CASE UNCHANGED vars
  BY <1>1 DEF vars, windows, history, IInv, TypeOK, HonestCircuitStaysOpen, CountsInv,
              WindowsInv, Unacked, DigestsInv, LinksInv
<1> QED
  BY <1>1, InvPackageData, InvSendOther, InvReceiveData, InvReceiveSendme,
     InvReceiveOther DEF Next, Receive

\* Two honest ends whose parameters agree keep the inductive invariant.
THEOREM Invariance == ASSUME AgreeingParameters PROVE Spec => []IInv
<1>1. Init => IInv
  BY InvInit
<1>2. IInv /\ [Next]_vars => IInv'
  BY InvNext
<1> QED
  BY <1>1, <1>2, PTL DEF Spec

\* Neither end ever closes the circuit on the other for a SENDME or a deliver
\* window (sendme_is_valid, sendme_process_circuit_level_impl,
\* connection_edge_process_relay_cell).
THEOREM HonestOpen == ASSUME AgreeingParameters PROVE Spec => []HonestCircuitStaysOpen
<1>1. IInv => HonestCircuitStaysOpen
  BY DEF IInv
<1> QED
  BY <1>1, Invariance, PTL

\* The package window of an end and the deliver window of its peer always add up
\* with the cells between them.
THEOREM Conservation == ASSUME AgreeingParameters PROVE Spec => []WindowConservation
<1>1. IInv => WindowConservation
  <2> SUFFICES ASSUME IInv, ~UsesCC, NEW e \in End
               PROVE  package_window[e] + (data_sent[e] - data_rcvd[Peer(e)])
                         + Inc * (sendmes_sent[Peer(e)] - sendmes_rcvd[e])
                      = deliver_window[Peer(e)] - (CircwindowStart - PackageWindowInit)
    BY DEF WindowConservation
  <2> DEFINE p == Peer(e)
             S == sendmes_sent[p]
             A == sendmes_rcvd[e]
             d == data_sent[e]
             r == data_rcvd[p]
             g == Inc * A
             k == Inc * S
  <2>1. /\ package_window[e] = PackageWindowInit - (d - g)
        /\ deliver_window[p] = CircwindowStart - r + k
    BY Parts DEF WindowsInv, Unacked
  <2>2. S \in Nat /\ A \in Nat /\ d \in Nat /\ r \in Nat /\ PackageWindowInit \in Nat
        /\ CircwindowStart \in Nat
    BY Parts, Constants
  <2>3. Inc * (S - A) = k - g /\ k \in Int /\ g \in Int
    <3> HIDE DEF S, A
    <3> QED
      BY <2>2, Constants
  <2> DEFINE w == package_window[e]
             v == deliver_window[p]
             t == Inc * (S - A)
  <2>4. w = PackageWindowInit - (d - g) /\ v = CircwindowStart - r + k /\ t = k - g
    BY <2>1, <2>3
  <2> HIDE DEF S, A, d, r, g, k, w, v, t
  <2>5. w + (d - r) + t = v - (CircwindowStart - PackageWindowInit)
    BY <2>2, <2>3, <2>4
  <2> QED
    BY <2>5 DEF S, A, d, r, w, v, t
<1> QED
  BY <1>1, Invariance, PTL

\* A number between two multiples of k, the n-th and the next.
LEMMA DivBetween ==
    ASSUME NEW k \in Nat \ {0}, NEW n \in Nat, NEW d \in Nat, k * n <= d, d < k * n + k
    PROVE  d \div k = n
OBVIOUS

\* The digests an end keeps always are those of the SENDMEs to come
\* (record_cell_digest_on_circ, pop_first_cell_digest).
THEOREM DigestsAgree == ASSUME AgreeingParameters PROVE Spec => []DigestsAwaitSendmes
<1>1. IInv => DigestsAwaitSendmes
  <2> SUFFICES ASSUME IInv, NEW e \in End
      PROVE  /\ \A i \in DOMAIN sendme_last_digests[e] :
                  sendme_last_digests[e][i] = [from |-> e, nth |-> Inc * (sendmes_rcvd[e] + i)]
             /\ sendmes_rcvd[e] + Len(sendme_last_digests[e]) = data_sent[e] \div Inc
    BY DEF DigestsAwaitSendmes
  <2> DEFINE K == sendmes_rcvd[e] + Len(sendme_last_digests[e])
  <2>1. Awaits(sendme_last_digests[e], e, sendmes_rcvd[e], data_sent[e])
    BY Parts DEF DigestsInv
  <2>2. /\ K \in Nat /\ data_sent[e] \in Nat /\ Inc \in Nat \ {0}
        /\ Inc * K <= data_sent[e] /\ data_sent[e] < Inc * K + Inc
    BY <2>1, Parts, Constants DEF Awaits
  <2>3. data_sent[e] \div Inc = K
    <3> HIDE DEF K
    <3> QED
      BY <2>2, DivBetween, Zenon
  <2> QED
    BY <2>1, <2>3 DEF Awaits
<1> QED
  BY <1>1, Invariance, PTL

\* Acknowledged data was received, and received data was sent.
LEMMA AckedReceived ==
    ASSUME IInv, NEW e \in End
    PROVE  /\ Inc * sendmes_rcvd[e] <= data_rcvd[Peer(e)]
           /\ data_rcvd[Peer(e)] <= data_sent[e]
           /\ Inc * sendmes_rcvd[e] \in Int
<1> DEFINE A == sendmes_rcvd[e]
           S == sendmes_sent[Peer(e)]
           r == data_rcvd[Peer(e)]
<1>1. A \in Nat /\ S \in Nat /\ A <= S /\ r \in Nat /\ Inc * S <= r /\ Inc \in Nat \ {0}
  BY Parts, Constants DEF CountsInv
<1> HIDE DEF A, S, r
<1>2. Inc * A <= Inc * S /\ Inc * A \in Int /\ Inc * S \in Int
  BY <1>1, IncTimes
<1>3. Inc * A <= r
  BY <1>1, <1>2
<1> QED
  BY <1>2, <1>3, Parts DEF A, r, CountsInv

\* The inflight counter of congestion control is exact: it never wraps below
\* zero when a SENDME takes sendme_inc off it (congestion_control_vegas.c).
THEOREM InflightCorrect == ASSUME AgreeingParameters PROVE Spec => []InflightExact
<1>1. IInv => InflightExact
  <2> SUFFICES ASSUME IInv, UsesCC, NEW e \in End
               PROVE  inflight[e] = Unacked(e) /\ inflight[e] \in 0..CwndMax
    BY DEF InflightExact
  <2> DEFINE g == Inc * sendmes_rcvd[e]
             d == data_sent[e]
  <2>1. inflight[e] = Unacked(e) /\ inflight[e] <= CwndMax /\ inflight[e] = d - g
    BY Parts DEF WindowsInv, Unacked
  <2>2. g \in Int /\ d \in Nat /\ g <= data_rcvd[Peer(e)] /\ data_rcvd[Peer(e)] <= d
        /\ data_rcvd[Peer(e)] \in Nat /\ CwndMax \in Nat
    BY AckedReceived, Parts, Constants
  <2> HIDE DEF g, d
  <2>3. d - g \in Int /\ d - g >= 0
    BY <2>2
  <2> QED
    BY <2>1, <2>2, <2>3
<1> QED
  BY <1>1, Invariance, PTL

\* A DATA cell makes its receiver send at most one SENDME: the assertion of
\* sendme_circuit_consider_sending cannot fire.
THEOREM OneSendme == ASSUME AgreeingParameters PROVE Spec => AtMostOneSendme
<1>1. IInv /\ [Next]_vars => [\A e \in End : sendmes_sent'[e] <= sendmes_sent[e] + 1]_vars
  <2> SUFFICES ASSUME IInv, Next, NEW e \in End
               PROVE  sendmes_sent'[e] <= sendmes_sent[e] + 1
    OBVIOUS
  <2>1. sendmes_sent \in [End -> Nat]
    BY DEF IInv, TypeOK
  <2>2. CASE UNCHANGED sendmes_sent
    BY <2>1, <2>2
  <2>3. ASSUME NEW x \in End, ReceiveData(x)
        PROVE  sendmes_sent'[e] <= sendmes_sent[e] + 1
    <3> DEFINE n == IF data_rcvd[x] + 1 = Inc * sendmes_sent[x] + Inc THEN 1 ELSE 0
    <3>1. sendmes_sent'[x] = sendmes_sent[x] + n
      BY <2>3, ConsiderSending
    <3>2. \E r : sendmes_sent' = [sendmes_sent EXCEPT ![x] = r]
      BY <2>3, ReceiveDataFrame DEF IInv
    <3>3. n \in {0, 1}
      OBVIOUS
    <3> HIDE DEF n
    <3>4. e # x => sendmes_sent'[e] = sendmes_sent[e]
      BY <2>1, <3>2
    <3> QED
      BY <2>1, <3>1, <3>3, <3>4
  <2>4. PICK x \in End : PackageData(x) \/ SendOther(x) \/ Receive(x)
    BY DEF Next
  <2>5. ReceiveData(x) \/ UNCHANGED sendmes_sent
    BY <2>4 DEF PackageData, SendOther, Receive, ReceiveSendme, ReceiveOther, history
  <2> QED
    BY <2>2, <2>3, <2>5
<1> QED
  BY <1>1, Invariance, PTL DEF Spec, AtMostOneSendme

\* circuit_sent_cell_for_sendme is right for every DATA cell.
THEOREM PredictionCorrect == ASSUME AgreeingParameters PROVE Spec => PredictsSendme
<1>1. IInv /\ [Next]_vars =>
        [\A e \in End : PackageData(e) =>
            (CircuitSentCellForSendme(e) <=> (data_sent[e] + 1) % Inc = 0)]_vars
  <2> SUFFICES ASSUME IInv, NEW e \in End, PackageData(e)
               PROVE  CircuitSentCellForSendme(e) <=> (data_sent[e] + 1) % Inc = 0
    OBVIOUS
  <2> DEFINE K == sendmes_rcvd[e] + Len(sendme_last_digests[e])
             d == data_sent[e]
             r == d + 1 - Inc * K
  <2>1. CircuitSentCellForSendme(e) <=> d + 1 = Inc * K + Inc
    BY Prediction DEF PackageData
  <2>2. /\ K \in Nat /\ d \in Nat /\ Inc \in Nat \ {0}
        /\ Inc * K <= d /\ d < Inc * K + Inc
    BY Parts, Constants DEF DigestsInv, Awaits
  <2> HIDE DEF K, d
  <2>3. r \in 1..Inc /\ d + 1 = Inc * K + r /\ (r = Inc <=> d + 1 = Inc * K + Inc)
    BY <2>2
  <2> HIDE DEF r
  <2>4. (Inc * K + r) % Inc = 0 <=> r = Inc
    <3>1. K \in Int
      BY <2>2
    <3> QED
      BY <2>2, <2>3, <3>1, ModAbove, Zenon
  <2>5. (d + 1) % Inc = 0 <=> d + 1 = Inc * K + Inc
    BY <2>3, <2>4, Zenon
  <2> QED
    BY <2>1, <2>5 DEF d
<1> QED
  BY <1>1, Invariance, PTL DEF Spec, PredictsSendme

-----------------------------------------------------------------------------
(* Each direction implements CreditWindow.                                 *)

\* What a step of the circuit does to the counts of the direction from e: it
\* leaves them alone, sends within the window, delivers, or acknowledges an
\* increment that was delivered.
LEMMA DirectionStep ==
    ASSUME IInv, AgreeingParameters, [Next]_vars, NEW e \in End
    PROVE  LET p == Peer(e)
               sent == data_sent[e]
               got == data_rcvd[p]
               acked == Inc * sendmes_rcvd[e]
           IN  \/ /\ data_sent'[e] = sent /\ data_rcvd'[p] = got
                  /\ Inc * sendmes_rcvd'[e] = acked
               \/ /\ sent < acked + WindowSize /\ data_sent'[e] = sent + 1
                  /\ data_rcvd'[p] = got /\ Inc * sendmes_rcvd'[e] = acked
               \/ /\ got < sent /\ data_rcvd'[p] = got + 1
                  /\ data_sent'[e] = sent /\ Inc * sendmes_rcvd'[e] = acked
               \/ /\ Inc * sendmes_rcvd'[e] > acked /\ Inc * sendmes_rcvd'[e] <= got
                  /\ data_sent'[e] = sent /\ data_rcvd'[p] = got
<1> DEFINE p == Peer(e)
           d == data_sent[e]
           g == Inc * sendmes_rcvd[e]
<1>1. p \in End /\ p # e /\ Peer(p) = e
  BY Peers
<1>2. /\ data_sent \in [End -> Nat] /\ data_rcvd \in [End -> Nat]
      /\ sendmes_rcvd \in [End -> Nat] /\ d \in Nat /\ g \in Int
  BY AckedReceived DEF IInv, TypeOK
<1>3. ASSUME PackageData(e)
      PROVE  /\ d < g + WindowSize /\ data_sent'[e] = d + 1
             /\ data_rcvd' = data_rcvd /\ sendmes_rcvd' = sendmes_rcvd
  <2>1. /\ data_sent'[e] = d + 1 /\ data_rcvd' = data_rcvd /\ sendmes_rcvd' = sendmes_rcvd
        /\ GetPackageWindow(e) > 0
    BY <1>2, <1>3 DEF PackageData
  <2>2. /\ ~UsesCC => package_window[e] = PackageWindowInit - (d - g)
        /\ UsesCC => inflight[e] = d - g
    BY Parts DEF WindowsInv, Unacked
  <2>3. /\ package_window[e] \in Int /\ inflight[e] \in Int /\ cwnd[e] \in CwndMin..CwndMax
        /\ CwndMin \in Nat /\ CwndMax \in Nat /\ PackageWindowInit \in Nat
    BY Parts, Constants
  <2> HIDE DEF d, g
  <2>4. d < g + WindowSize
    <3>1. CASE UsesCC
      BY <1>2, <2>1, <2>2, <2>3, <3>1 DEF GetPackageWindow, WindowSize
    <3>2. CASE ~UsesCC
      BY <1>2, <2>1, <2>2, <2>3, <3>2 DEF GetPackageWindow, WindowSize
    <3> QED
      BY <3>1, <3>2
  <2> QED
    BY <2>1, <2>4
<1>4. ASSUME ReceiveData(p)
      PROVE  /\ data_rcvd[p] < d /\ data_rcvd'[p] = data_rcvd[p] + 1
             /\ data_sent' = data_sent /\ sendmes_rcvd' = sendmes_rcvd
  <2>1. data_rcvd'[p] = data_rcvd[p] + 1
    BY <1>1, <1>4, ConsiderSending
  <2>2. IInv'
    BY InvNext
  <2>3. data_rcvd'[p] <= data_sent'[e]
    BY <1>1, <2>2 DEF IInv, CountsInv
  <2>4. data_sent' = data_sent /\ sendmes_rcvd' = sendmes_rcvd
    BY <1>4 DEF ReceiveData
  <2>5. data_rcvd[p] + 1 <= d
    BY <2>1, <2>3, <2>4
  <2> QED
    BY <1>1, <1>2, <2>1, <2>4, <2>5
<1>5. ASSUME ReceiveSendme(e)
      PROVE  /\ data_sent' = data_sent /\ data_rcvd' = data_rcvd
             /\ \/ sendmes_rcvd' = sendmes_rcvd
                \/ Inc * sendmes_rcvd'[e] > g /\ Inc * sendmes_rcvd'[e] <= data_rcvd[p]
  <2>1. data_sent' = data_sent /\ data_rcvd' = data_rcvd
    BY <1>5 DEF ReceiveSendme
  <2>2. \/ sendmes_rcvd' = sendmes_rcvd
        \/ sendmes_rcvd'[e] = sendmes_rcvd[e] + 1
    BY <1>2, <1>5 DEF ReceiveSendme
  <2>3. Inc * sendmes_rcvd'[e] <= data_rcvd'[p]
    <3>1. IInv'
      BY InvNext
    <3>2. (Inc * sendmes_rcvd[e] <= data_rcvd[Peer(e)])'
      BY <3>1, AckedReceived, PTL
    <3> QED
      BY <3>2
  <2>4. ASSUME sendmes_rcvd'[e] = sendmes_rcvd[e] + 1 PROVE Inc * sendmes_rcvd'[e] > g
    <3> DEFINE A == sendmes_rcvd[e]
    <3>1. A \in Nat
      BY <1>2
    <3> HIDE DEF A
    <3>2. Inc * (A + 1) > Inc * A
      BY <3>1, Constants
    <3> QED
      BY <2>4, <3>2 DEF A
  <2> QED
    BY <2>1, <2>2, <2>3, <2>4
<1>6. ASSUME PackageData(p)
      PROVE  data_sent'[e] = d /\ data_rcvd' = data_rcvd /\ sendmes_rcvd' = sendmes_rcvd
  BY <1>1, <1>2, <1>6 DEF PackageData
<1>7. ASSUME ReceiveData(e)
      PROVE  data_sent' = data_sent /\ data_rcvd'[p] = data_rcvd[p]
             /\ sendmes_rcvd' = sendmes_rcvd
  <2>1. \E r : data_rcvd' = [data_rcvd EXCEPT ![e] = r]
    BY <1>7, ReceiveDataFrame DEF IInv
  <2>2. data_sent' = data_sent /\ sendmes_rcvd' = sendmes_rcvd
    BY <1>7 DEF ReceiveData
  <2> QED
    BY <1>1, <1>2, <2>1, <2>2
<1>8. ASSUME ReceiveSendme(p)
      PROVE  data_sent' = data_sent /\ data_rcvd' = data_rcvd
             /\ sendmes_rcvd'[e] = sendmes_rcvd[e]
  BY <1>1, <1>2, <1>8 DEF ReceiveSendme
<1>9. ASSUME NEW x \in End, SendOther(x) \/ ReceiveOther(x)
      PROVE  UNCHANGED <<data_sent, data_rcvd, sendmes_rcvd>>
  BY <1>9 DEF SendOther, ReceiveOther, history
<1>10. ASSUME UNCHANGED vars PROVE UNCHANGED <<data_sent, data_rcvd, sendmes_rcvd>>
  BY <1>10 DEF vars, history
<1>11. \A x \in End : x = e \/ x = p
  BY DEF End, Peer
<1> HIDE DEF p
<1>12. \/ PackageData(e) \/ ReceiveData(p) \/ ReceiveSendme(e) \/ PackageData(p)
       \/ ReceiveData(e) \/ ReceiveSendme(p) \/ UNCHANGED vars
       \/ \E x \in End : SendOther(x) \/ ReceiveOther(x)
  BY <1>11, Zenon DEF Next, Receive
<1> QED
  BY <1>3, <1>4, <1>5, <1>6, <1>7, <1>8, <1>9, <1>10, <1>12, Zenon DEF p, d, g

\* Each direction implements the abstract window: an end never has more cells
\* outstanding than its window, and a SENDME only acknowledges received data.
THEOREM Refinement == ASSUME AgreeingParameters PROVE Spec => ImplementsCreditWindow
<1>1. Init => ToExit!Init /\ ToClient!Init
  <2> SUFFICES ASSUME Init PROVE ToExit!Init /\ ToClient!Init
    OBVIOUS
  <2>1. Inc * 0 = 0
    BY Constants
  <2> QED
    BY <2>1 DEF Init, ToExit!Init, ToClient!Init, End
<1>2. IInv /\ [Next]_vars => [ToExit!Next]_(ToExit!vars)
  <2> SUFFICES ASSUME IInv, [Next]_vars PROVE [ToExit!Next]_(ToExit!vars)
    OBVIOUS
  <2>1. "client" \in End /\ Peer("client") = "exit"
    BY DEF End, Peer
  <2> QED
    BY <2>1, DirectionStep DEF ToExit!Next, ToExit!Send, ToExit!Deliver,
       ToExit!Acknowledge, ToExit!vars
<1>3. IInv /\ [Next]_vars => [ToClient!Next]_(ToClient!vars)
  <2> SUFFICES ASSUME IInv, [Next]_vars PROVE [ToClient!Next]_(ToClient!vars)
    OBVIOUS
  <2>1. "exit" \in End /\ Peer("exit") = "client"
    BY DEF End, Peer
  <2> QED
    BY <2>1, DirectionStep DEF ToClient!Next, ToClient!Send, ToClient!Deliver,
       ToClient!Acknowledge, ToClient!vars
<1> QED
  BY <1>1, <1>2, <1>3, Invariance, PTL
     DEF Spec, ImplementsCreditWindow, ToExit!Spec, ToClient!Spec
=============================================================================
