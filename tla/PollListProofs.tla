--------------------------- MODULE PollListProofs ---------------------------
(***************************************************************************)
(* Proofs about PollList: the loop of del_poll_fd overwrites nothing but   *)
(* gaps and draws no unused entry into the window, so that no client's     *)
(* descriptor is lost and poll() is never given an unused entry, for any   *)
(* number of descriptors and entries.                                      *)
(***************************************************************************)
EXTENDS PollList, WellFoundedInduction, SequenceTheorems, TLAPS

(* A set of numbers that is not empty has a least one, which Min returns. *)
LEMMA LeastNat ==
  ASSUME NEW S \in SUBSET Nat, S # {}
  PROVE  Min(S) \in S /\ \A k \in S : Min(S) <= k
<1>1. PICK m \in S : \A k \in S : ~(<<k, m>> \in OpToRel(<, Nat))
  BY NatLessThanWellFounded, WFMin
<1>2. \A k \in S : ~(k < m)
  BY <1>1 DEF OpToRel
<1>3. \A k \in S : m <= k
  BY <1>2
<1> QED
  BY <1>3 DEF Min

(* Induction: the set of the numbers a fact holds for is all of Nat. *)
LEMMA AllNat ==
  ASSUME NEW S, 0 \in S, \A n \in Nat : n \in S => n + 1 \in S
  PROVE  \A n \in Nat : n \in S
<1> SUFFICES ASSUME Nat \ S # {} PROVE FALSE
  OBVIOUS
<1>1. Min(Nat \ S) \in Nat \ S /\ \A k \in Nat \ S : Min(Nat \ S) <= k
  BY LeastNat
<1> DEFINE m == Min(Nat \ S)
<1> HIDE DEF m
<1>2. m \in Nat \ S /\ m # 0 /\ \A k \in Nat \ S : m <= k
  BY <1>1 DEF m
<1>3. m - 1 \in Nat /\ m - 1 \in S
  BY <1>2
<1> QED
  BY <1>2, <1>3

-----------------------------------------------------------------------------
(* The loop of del_poll_fd *)

Entry == Fd \cup {0, -1}

(* The loop, as far as it has come after j entries. *)
Compacts(f, list, n) ==
  f = [j \in 0..n |-> IF j = 0 THEN [list |-> list, cnt |-> cnt, offset |-> 1]
                      ELSE CompactStep(f[j - 1], j)]

LEMMA CompactsExists ==
  ASSUME NEW list, NEW n \in Nat
  PROVE  \E f : Compacts(f, list, n)
<1> DEFINE start == [list |-> list, cnt |-> cnt, offset |-> 1]
           S == {k \in Nat : \E f : Compacts(f, list, k)}
<1>1. 0 \in S
  <2>1. Compacts([j \in 0..0 |-> start], list, 0)
    BY DEF Compacts
  <2> QED
    BY <2>1
<1>2. ASSUME NEW k \in Nat, k \in S
      PROVE  k + 1 \in S
  <2>1. PICK f : Compacts(f, list, k)
    BY <1>2
  <2> DEFINE g == [j \in 0..(k + 1) |-> IF j <= k THEN f[j] ELSE CompactStep(f[j - 1], j)]
  <2>2. \A j \in 0..k : f[j] = IF j = 0 THEN start ELSE CompactStep(f[j - 1], j)
    BY <2>1 DEF Compacts
  <2>3. \A j \in 0..(k + 1) : j # 0 => g[j - 1] = f[j - 1]
    OBVIOUS
  <2>4. \A j \in 0..(k + 1) : g[j] = IF j = 0 THEN start ELSE CompactStep(g[j - 1], j)
    BY <2>2, <2>3
  <2>5. g = [j \in 0..(k + 1) |-> g[j]]
    OBVIOUS
  <2> HIDE DEF g
  <2>6. Compacts(g, list, k + 1)
    BY <2>4, <2>5 DEF Compacts
  <2> QED
    BY <2>6
<1> HIDE DEF S
<1>3. n \in S
  BY <1>1, <1>2, AllNat
<1> QED
  BY <1>3 DEF S

LEMMA CompactIs ==
  ASSUME NEW list \in Seq(Entry)
  PROVE  \E f : Compacts(f, list, Len(list)) /\ Compact(list) = f[Len(list)]
<1>1. \E f : Compacts(f, list, Len(list))
  BY CompactsExists
<1> DEFINE g == CHOOSE f : Compacts(f, list, Len(list))
<1>2. Compacts(g, list, Len(list))
  BY <1>1
<1>3. Compact(list) = g[Len(list)]
  BY DEF Compact, Compacts
<1> QED
  BY <1>2, <1>3

(* What holds after j entries: only gaps were overwritten, nothing behind  *)
(* entry j was, and the window has shrunk with every gap by at least as    *)
(* much as the offset has grown, so that what is drawn into it comes from  *)
(* within the old one.                                                     *)
Loop(a, list, j) ==
  /\ a = [list |-> a.list, cnt |-> a.cnt, offset |-> a.offset]
  /\ a.list \in Seq(Entry) /\ Len(a.list) = Len(list)
  /\ a.cnt \in 0..cnt /\ a.offset \in Nat \ {0} /\ a.cnt + a.offset <= cnt + 1
  /\ \A k \in 1..Len(list) : list[k] # -1 \/ k > j => a.list[k] = list[k]
  /\ \A k \in 1..a.cnt : a.list[k] # 0

LEMMA LoopStep ==
  ASSUME NEW list \in Seq(Entry), cnt \in 0..Len(list),
         \A k \in 1..cnt : list[k] # 0,
         NEW j \in 1..Len(list), NEW a, Loop(a, list, j - 1)
  PROVE  Loop(CompactStep(a, j), list, j)
<1> DEFINE b == CompactStep(a, j)
<1>0. /\ a.list \in Seq(Entry) /\ Len(a.list) = Len(list) /\ Len(list) \in Nat
      /\ a.cnt \in 0..cnt /\ a.offset \in Nat \ {0} /\ a.cnt + a.offset <= cnt + 1
      /\ \A k \in 1..Len(list) : list[k] # -1 \/ k > j - 1 => a.list[k] = list[k]
      /\ \A k \in 1..a.cnt : a.list[k] # 0
      /\ a = [list |-> a.list, cnt |-> a.cnt, offset |-> a.offset]
  BY DEF Loop
<1>1. CASE ~(j <= a.cnt /\ a.list[j] = -1)
  <2>1. b = a
    BY <1>1 DEF CompactStep
  <2> QED
    BY <1>0, <2>1 DEF Loop
<1>2. CASE j <= a.cnt /\ a.list[j] = -1 /\ j + a.offset <= Len(a.list)
  <2> DEFINE v == a.list[j + a.offset]
             l == [a.list EXCEPT ![j] = v]
  <2>1. b = [list |-> l, cnt |-> a.cnt - 1, offset |-> a.offset + 1]
    BY <1>2 DEF CompactStep
  <2>2. j + a.offset \in 1..Len(list) /\ v \in Entry
    BY <1>0, <1>2
  <2>3. l \in Seq(Entry) /\ Len(l) = Len(list)
        /\ \A k \in 1..Len(list) : l[k] = IF k = j THEN v ELSE a.list[k]
    BY <1>0, <2>2
  <2>4. v = list[j + a.offset]
    BY <1>0, <2>2
  <2>5. j < a.cnt => v # 0
    BY <1>0, <2>2, <2>4
  <2>6. list[j] = -1
    BY <1>0, <1>2
  <2> HIDE DEF v, l
  <2>7. \A k \in 1..Len(list) : list[k] # -1 \/ k > j => l[k] = list[k]
    BY <1>0, <2>3, <2>6
  <2>8. ASSUME NEW k \in 1..(a.cnt - 1) PROVE l[k] # 0
    <3>1. k \in 1..Len(list) /\ k \in 1..a.cnt /\ k < a.cnt
      BY <1>0
    <3> QED
      BY <1>0, <2>3, <2>5, <3>1
  <2>9. a.cnt - 1 \in 0..cnt /\ a.offset + 1 \in Nat \ {0}
        /\ (a.cnt - 1) + (a.offset + 1) <= cnt + 1
    BY <1>0, <1>2
  <2> QED
    BY <2>1, <2>3, <2>7, <2>8, <2>9 DEF Loop
<1>3. CASE j <= a.cnt /\ a.list[j] = -1 /\ ~(j + a.offset <= Len(a.list))
  <2>1. b = [list |-> a.list, cnt |-> a.cnt - 1, offset |-> a.offset]
    BY <1>0, <1>3 DEF CompactStep
  <2>2. a.cnt - 1 \in 0..cnt /\ (a.cnt - 1) + a.offset <= cnt + 1
    BY <1>0, <1>3
  <2>3. \A k \in 1..(a.cnt - 1) : a.list[k] # 0
    BY <1>0
  <2>4. \A k \in 1..Len(list) : list[k] # -1 \/ k > j => a.list[k] = list[k]
    BY <1>0
  <2> QED
    BY <1>0, <2>1, <2>2, <2>3, <2>4 DEF Loop
<1> QED
  BY <1>1, <1>2, <1>3

(* What the loop leaves: every descriptor where it was, no unused entry in *)
(* the window.                                                             *)
LEMMA Compacted ==
  ASSUME NEW list \in Seq(Entry), cnt \in 0..Len(list),
         \A k \in 1..cnt : list[k] # 0
  PROVE  Loop(Compact(list), list, Len(list))
<1>1. PICK f : Compacts(f, list, Len(list)) /\ Compact(list) = f[Len(list)]
  BY CompactIs
<1> DEFINE start == [list |-> list, cnt |-> cnt, offset |-> 1]
           S == {k \in Nat : k \in 0..Len(list) => Loop(f[k], list, k)}
<1>2. \A j \in 0..Len(list) : f[j] = IF j = 0 THEN start ELSE CompactStep(f[j - 1], j)
  BY <1>1 DEF Compacts
<1>3. 0 \in S
  <2>1. Loop(start, list, 0)
    BY DEF Loop
  <2> QED
    BY <1>2, <2>1
<1>4. ASSUME NEW k \in Nat, k \in S
      PROVE  k + 1 \in S
  <2> SUFFICES ASSUME k + 1 \in 0..Len(list) PROVE Loop(f[k + 1], list, k + 1)
    OBVIOUS
  <2>1. Loop(f[k], list, k) /\ f[k + 1] = CompactStep(f[k], k + 1)
    BY <1>2, <1>4
  <2>2. k + 1 \in 1..Len(list) /\ (k + 1) - 1 = k
    OBVIOUS
  <2> QED
    BY <2>1, <2>2, LoopStep
<1> HIDE DEF S
<1>5. Len(list) \in S
  <2>1. Len(list) \in Nat
    OBVIOUS
  <2> QED
    BY <1>3, <1>4, <2>1, AllNat
<1> QED
  BY <1>1, <1>5 DEF S

-----------------------------------------------------------------------------
(* The invariant *)

PollInv == TypeOK /\ LiveStored /\ NoUnusedInWindow

LEMMA PollInvIs ==
  PollInv <=>
    /\ pollfd_list \in Seq(Entry) /\ Len(pollfd_list) <= MaxSize
    /\ cnt \in 0..Len(pollfd_list)
    /\ live \subseteq open /\ open \subseteq Fd
    /\ \A fd \in live : \E k \in 1..Len(pollfd_list) : pollfd_list[k] = fd
    /\ \A k \in 1..cnt : pollfd_list[k] # 0
BY DEF PollInv, TypeOK, LiveStored, NoUnusedInWindow, Size, Window, Entries, Entry

LEMMA PollInvIsNext ==
  PollInv' <=>
    /\ pollfd_list' \in Seq(Entry) /\ Len(pollfd_list') <= MaxSize
    /\ cnt' \in 0..Len(pollfd_list')
    /\ live' \subseteq open' /\ open' \subseteq Fd
    /\ \A fd \in live' : \E k \in 1..Len(pollfd_list') : pollfd_list'[k] = fd
    /\ \A k \in 1..cnt' : pollfd_list'[k] # 0
BY DEF PollInv, TypeOK, LiveStored, NoUnusedInWindow, Size, Window, Entries, Entry

LEMMA PollInit == Init => PollInv
<1> SUFFICES ASSUME Init PROVE PollInv
  OBVIOUS
<1>1. pollfd_list \in Seq(Entry) /\ Len(pollfd_list) = INITIAL_SIZE
  BY SizeAssumption DEF Init, Entry
<1> QED
  BY <1>1, SizeAssumption, PollInvIs DEF Init

(* The array with room for another descriptor (resize_poll_fd). *)
LEMMA GrownIs ==
  ASSUME PollInv
  PROVE  /\ Grown \in Seq(Entry) /\ Len(Grown) >= Len(pollfd_list)
         /\ \A k \in 1..Len(pollfd_list) : Grown[k] = pollfd_list[k]
         /\ get_free_poll_fd(Grown) \in (cnt + 1)..Len(Grown)
         /\ \A k \in 1..(get_free_poll_fd(Grown) - 1) : Grown[k] # 0
         /\ Grown[get_free_poll_fd(Grown)] = 0
<1> DEFINE free == {k \in 1..Len(Grown) : Grown[k] = 0}
<1>1. pollfd_list \in Seq(Entry) /\ cnt \in 0..Len(pollfd_list)
      /\ \A k \in 1..cnt : pollfd_list[k] # 0
  BY PollInvIs
<1>2. /\ Grown \in Seq(Entry) /\ Len(Grown) >= Len(pollfd_list)
      /\ \A k \in 1..Len(pollfd_list) : Grown[k] = pollfd_list[k]
      /\ free # {}
  <2>1. CASE 0 \in Entries
    <3>1. Grown = pollfd_list /\ \E k \in 1..Len(pollfd_list) : pollfd_list[k] = 0
      BY <2>1 DEF Grown, Entries, Size
    <3> QED
      BY <1>1, <3>1
  <2>2. CASE 0 \notin Entries
    <3> DEFINE new == [k \in 1..REALLOC_DELTA |-> 0]
    <3>1. new \in Seq(Entry) /\ Len(new) = REALLOC_DELTA /\ new[1] = 0
      BY SizeAssumption DEF Entry
    <3>2. Grown = pollfd_list \o new
      BY <2>2 DEF Grown
    <3> HIDE DEF new
    <3>3. /\ Grown \in Seq(Entry) /\ Len(Grown) = Len(pollfd_list) + REALLOC_DELTA
          /\ \A k \in 1..Len(pollfd_list) : Grown[k] = pollfd_list[k]
          /\ Grown[Len(pollfd_list) + 1] = new[1]
      <4> DEFINE n == Len(pollfd_list)
                 g == pollfd_list \o new
      <4>1. /\ g \in Seq(Entry) /\ Len(g) = n + REALLOC_DELTA
            /\ \A k \in 1..(n + REALLOC_DELTA) :
                 g[k] = IF k <= n THEN pollfd_list[k] ELSE new[k - n]
        BY <1>1, <3>1, ConcatProperties
      <4>2. n \in Nat /\ n + 1 \in 1..(n + REALLOC_DELTA) /\ (n + 1) - n = 1
        BY <1>1, SizeAssumption
      <4> HIDE DEF n, g
      <4>3. g[n + 1] = new[1]
        BY <4>1, <4>2
      <4>4. \A k \in 1..n : g[k] = pollfd_list[k]
        BY <4>1, <4>2, SizeAssumption
      <4> QED
        BY <3>2, <4>1, <4>3, <4>4 DEF n, g
    <3>4. Len(pollfd_list) + 1 \in 1..Len(Grown)
      BY <1>1, <3>3, SizeAssumption
    <3> QED
      BY <1>1, <3>1, <3>3, <3>4, SizeAssumption
  <2> QED
    BY <2>1, <2>2
<1> DEFINE m == get_free_poll_fd(Grown)
<1>3. m \in free /\ \A k \in free : m <= k
  <2>1. free \in SUBSET Nat
    OBVIOUS
  <2> HIDE DEF free
  <2>2. Min(free) \in free /\ \A k \in free : Min(free) <= k
    BY <1>2, <2>1, LeastNat
  <2> QED
    BY <2>2 DEF get_free_poll_fd, free
<1> HIDE DEF m
<1>4. m \in 1..Len(Grown) /\ Grown[m] = 0
  BY <1>3
<1>5. \A k \in 1..(m - 1) : Grown[k] # 0
  BY <1>2, <1>3, <1>4
<1>6. m > cnt
  BY <1>1, <1>2, <1>4
<1> QED
  BY <1>1, <1>2, <1>4, <1>5, <1>6 DEF m

LEMMA AcceptInv ==
  ASSUME PollInv, NEW fd \in Fd, Accept(fd)
  PROVE  PollInv'
<1> DEFINE m == get_free_poll_fd(Grown)
<1>1. /\ Grown \in Seq(Entry) /\ Len(Grown) >= Len(pollfd_list)
      /\ \A k \in 1..Len(pollfd_list) : Grown[k] = pollfd_list[k]
      /\ m \in (cnt + 1)..Len(Grown)
      /\ \A k \in 1..(m - 1) : Grown[k] # 0
      /\ Grown[m] = 0
  BY GrownIs
<1>2. /\ Len(Grown) <= MaxSize /\ pollfd_list' = [Grown EXCEPT ![m] = fd]
      /\ cnt' = cnt + 1 /\ live' = live \cup {fd} /\ open' = open \cup {fd}
  BY DEF Accept, add_poll_fd
<1>3. /\ pollfd_list \in Seq(Entry) /\ cnt \in 0..Len(pollfd_list)
      /\ live \subseteq open /\ open \subseteq Fd
      /\ \A f \in live : \E k \in 1..Len(pollfd_list) : pollfd_list[k] = f
  BY PollInvIs
<1> HIDE DEF m
<1>4. fd \in Entry /\ fd # 0
  BY FdAssumption DEF Entry
<1>5. m \in 1..Len(Grown) /\ m > cnt
  BY <1>1, <1>3
<1>6. /\ pollfd_list' \in Seq(Entry) /\ Len(pollfd_list') = Len(Grown)
      /\ \A k \in 1..Len(Grown) : pollfd_list'[k] = IF k = m THEN fd ELSE Grown[k]
  BY <1>1, <1>2, <1>4, <1>5
<1>7. cnt' \in 0..Len(pollfd_list')
  BY <1>1, <1>2, <1>3, <1>5, <1>6
<1>8. ASSUME NEW k \in 1..cnt' PROVE pollfd_list'[k] # 0
  <2>1. k \in 1..Len(Grown) /\ (k = m \/ k \in 1..(m - 1))
    BY <1>1, <1>2, <1>3, <1>5, <1>6
  <2> QED
    BY <1>1, <1>4, <1>6, <2>1
<1>9. ASSUME NEW f \in live'
      PROVE  \E k \in 1..Len(pollfd_list') : pollfd_list'[k] = f
  <2>1. CASE f = fd
    BY <1>5, <1>6, <2>1
  <2>2. CASE f # fd
    <3>1. f \in live
      BY <1>2, <2>2
    <3>2. f \in Nat \ {0}
      BY <1>3, <3>1, FdAssumption
    <3>3. PICK k \in 1..Len(pollfd_list) : pollfd_list[k] = f
      BY <1>3, <3>1
    <3>4. k \in 1..Len(Grown) /\ Grown[k] = f
      BY <1>1, <1>3, <3>3
    <3>5. k # m
      BY <1>1, <3>2, <3>4
    <3> QED
      BY <1>6, <3>4, <3>5
  <2> QED
    BY <2>1, <2>2
<1> QED
  BY <1>2, <1>3, <1>6, <1>7, <1>8, <1>9, PollInvIsNext

(* A descriptor that is taken off the list may be any: those of the        *)
(* clients that remain are kept (del_poll_fd).                             *)
LEMMA DelInv ==
  ASSUME PollInv, NEW fd \in Fd, del_poll_fd(fd), live' \subseteq live \ {fd}
  PROVE  PollInv'
<1> DEFINE list == Mark(fd)
           a == Compact(list)
<1>1. /\ pollfd_list \in Seq(Entry) /\ Len(pollfd_list) <= MaxSize
      /\ cnt \in 0..Len(pollfd_list)
      /\ live \subseteq open /\ open \subseteq Fd
      /\ \A f \in live : \E k \in 1..Len(pollfd_list) : pollfd_list[k] = f
      /\ \A k \in 1..cnt : pollfd_list[k] # 0
  BY PollInvIs
<1>2. /\ list \in Seq(Entry) /\ Len(list) = Len(pollfd_list)
      /\ \A k \in 1..Len(pollfd_list) :
           list[k] = IF k <= cnt /\ pollfd_list[k] = fd THEN -1 ELSE pollfd_list[k]
  BY <1>1 DEF Mark, Size, Entry
<1> HIDE DEF list
<1>3. cnt \in 0..Len(list) /\ \A k \in 1..cnt : list[k] # 0
  BY <1>1, <1>2
<1>4. Loop(a, list, Len(list))
  BY <1>2, <1>3, Compacted
<1> HIDE DEF a
<1>5. pollfd_list' = a.list /\ cnt' = a.cnt /\ open' \in {open, open \ {fd}}
  BY DEF del_poll_fd, a, list
<1>6. /\ a.list \in Seq(Entry) /\ Len(a.list) = Len(pollfd_list)
      /\ a.cnt \in 0..cnt
      /\ \A k \in 1..Len(pollfd_list) : list[k] # -1 => a.list[k] = list[k]
      /\ \A k \in 1..a.cnt : a.list[k] # 0
  BY <1>2, <1>4 DEF Loop
<1>7. cnt' \in 0..Len(pollfd_list')
  BY <1>1, <1>5, <1>6
<1>8. ASSUME NEW f \in live'
      PROVE  \E k \in 1..Len(pollfd_list') : pollfd_list'[k] = f
  <2>1. f \in live /\ f # fd
    OBVIOUS
  <2>2. f \in Nat
    BY <1>1, <2>1, FdAssumption
  <2>3. PICK k \in 1..Len(pollfd_list) : pollfd_list[k] = f
    BY <1>1, <2>1
  <2>4. list[k] = f /\ f # -1
    BY <1>2, <2>1, <2>2, <2>3
  <2>5. a.list[k] = f
    BY <1>6, <2>4
  <2> QED
    BY <1>5, <1>6, <2>5
<1>9. live' \subseteq open' /\ open' \subseteq Fd
  BY <1>1, <1>5
<1> QED
  BY <1>1, <1>5, <1>6, <1>7, <1>8, <1>9, PollInvIsNext

LEMMA PollNext == PollInv /\ [Next]_vars => PollInv'
<1> SUFFICES ASSUME PollInv, [Next]_vars PROVE PollInv'
  OBVIOUS
<1>1. CASE UNCHANGED vars
  BY <1>1, PollInvIs, PollInvIsNext DEF vars
<1>2. ASSUME NEW fd \in Fd, AcceptInUse(fd) PROVE PollInv'
  BY <1>2, PollInvIs, PollInvIsNext DEF AcceptInUse
<1>3. ASSUME NEW fd \in Fd, Delete(fd) \/ Missing(fd) PROVE PollInv'
  <2>1. del_poll_fd(fd) /\ live' \subseteq live \ {fd}
    BY <1>3 DEF Delete, Missing
  <2> QED
    BY <2>1, DelInv
<1> QED
  BY <1>1, <1>2, <1>3, AcceptInv DEF Next

THEOREM PollInvariance == Spec => []PollInv
BY PollInit, PollNext, PTL DEF Spec

(* The window lies within the array, whatever is added and deleted         *)
(* (add_poll_fd, del_poll_fd).                                             *)
THEOREM PollTypeCorrect == Spec => []TypeOK
<1>1. PollInv => TypeOK
  BY DEF PollInv
<1> QED
  BY <1>1, PollInvariance, PTL

(* No client's descriptor is ever lost from the array, although            *)
(* del_poll_fd copies entries over others (del_poll_fd).                   *)
THEOREM ClientsStayStored == Spec => []LiveStored
<1>1. PollInv => LiveStored
  BY DEF PollInv
<1> QED
  BY <1>1, PollInvariance, PTL

(* poll() is never given an unused entry, whose 0 is stdin (add_poll_fd,   *)
(* del_poll_fd).                                                           *)
THEOREM StdinIsNotPolled == Spec => []NoUnusedInWindow
<1>1. PollInv => NoUnusedInWindow
  BY DEF PollInv
<1> QED
  BY <1>1, PollInvariance, PTL
=============================================================================
