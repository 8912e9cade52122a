------------------------- MODULE ClientRecordProofs -------------------------
(***************************************************************************)
(* Proofs about ClientRecord: what strcmp finds equal, and so who is sent  *)
(* what is said on a channel, for arrays and names of any length.          *)
(***************************************************************************)
EXTENDS ClientRecord, WellFoundedInduction, TLAPS

(* A set of numbers that is not empty has a least one, which Min returns. *)
LEMMA LeastNat ==
  ASSUME NEW S \in SUBSET Nat, S # {}
  PROVE  Min(S) \in S /\ \A k \in S : Min(S) <= k
<1>1. PICK m \in S : \A k \in S : ~(<<k, m>> \in OpToRel(<, Nat))
  BY NatLessThanWellFounded, WFMin
<1>2. \A k \in S : ~(k < m)
  BY <1>1 DEF OpToRel
<1>3. \A k \in S : m <= k
  BY <1>2
<1> QED
  BY <1>3 DEF Min

(* What strcmp reads of the bytes x: everything in front of the first 0. *)
LEMMA TextIs ==
  ASSUME NEW V, NEW x \in Seq(V)
  PROVE  /\ Text(x) \in Seq(V) /\ Len(Text(x)) \in 0..Len(x)
         /\ \A k \in 1..Len(Text(x)) : Text(x)[k] = x[k] /\ x[k] # 0
         /\ Terminated(x) <=> Len(Text(x)) < Len(x)
         /\ Terminated(x) => x[Len(Text(x)) + 1] = 0
<1> DEFINE zeros == {i \in 1..Len(x) : x[i] = 0}
<1>1. Terminated(x) <=> zeros # {}
  BY DEF Terminated, Range
<1>2. CASE ~Terminated(x)
  <2>1. Text(x) = x
    BY <1>2 DEF Text
  <2> QED
    BY <1>1, <1>2, <2>1
<1>3. CASE Terminated(x)
  <2>1. Text(x) = SubSeq(x, 1, Min(zeros) - 1)
    BY <1>1, <1>3 DEF Text, SelectInSeq
  <2>2. zeros \in SUBSET Nat
    OBVIOUS
  <2> HIDE DEF zeros
  <2>3. Min(zeros) \in zeros /\ \A k \in zeros : Min(zeros) <= k
    BY <1>1, <1>3, <2>2, LeastNat
  <2>4. PICK m \in 1..Len(x) : m = Min(zeros) /\ x[m] = 0
    BY <2>3 DEF zeros
  <2>5. Len(Text(x)) = m - 1 /\ \A k \in 1..(m - 1) : Text(x)[k] = x[k]
    BY <2>1, <2>4
  <2>6. \A k \in 1..(m - 1) : x[k] # 0
    BY <2>3, <2>4 DEF zeros
  <2>7. Text(x) \in Seq(V)
    BY <2>1, <2>4
  <2> QED
    BY <1>3, <2>4, <2>5, <2>6, <2>7
<1> QED
  BY <1>2, <1>3

(* The channel names the two clients can have; <<>> is none. *)
Names == Name \cup {<<>>}

(* A name in its array, with what lies behind it: bytes without a 0 up to  *)
(* the end of the name, or of the array, and 0 from there to the end of    *)
(* the array.                                                              *)
LEMMA BytesIs ==
  ASSUME NEW n \in Names, NEW count, NEW V,
         V = Nat \cup {count % BYTE, count \div BYTE}
  PROVE  /\ Bytes(Array(n), count) \in Seq(V)
         /\ Len(Bytes(Array(n), count)) = CHANNELID_MAX_LENGTH + 2
         /\ \A i \in 1..CHANNELID_MAX_LENGTH :
              /\ Bytes(Array(n), count)[i] = Array(n)[i]
              /\ Array(n)[i] = 0 <=> i > Len(n)
<1>1. n \in Seq(1..(BYTE - 1))
  <2>1. CASE n \in Name
    BY <2>1, RecordAssumption
  <2>2. CASE n = <<>>
    BY <2>2
  <2> QED
    BY <2>1, <2>2 DEF Names
<1>2. CHANNELID_MAX_LENGTH \in Nat /\ Len(n) \in Nat
  BY <1>1, RecordAssumption
<1>3. ASSUME NEW i \in 1..CHANNELID_MAX_LENGTH
      PROVE  /\ Array(n)[i] = 0 <=> i > Len(n)
             /\ Array(n)[i] \in Nat
  <2>1. CASE i <= Len(n)
    <3>1. n[i] \in 1..(BYTE - 1)
      <4> DEFINE Chars == 1..(BYTE - 1)
      <4>1. n \in Seq(Chars) /\ i \in 1..Len(n)
        BY <1>1, <1>2, <2>1
      <4> HIDE DEF Chars
      <4>2. n[i] \in Chars
        BY <4>1
      <4> QED
        BY <4>2 DEF Chars
    <3>2. Array(n)[i] = n[i]
      BY <2>1 DEF Array
    <3> QED
      BY <1>2, <2>1, <3>1, <3>2
  <2>2. CASE ~(i <= Len(n))
    BY <1>2, <2>2 DEF Array
  <2> QED
    BY <2>1, <2>2
<1>5. Array(n) \in Seq(V) /\ Len(Array(n)) = CHANNELID_MAX_LENGTH
  <2>1. Array(n) \in [1..CHANNELID_MAX_LENGTH -> V]
    BY <1>3 DEF Array
  <2> QED
    BY <1>2, <2>1
<1>4. <<count % BYTE, count \div BYTE>> \in Seq(V)
  OBVIOUS
<1> QED
  BY <1>2, <1>3, <1>4, <1>5 DEF Bytes

(* Arrays that strcmp finds equal are equal, whatever the bytes behind     *)
(* them are.                                                               *)
LEMMA SameText ==
  ASSUME NEW n \in Names, NEW m \in Names, NEW i, NEW j,
         Text(Bytes(Array(n), i)) = Text(Bytes(Array(m), j))
  PROVE  Array(n) = Array(m)
<1> DEFINE V == Nat \cup {i % BYTE, i \div BYTE}
           W == Nat \cup {j % BYTE, j \div BYTE}
           x == Bytes(Array(n), i)
           y == Bytes(Array(m), j)
           L == Len(Text(x))
<1>1. /\ x \in Seq(V) /\ Len(x) = CHANNELID_MAX_LENGTH + 2
      /\ \A k \in 1..CHANNELID_MAX_LENGTH :
           x[k] = Array(n)[k] /\ (Array(n)[k] = 0 <=> k > Len(n))
  BY BytesIs
<1>2. /\ y \in Seq(W) /\ Len(y) = CHANNELID_MAX_LENGTH + 2
      /\ \A k \in 1..CHANNELID_MAX_LENGTH :
           y[k] = Array(m)[k] /\ (Array(m)[k] = 0 <=> k > Len(m))
  BY BytesIs
<1>3. Len(n) \in Nat /\ Len(m) \in Nat /\ CHANNELID_MAX_LENGTH \in Nat
  BY RecordAssumption DEF Names
<1> HIDE DEF V, W, x, y
<1>4. /\ L \in 0..Len(x)
      /\ \A k \in 1..L : Text(x)[k] = x[k]
      /\ L < Len(x) => x[L + 1] = 0
  BY <1>1, TextIs
<1>5. /\ \A k \in 1..L : Text(x)[k] = y[k]
      /\ L < Len(y) => y[L + 1] = 0
  BY <1>2, TextIs DEF x, y
<1>6. ASSUME NEW k \in 1..CHANNELID_MAX_LENGTH
      PROVE  Array(n)[k] = Array(m)[k]
  <2>1. CASE k <= L
    BY <1>1, <1>2, <1>3, <1>4, <1>5, <2>1
  <2>2. CASE k > L
    <3>1. x[L + 1] = 0 /\ y[L + 1] = 0 /\ L + 1 \in 1..CHANNELID_MAX_LENGTH
      BY <1>1, <1>2, <1>3, <1>4, <1>5, <2>2
    <3>2. Len(n) <= L /\ Len(m) <= L
      BY <1>1, <1>2, <1>3, <1>4, <3>1
    <3> QED
      BY <1>1, <1>2, <1>3, <1>4, <2>2, <3>2
  <2> QED
    BY <1>3, <1>4, <2>1, <2>2
<1> QED
  BY <1>6 DEF Array

(* A name shorter than the array ends in it: strcmp reads the name, and    *)
(* nothing behind it.                                                      *)
LEMMA ShortText ==
  ASSUME NEW n \in Names, Len(n) < CHANNELID_MAX_LENGTH, NEW i, NEW j
  PROVE  /\ Terminated(Bytes(Array(n), i))
         /\ Text(Bytes(Array(n), i)) = Text(Bytes(Array(n), j))
<1>1. Len(n) \in Nat /\ CHANNELID_MAX_LENGTH \in Nat
  BY RecordAssumption DEF Names
<1>2. ASSUME NEW count
      PROVE  LET x == Bytes(Array(n), count)
                 V == Nat \cup {count % BYTE, count \div BYTE}
             IN  /\ Terminated(x)
                 /\ Text(x) \in Seq(V) /\ Len(Text(x)) = Len(n)
                 /\ \A k \in 1..Len(n) : Text(x)[k] = Array(n)[k]
  <2> DEFINE V == Nat \cup {count % BYTE, count \div BYTE}
             x == Bytes(Array(n), count)
             L == Len(Text(x))
  <2>1. /\ x \in Seq(V) /\ Len(x) = CHANNELID_MAX_LENGTH + 2
        /\ \A k \in 1..CHANNELID_MAX_LENGTH :
             x[k] = Array(n)[k] /\ (Array(n)[k] = 0 <=> k > Len(n))
    BY BytesIs
  <2> HIDE DEF V, x
  <2>2. /\ Text(x) \in Seq(V) /\ L \in 0..Len(x)
        /\ \A k \in 1..L : Text(x)[k] = x[k] /\ x[k] # 0
        /\ Terminated(x) <=> L < Len(x)
        /\ Terminated(x) => x[L + 1] = 0
    BY <2>1, TextIs
  <2>3. x[Len(n) + 1] = 0 /\ Len(n) + 1 \in 1..CHANNELID_MAX_LENGTH
    BY <1>1, <2>1
  <2>4. L <= Len(n)
    BY <1>1, <2>1, <2>2, <2>3
  <2>5. L = Len(n) /\ Terminated(x)
    BY <1>1, <2>1, <2>2, <2>4
  <2>6. \A k \in 1..Len(n) : Text(x)[k] = Array(n)[k]
    BY <1>1, <2>1, <2>2, <2>5
  <2> QED
    BY <2>2, <2>5, <2>6 DEF x, V
<1>3. Text(Bytes(Array(n), i)) = Text(Bytes(Array(n), j))
  <2> DEFINE s == Text(Bytes(Array(n), i))
             t == Text(Bytes(Array(n), j))
  <2>1. PICK V, W : s \in Seq(V) /\ t \in Seq(W)
    BY <1>2
  <2>2. Len(s) = Len(t) /\ \A k \in 1..Len(s) : s[k] = t[k]
    BY <1>2
  <2> HIDE DEF s, t
  <2>3. s = t
    BY <2>1, <2>2
  <2> QED
    BY <2>3 DEF s, t
<1> QED
  BY <1>2, <1>3

-----------------------------------------------------------------------------
(* Who is told *)

(* The array of a client holds the name it asked for. *)
RecordInv ==
  /\ name \in [{"self", "peer"} -> Names]
  /\ channel = [c \in {"self", "peer"} |-> Array(name[c])]
  /\ MembersTold
  /\ StrangersNotTold

(* What is sent on channel n by client c reaches the other client if that  *)
(* is on the same channel and the name is short, and only if the names     *)
(* agree as far as the array goes (forward_msg_channel, strcmp).           *)
LEMMA Heard ==
  ASSUME RecordInv, NEW c \in {"self", "peer"}, NEW n \in Name,
         NEW heard \in forward_msg_channel(c, Array(n))
  PROVE  /\ Len(n) < CHANNELID_MAX_LENGTH /\ name[Other(c)] = n => heard
         /\ heard => Array(name[Other(c)]) = Array(n)
<1> DEFINE m == name[Other(c)]
           count == [self |-> msg_count', peer |-> peer_count']
           x == Bytes(Array(m), count[Other(c)])
           y == Bytes(Array(n), count[c])
<1>1. Other(c) \in {"self", "peer"} /\ m \in Names /\ n \in Names
  BY DEF RecordInv, Other, Names
<1>2. heard \in Equal(x, y)
  BY <1>1 DEF forward_msg_channel, RecordInv
<1> HIDE DEF m, count
<1>3. Text(x) # Text(y) => ~heard
  BY <1>2 DEF Equal
<1>4. Text(x) = Text(y) /\ Terminated(x) => heard
  BY <1>2 DEF Equal
<1>5. Text(x) = Text(y) => Array(m) = Array(n)
  BY <1>1, SameText
<1>6. Len(n) < CHANNELID_MAX_LENGTH /\ m = n => Text(x) = Text(y) /\ Terminated(x)
  BY <1>1, ShortText
<1> QED
  BY <1>3, <1>4, <1>5, <1>6 DEF m

(* A message that client c announces on channel n while the name of the    *)
(* other client stays as it is.                                            *)
LEMMA AnnouncedRight ==
  ASSUME RecordInv, NEW c \in {"self", "peer"}, NEW n \in Name,
         NEW heard \in forward_msg_channel(c, Array(n)),
         name'[Other(c)] = name[Other(c)],
         NEW t, t = Announced(c, n, heard)
  PROVE  /\ Len(t.name) < CHANNELID_MAX_LENGTH /\ name'[Other(t.from)] = t.name
              => t.heard
         /\ t.heard => Array(name'[Other(t.from)]) = Array(t.name)
<1>1. t.name = n /\ t.from = c /\ t.heard = heard
  BY DEF Announced
<1> QED
  BY <1>1, Heard

(* Executing a message of client c keeps the array of its channel right,   *)
(* and tells whom it should (execute_msg).                                 *)
LEMMA ExecuteInv ==
  ASSUME RecordInv, NEW c \in {"self", "peer"}, execute_msg(c)
  PROVE  RecordInv'
<1> DEFINE Right(t) ==
      /\ Len(t.name) < CHANNELID_MAX_LENGTH /\ name'[Other(t.from)] = t.name
           => t.heard
      /\ t.heard => Array(name'[Other(t.from)]) = Array(t.name)
<1>1. Other(c) # c /\ Other(c) \in {"self", "peer"}
  BY DEF Other
<1>2. SUFFICES /\ name' \in [{"self", "peer"} -> Names]
               /\ channel' = [d \in {"self", "peer"} |-> Array(name'[d])]
               /\ \A t \in told' : Right(t)
  BY DEF RecordInv, MembersTold, StrangersNotTold
<1>3. Default \in Name
  BY RecordAssumption
<1>4. name[c] # <<>> => name[c] \in Name /\ channel[c] = Array(name[c])
  BY DEF RecordInv, Names
<1>5. CASE execute_auth(c)
  <2>1. CASE name[c] # <<>>
    BY <1>5, <2>1 DEF execute_auth, RecordInv
  <2>2. CASE name[c] = <<>>
    <3>1. /\ channel' = [channel EXCEPT ![c] = Array(Default)]
          /\ name' = [name EXCEPT ![c] = Default]
      BY <1>5, <2>2 DEF execute_auth
    <3>2. /\ name' \in [{"self", "peer"} -> Names]
          /\ channel' = [d \in {"self", "peer"} |-> Array(name'[d])]
          /\ name'[Other(c)] = name[Other(c)]
          /\ channel'[c] = Array(Default)
      BY <1>1, <1>3, <3>1 DEF RecordInv, Names
    <3>3. PICK heard \in forward_msg_channel(c, Array(Default)) :
            told' = {Announced(c, Default, heard)}
      BY <1>5, <2>2, <3>2 DEF execute_auth
    <3> HIDE DEF Right
    <3>4. Right(Announced(c, Default, heard))
      BY <1>3, <3>2, AnnouncedRight DEF Right
    <3> QED
      BY <3>2, <3>3, <3>4
  <2> QED
    BY <2>1, <2>2
<1>6. ASSUME NEW n \in Name, execute_join(c, n)
      PROVE  /\ name' \in [{"self", "peer"} -> Names]
             /\ channel' = [d \in {"self", "peer"} |-> Array(name'[d])]
             /\ \A t \in told' : Right(t)
  <2>1. /\ channel' = [channel EXCEPT ![c] = Array(n)]
        /\ name' = [name EXCEPT ![c] = n]
        /\ name[c] # <<>>
    BY <1>6 DEF execute_join, Joined
  <2>2. /\ name' \in [{"self", "peer"} -> Names]
        /\ channel' = [d \in {"self", "peer"} |-> Array(name'[d])]
        /\ name'[Other(c)] = name[Other(c)]
        /\ channel'[c] = Array(n)
    BY <1>1, <2>1 DEF RecordInv, Names
  <2>3. PICK left \in forward_msg_channel(c, Array(name[c])),
             joined \in forward_msg_channel(c, Array(n)) :
          told' = {Announced(c, name[c], left), Announced(c, n, joined)}
    BY <1>4, <1>6, <2>1, <2>2 DEF execute_join
  <2> HIDE DEF Right
  <2>4. Right(Announced(c, name[c], left))
    BY <1>4, <2>1, <2>2, AnnouncedRight DEF Right
  <2>5. Right(Announced(c, n, joined))
    BY <2>2, AnnouncedRight DEF Right
  <2> QED
    BY <2>2, <2>3, <2>4, <2>5
<1>7. CASE execute_chat(c)
  <2>1. name[c] # <<>> /\ UNCHANGED <<channel, name>>
    BY <1>7 DEF execute_chat
  <2>2. PICK heard \in forward_msg_channel(c, Array(name[c])) :
          told' = {Announced(c, name[c], heard)}
    BY <1>4, <1>7, <2>1 DEF execute_chat
  <2> HIDE DEF Right
  <2>3. Right(Announced(c, name[c], heard))
    BY <1>4, <2>1, AnnouncedRight DEF Right
  <2> QED
    BY <2>1, <2>2, <2>3 DEF RecordInv
<1> QED
  BY <1>5, <1>6, <1>7 DEF execute_msg

(* RecordInv holds in every reachable state, for arrays of any length and  *)
(* any number of messages, counted beyond the width of msg_count or not.   *)
THEOREM RecordInvariance == RSpec => []RecordInv
<1>1. RInit => RecordInv
  BY DEF RInit, RecordInv, Names, MembersTold, StrangersNotTold
<1>2. ASSUME RecordInv, RNext
      PROVE  RecordInv'
  <2>1. ASSUME told' = {}, UNCHANGED <<channel, name>>
        PROVE  RecordInv'
    BY <1>2, <2>1 DEF RecordInv, MembersTold, StrangersNotTold
  <2>2. ASSUME NEW id \in Id, self_msg(id)
        PROVE  RecordInv'
    BY <1>2, <2>1, <2>2, ExecuteInv DEF self_msg
  <2>3. CASE peer_msg
    BY <1>2, <2>3, ExecuteInv DEF peer_msg
  <2> QED
    BY <1>2, <2>2, <2>3 DEF RNext
<1>3. RecordInv /\ UNCHANGED <<vars, record_vars>> => RecordInv'
  BY DEF record_vars, RecordInv, MembersTold, StrangersNotTold
<1> QED
  BY <1>1, <1>2, <1>3, PTL DEF RSpec

(* A member of a channel with a name shorter than the array is sent what   *)
(* is said there (forward_msg_channel).                                    *)
THEOREM MembersAreTold == RSpec => []MembersTold
BY RecordInvariance, PTL DEF RecordInv

(* A client on another channel is not, unless the array cannot tell the    *)
(* names apart (forward_msg_channel).                                      *)
THEOREM StrangersAreNotTold == RSpec => []StrangersNotTold
BY RecordInvariance, PTL DEF RecordInv

-----------------------------------------------------------------------------
(* The ring of ids *)

(* Division with remainder. *)
LEMMA DivMod ==
  ASSUME NEW n \in Nat, NEW m \in Nat, m >= 2
  PROVE  /\ n % m \in 0..(m - 1) /\ n \div m \in Nat
         /\ n = m * (n \div m) + (n % m)
OBVIOUS

(* Numbers less than m apart have different remainders. *)
LEMMA OtherSlot ==
  ASSUME NEW n \in Nat, NEW m \in Nat, m >= 2, NEW d \in 1..(m - 1), d <= n
  PROVE  (n - d) % m # n % m
<1> SUFFICES ASSUME (n - d) % m = n % m PROVE FALSE
  OBVIOUS
<1> DEFINE p == (n - d) \div m
           q == n \div m
           r == n % m
<1>1. /\ p \in Nat /\ q \in Nat /\ r \in 0..(m - 1)
      /\ n = m * q + r /\ n - d = m * p + r
  <2>1. n - d \in Nat
    OBVIOUS
  <2> QED
    BY <2>1, DivMod
<1> HIDE DEF p, q, r
<1>2. m * (q - p) = d
  BY <1>1
<1>3. q > p
  BY <1>1, <1>2
<1>4. m * (q - p) >= m
  BY <1>1, <1>3
<1> QED
  BY <1>2, <1>4

(* Numbers m apart have the same. *)
LEMMA SameSlot ==
  ASSUME NEW n \in Nat, NEW m \in Nat, m >= 2, m <= n
  PROVE  (n - m) % m = n % m
<1> DEFINE p == (n - m) \div m
           q == n \div m
           r == n % m
           s == (n - m) % m
<1>1. /\ p \in Nat /\ q \in Nat /\ r \in 0..(m - 1) /\ s \in 0..(m - 1)
      /\ n = m * q + r /\ n - m = m * p + s
  <2>1. n - m \in Nat
    OBVIOUS
  <2> QED
    BY <2>1, DivMod
<1> HIDE DEF p, q, r, s
<1>2. m * (q - (p + 1)) = s - r
  BY <1>1
<1>3. q = p + 1
  <2>1. q > p + 1 => m * (q - (p + 1)) >= m
    BY <1>1
  <2>2. q < p + 1 => m * (q - (p + 1)) <= -m
    BY <1>1
  <2> QED
    BY <1>1, <1>2, <2>1, <2>2
<1>4. r = s
  BY <1>1, <1>3
<1> QED
  BY <1>4 DEF r, s

(* As long as msg_count has not wrapped around it counts the messages      *)
(* processed.                                                              *)
RingInv ==
  /\ processed \in 0..MaxProcessed
  /\ msg_count = processed
  /\ msg_in_confirmed \in [0..(MAX_CONFIRMED_MSG - 1) -> Id \cup {0}]

(* The search covers the newest entries but for one: the slot it stops at  *)
(* is the one that is written next (is_msg_confirmed).                     *)
LEMMA SearchedIs ==
  ASSUME RingInv, NEW index \in 0..(msg_count - 1)
  PROVE  Searched(index) <=> msg_count - index <= Depth
<1> DEFINE M == MAX_CONFIRMED_MSG
<1>1. M \in Nat /\ M >= 2 /\ msg_count \in Nat /\ index \in Nat /\ index < msg_count
  BY RingAssumption DEF RingInv
<1>2. ASSUME msg_count - index <= Depth, NEW k \in index..(msg_count - 1)
      PROVE  Slot(k) # Slot(msg_count)
  <2>1. msg_count - k \in 1..(M - 1) /\ msg_count - k <= msg_count
    BY <1>1, <1>2 DEF Depth
  <2>2. (msg_count - (msg_count - k)) % M # msg_count % M
    BY <1>1, <2>1, OtherSlot
  <2>3. msg_count - (msg_count - k) = k
    BY <1>1
  <2> QED
    BY <2>2, <2>3 DEF Slot
<1>3. ASSUME ~(msg_count - index <= Depth)
      PROVE  \E k \in index..(msg_count - 1) : Slot(k) = Slot(msg_count)
  <2>1. M <= msg_count /\ msg_count - M \in index..(msg_count - 1)
    BY <1>1, <1>3 DEF Depth
  <2> QED
    BY <1>1, <2>1, SameSlot DEF Slot
<1> QED
  BY <1>2, <1>3 DEF Searched

(* How many ids the ring stands for. *)
Remembered == IF msg_count < Depth THEN msg_count ELSE Depth

(* What the ring remembers, in numbers. *)
LEMMA RecentIs ==
  ASSUME RingInv
  PROVE  /\ Remembered \in Nat /\ Remembered <= msg_count /\ Remembered <= Depth
         /\ msg_count \in Nat /\ Depth \in Nat /\ Depth >= 1
         /\ recent \in Seq(Id \cup {0}) /\ Len(recent) = Remembered
         /\ \A k \in 1..Remembered :
              recent[k] = msg_in_confirmed[Slot(msg_count - k)]
<1>1. /\ Remembered \in Nat /\ Remembered <= msg_count /\ Remembered <= Depth
      /\ msg_count \in Nat /\ Depth \in Nat /\ Depth >= 1
  BY RingAssumption DEF RingInv, Remembered, Depth
<1>2. recent = [k \in 1..Remembered |-> msg_in_confirmed[Slot(msg_count - k)]]
  BY DEF recent, Remembered
<1>3. ASSUME NEW k \in 1..Remembered
      PROVE  msg_in_confirmed[Slot(msg_count - k)] \in Id \cup {0}
  <2>1. msg_count - k \in Nat
    BY <1>1
  <2>2. Slot(msg_count - k) \in 0..(MAX_CONFIRMED_MSG - 1)
    BY <2>1, DivMod, RingAssumption DEF Slot
  <2> QED
    BY <2>2 DEF RingInv
<1> QED
  BY <1>1, <1>2, <1>3

(* The same after a step. *)
LEMMA RecentIsNext ==
  ASSUME RingInv'
  PROVE  /\ Remembered' \in Nat
         /\ recent' \in Seq(Id \cup {0}) /\ Len(recent') = Remembered'
         /\ \A k \in 1..Remembered' :
              recent'[k] = msg_in_confirmed'[Slot(msg_count' - k)]
<1>1. /\ Remembered' \in Nat /\ Remembered' <= msg_count'
      /\ msg_count' \in Nat
  BY RingAssumption DEF RingInv, Remembered, Depth
<1>2. recent' = [k \in 1..Remembered' |-> msg_in_confirmed'[Slot(msg_count' - k)]]
  BY DEF recent, Remembered, Depth, Slot
<1>3. ASSUME NEW k \in 1..Remembered'
      PROVE  msg_in_confirmed'[Slot(msg_count' - k)] \in Id \cup {0}
  <2> DEFINE m == msg_count'
             r == Remembered'
  <2>0. k \in 1..r /\ r \in Nat /\ m \in Nat /\ r <= m
    BY <1>1
  <2> HIDE DEF m, r
  <2>1. m - k \in Nat
    BY <2>0
  <2>2. Slot(msg_count' - k) \in 0..(MAX_CONFIRMED_MSG - 1)
    BY <2>1, DivMod, RingAssumption DEF Slot, m
  <2> QED
    BY <2>2 DEF RingInv
<1> QED
  BY <1>1, <1>2, <1>3

(* A message is found confirmed just when its id is one the ring           *)
(* remembers (is_msg_confirmed).                                           *)
LEMMA ConfirmedIs ==
  ASSUME RingInv, NEW id
  PROVE  is_msg_confirmed(id) <=> \E k \in 1..Remembered : recent[k] = id
<1>1. ASSUME NEW index \in 0..(msg_count - 1), Searched(index),
             msg_in_confirmed[Slot(index)] = id
      PROVE  \E k \in 1..Remembered : recent[k] = id
  <2>1. msg_count - index \in 1..Remembered
    BY <1>1, SearchedIs, RecentIs DEF Remembered
  <2>2. msg_count - (msg_count - index) = index
    BY RecentIs
  <2> QED
    BY <1>1, <2>1, <2>2, RecentIs
<1>2. ASSUME NEW k \in 1..Remembered, recent[k] = id
      PROVE  is_msg_confirmed(id)
  <2>1. /\ msg_count - k \in 0..(msg_count - 1)
        /\ msg_count - (msg_count - k) <= Depth
    BY RecentIs
  <2> QED
    BY <1>2, <2>1, SearchedIs, RecentIs DEF is_msg_confirmed
<1> QED
  BY <1>1, <1>2 DEF is_msg_confirmed

(* A message that is processed becomes the newest id remembered, and the   *)
(* oldest one is forgotten if the ring is full (process_msg).              *)
LEMMA ProcessedRecent ==
  ASSUME RingInv, RingInv', NEW id,
         msg_count' = msg_count + 1,
         msg_in_confirmed' = [msg_in_confirmed EXCEPT ![Slot(msg_count)] = id]
  PROVE  LET all == <<id>> \o recent
         IN  recent' = IF Len(all) > Depth THEN Front(all) ELSE all
<1> DEFINE all == <<id>> \o recent
           cut == IF Len(all) > Depth THEN Front(all) ELSE all
           V == Id \cup {0, id}
<1>1. /\ Remembered \in Nat /\ Remembered <= msg_count /\ Remembered <= Depth
      /\ msg_count \in Nat /\ Depth \in Nat /\ Depth >= 1
      /\ recent \in Seq(V) /\ Len(recent) = Remembered
      /\ \A k \in 1..Remembered :
           recent[k] = msg_in_confirmed[Slot(msg_count - k)]
  BY RecentIs
<1>2. /\ recent' \in Seq(V) /\ Len(recent') = Remembered'
      /\ \A k \in 1..Remembered' :
           recent'[k] = msg_in_confirmed'[Slot(msg_count' - k)]
  BY RecentIsNext
<1>3. Remembered' = IF msg_count < Depth THEN msg_count + 1 ELSE Depth
  BY <1>1 DEF Remembered, Depth
<1> HIDE DEF V
<1>4. /\ cut \in Seq(V) /\ Len(cut) = Remembered'
      /\ \A k \in 1..Remembered' : cut[k] = IF k = 1 THEN id ELSE recent[k - 1]
  <2>1. <<id>> \in Seq(V)
    BY DEF V
  <2>2. /\ all \in Seq(V) /\ Len(all) = Remembered + 1
        /\ \A k \in 1..(Remembered + 1) :
             all[k] = IF k = 1 THEN id ELSE recent[k - 1]
    BY <1>1, <2>1
  <2> HIDE DEF all
  <2>3. CASE msg_count < Depth
    BY <1>1, <1>3, <2>2, <2>3 DEF Remembered
  <2>4. CASE ~(msg_count < Depth)
    <3>1. Remembered = Depth /\ Remembered' = Depth
      BY <1>3, <2>4 DEF Remembered
    <3>2. cut = SubSeq(all, 1, Depth)
      BY <1>1, <2>2, <3>1 DEF Front
    <3> HIDE DEF cut
    <3>3. cut \in Seq(V) /\ Len(cut) = Depth
      BY <1>1, <2>2, <3>1, <3>2
    <3>4. \A k \in 1..Depth : cut[k] = all[k]
      BY <1>1, <2>2, <3>1, <3>2
    <3> QED
      BY <1>1, <2>2, <3>1, <3>3, <3>4
  <2> QED
    BY <2>3, <2>4
<1>5. ASSUME NEW k \in 1..Remembered'
      PROVE  recent'[k] = IF k = 1 THEN id ELSE recent[k - 1]
  <2>1. msg_count \in Nat /\ Slot(msg_count) \in 0..(MAX_CONFIRMED_MSG - 1)
    BY <1>1, DivMod, RingAssumption DEF Slot
  <2>2. recent'[k] = msg_in_confirmed'[Slot((msg_count + 1) - k)]
    BY <1>2
  <2>3. CASE k = 1
    <3>1. (msg_count + 1) - k = msg_count
      BY <2>1, <2>3
    <3> QED
      BY <2>1, <2>2, <2>3, <3>1 DEF RingInv
  <2>4. CASE k # 1
    <3>1. k - 1 \in 1..Remembered /\ k - 1 \in 1..(MAX_CONFIRMED_MSG - 1)
          /\ k - 1 <= msg_count /\ (msg_count + 1) - k = msg_count - (k - 1)
      BY <1>1, <1>3, <2>4 DEF Remembered, Depth
    <3>2. Slot(msg_count - (k - 1)) # Slot(msg_count)
      BY <1>1, <3>1, OtherSlot, RingAssumption DEF Slot
    <3>3. msg_count - (k - 1) \in Nat
      BY <1>1, <3>1
    <3>4. Slot(msg_count - (k - 1)) \in 0..(MAX_CONFIRMED_MSG - 1)
      BY <3>3, DivMod, RingAssumption DEF Slot
    <3>5. recent'[k] = msg_in_confirmed[Slot(msg_count - (k - 1))]
      BY <2>1, <2>2, <3>1, <3>2, <3>4 DEF RingInv
    <3> QED
      BY <1>1, <2>4, <3>1, <3>5
  <2> QED
    BY <2>3, <2>4
<1> HIDE DEF cut
<1>6. recent' = cut
  BY <1>2, <1>4, <1>5
<1> QED
  BY <1>6 DEF cut

(* A step of the ring is a step of the filter, as long as the 16 bits of   *)
(* msg_count last.                                                         *)
LEMMA RingStep ==
  ASSUME MaxProcessed < COUNT_WIDTH, RingInv, [Next]_vars
  PROVE  RingInv' /\ [Filter!FilterNext]_(Filter!fvars)
<1>1. CASE UNCHANGED vars
  BY <1>1 DEF vars, RingInv, Filter!fvars, recent, Depth, Slot
<1>2. ASSUME NEW id \in Id, process_msg(id)
      PROVE  RingInv' /\ Filter!FilterNext
  <2>1. is_msg_confirmed(id) <=> id \in Filter!ToSet(recent)
    BY ConfirmedIs, RecentIs DEF Filter!ToSet
  <2>2. CASE is_msg_confirmed(id)
    <3>1. verdict' = <<id, FALSE>> /\ UNCHANGED <<msg_count, msg_in_confirmed, processed>>
      BY <1>2, <2>2 DEF process_msg
    <3>2. RingInv' /\ recent' = recent
      BY <3>1 DEF RingInv, recent, Depth, Slot
    <3> QED
      BY <2>1, <2>2, <3>1, <3>2 DEF Filter!FilterNext, Filter!Receive
  <2>3. CASE ~is_msg_confirmed(id)
    <3>1. /\ processed < MaxProcessed
          /\ verdict' = <<id, TRUE>>
          /\ msg_in_confirmed' = [msg_in_confirmed EXCEPT ![Slot(msg_count)] = id]
          /\ msg_count' = (msg_count + 1) % COUNT_WIDTH
          /\ processed' = processed + 1
      BY <1>2, <2>3 DEF process_msg
    <3>2. msg_count' = msg_count + 1
      BY <3>1, RingAssumption DEF RingInv
    <3>3. RingInv'
      <4>1. processed' \in 0..MaxProcessed /\ msg_count' = processed'
        BY <3>1, <3>2, RingAssumption DEF RingInv
      <4>2. msg_in_confirmed' \in [0..(MAX_CONFIRMED_MSG - 1) -> Id \cup {0}]
        BY <3>1 DEF RingInv
      <4> QED
        BY <4>1, <4>2 DEF RingInv
    <3>4. LET all == <<id>> \o recent
          IN  recent' = IF Len(all) > Depth THEN Front(all) ELSE all
      BY <3>1, <3>2, <3>3, ProcessedRecent
    <3> QED
      BY <2>1, <2>3, <3>1, <3>3, <3>4 DEF Filter!FilterNext, Filter!Receive, Filter!Front, Front
  <2> QED
    BY <2>2, <2>3
<1> QED
  BY <1>1, <1>2 DEF Next

(* Before msg_count wraps around, a message of a client is processed just  *)
(* when its id is none of the last MAX_CONFIRMED_MSG - 1 processed         *)
(* (process_msg, is_msg_confirmed), for every size of the ring.            *)
THEOREM RingImplementsFilter ==
  ASSUME MaxProcessed < COUNT_WIDTH
  PROVE  RSpec => ImplementsFilter
<1>1. RInit => RingInv /\ Filter!FilterInit
  BY RingAssumption DEF RInit, Init, RingInv, Filter!FilterInit, recent, Depth
<1>2. [RNext]_<<vars, record_vars>> => [Next]_vars
  BY DEF RNext, Next, self_msg, peer_msg, vars
<1>3. RingInv /\ [Next]_vars => RingInv' /\ [Filter!FilterNext]_(Filter!fvars)
  BY RingStep
<1> QED
  BY <1>1, <1>2, <1>3, PTL DEF RSpec, ImplementsFilter, Filter!FilterSpec
=============================================================================
