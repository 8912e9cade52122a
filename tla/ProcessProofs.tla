--------------------------- MODULE ProcessProofs ---------------------------
(***************************************************************************)
(* Proofs about Process: whatever statement SIGINT interrupts, the linked  *)
(* list stays a list and loses nothing that main put into it, for any      *)
(* number of clients and messages.                                         *)
(***************************************************************************)
EXTENDS Process, FiniteSetTheorems, WellFoundedInduction, SequenceTheorems, TLAPS

-----------------------------------------------------------------------------
(* The clients *)

Id == 0..(WIDTH - 1)
MsgType == {"e_confirm", "e_reply", "e_msg", "e_err", "e_bye"}
States == {"none", "s_ac", "s_op", "s_er", "s_en"}

(* The descriptors that belong to a client in state st. *)
Live(st) == {f \in Fd : st[f] # "none"}

(* Every client is in the list of clients, once. *)
ClientInv(cl, st) ==
  /\ st \in [Fd -> States]
  /\ cl \in Seq(Fd) /\ IsInjective(cl)
  /\ \A f \in Fd : st[f] # "none" <=> \E i \in 1..Len(cl) : cl[i] = f

-----------------------------------------------------------------------------
(* The statements a handler has left; G is the set of the clients *)

StmtType(G) ==
  [op : {"read_cnt", "write_cnt", "add_check", "add_walk", "add_link", "close"},
   fd : G, arg : MsgType]
    \cup [op : {"set"}, fd : G, arg : States \ {"none"}]
    \cup [op : {"process_msg", "check", "execute"}, fd : G, arg : InType]
    \cup [op : {"forward"}, fd : G, arg : G]
    \cup [op : {"confirm"}, fd : G, arg : Id]
    \cup [op : {"delete", "delete_next"}, fd : G, arg : {NULL}]
    \cup [op : {"remove_read", "remove_write", "destroy_item"}, fd : {NULL}, arg : Id]

(* Some statements come in a fixed order: an opener is followed by what    *)
(* goes on with it.  A handler that has something to remove starts with    *)
(* that.                                                                   *)
Openers == {"add_check", "add_walk", "remove_read", "remove_write"}
Conts == {"add_walk", "add_link", "remove_write", "destroy_item"}

Fits(a, b) ==
  /\ a = "add_check" <=> b = "add_walk"
  /\ a = "add_walk" <=> b = "add_link"
  /\ a = "remove_read" <=> b = "remove_write"
  /\ a = "remove_write" <=> b = "destroy_item"
  /\ b # "remove_read"

Grammar(t) ==
  \A i \in 1..Len(t) :
    /\ t[i].op \in Openers => i < Len(t)
    /\ i < Len(t) => Fits(t[i].op, t[i + 1].op)

(* A handler that deletes a client does nothing else. *)
DeleteOps == {"delete", "delete_next"}
RemoveOps == {"remove_read", "remove_write", "destroy_item"}

DeletesAlone(t) ==
  \A i \in 1..Len(t) :
    t[i].op \in DeleteOps =>
      i = Len(t) /\ \A j \in 1..Len(t) : j < i => t[j].op \in RemoveOps

(* What a handler does to its client, it does to one client. *)
Acts == {"process_msg", "check", "execute", "set", "close", "confirm"}

OneClient(t) ==
  \A i \in 1..Len(t) : \A j \in 1..Len(t) :
    t[i].op \in Acts /\ t[j].op \in Acts => t[i].fd = t[j].fd

TodoInv(t, G) ==
  t \in Seq(StmtType(G)) /\ Grammar(t) /\ DeletesAlone(t) /\ OneClient(t)

Pc(t) == IF t = <<>> THEN "idle" ELSE Head(t).op

(* Statements after which a client may be open. *)
Reopens(stmt) ==
  \/ stmt.op = "set" /\ stmt.arg = "s_op"
  \/ stmt.op \in {"check", "execute"} /\ stmt.arg # "e_bye"

(* After SIGINT: if a client is open, then no other one is or will be. *)
StopInv(t, st) ==
  \A f \in Fd : st[f] = "s_op" =>
    /\ \A g \in Fd : st[g] = "s_op" => f = g
    /\ \A i \in 1..Len(t) : Reopens(t[i]) => t[i].fd = f

-----------------------------------------------------------------------------
(* The list *)

(* s is the list of h that begins at f. *)
Chain(h, f, s) ==
  /\ s \in Seq(DOMAIN h) /\ IsInjective(s)
  /\ f = IF s = <<>> THEN NULL ELSE s[1]
  /\ \A i \in 1..Len(s) : h[s[i]].next = IF i < Len(s) THEN s[i + 1] ELSE NULL

ItemType == [id : Id, sockfd : Fd, type : MsgType, by : {"main", "sigint"}, next : Nat]

HeapType(h, a) ==
  a \in Nat /\ DOMAIN h \subseteq 1..a /\ h \in [DOMAIN h -> ItemType]

RegType ==
  [cnt : Id, item : Nat, last : Nat, next : Nat, ptr : Nat]

(* Everything behind position p of the list came with SIGINT. *)
SigintBehind(h, s, p) == \A q \in (p + 1)..Len(s) : h[s[q]].by = "sigint"

(* queue_add has an item that is not in the list yet. *)
Fresh(h, s, r) ==
  /\ r.item \in DOMAIN h /\ \A i \in 1..Len(s) : s[i] # r.item
  /\ h[r.item].next = NULL /\ h[r.item].by = "main"

(* The item that queue_add found last, NULL in an empty list. *)
FoundLast(h, s, r) ==
  \E p \in 0..Len(s) :
    r.last = (IF p = 0 THEN NULL ELSE s[p]) /\ SigintBehind(h, s, p)

(* What queue_remove found: the item at position p, its neighbours then;   *)
(* delete_client is past it already.                                       *)
FoundItem(h, s, r) ==
  \E p \in 1..Len(s) :
    /\ r.item = s[p]
    /\ r.last = IF p = 1 THEN NULL ELSE s[p - 1]
    /\ \/ r.next = IF p < Len(s) THEN s[p + 1] ELSE NULL
       \/ r.next = NULL /\ SigintBehind(h, s, p) /\ r.ptr = NULL
    /\ r.ptr # NULL => \E q \in (p + 1)..Len(s) : s[q] = r.ptr

Cleared(r) == r.item = NULL /\ r.last = NULL /\ r.next = NULL

InList(s, n) == n = NULL \/ \E i \in 1..Len(s) : s[i] = n

RegInv(h, s, r, pc) ==
  /\ r \in RegType
  /\ pc \notin Conts => Cleared(r)
  /\ pc = "add_walk" => Fresh(h, s, r) /\ r.last = NULL /\ r.next = NULL /\ s # <<>>
  /\ pc = "add_link" => Fresh(h, s, r) /\ r.next = NULL /\ FoundLast(h, s, r)
  /\ pc = "remove_write" => Cleared(r) \/ FoundItem(h, s, r)
  /\ pc = "destroy_item" =>
       /\ r.item # NULL => r.item \in DOMAIN h /\ \A i \in 1..Len(s) : s[i] # r.item
       /\ InList(s, r.last) /\ InList(s, r.next)

(* Where delete_client is in the list. *)
PtrInv(h, s, r, t) ==
  r.ptr # NULL =>
    /\ InList(s, r.ptr)
    /\ \E i \in 1..Len(t) : t[i].op = "delete_next"
    /\ Pc(t) = "remove_read" =>
         \E q \in 1..(Len(s) - 1) : h[s[q]].id = Head(t).arg /\ s[q + 1] = r.ptr

(* Only messages of SIGINT are lost from the list. *)
Kept(h, s, r) ==
  \A n \in DOMAIN h :
    (\A i \in 1..Len(s) : s[i] # n) => n = r.item \/ h[n].by = "sigint"

ListInv(h, f, a, r, t, s) ==
  /\ HeapType(h, a) /\ Chain(h, f, s)
  /\ RegInv(h, s, r, Pc(t)) /\ PtrInv(h, s, r, t) /\ Kept(h, s, r)

-----------------------------------------------------------------------------
(* The messages of a client that is deleted *)

(* No two buffered messages have one id. *)
Distinct(h, s) ==
  \A i \in 1..Len(s) : \A j \in 1..Len(s) : h[s[i]].id = h[s[j]].id => i = j

(* delete_client has yet to come to item i of the list, or it is about to  *)
(* remove it.                                                              *)
Ahead(h, s, r, t, i) ==
  \/ Head(t).op = "delete"
  \/ r.ptr # NULL /\ \E q \in 1..i : s[q] = r.ptr
  \/ Head(t).op = "remove_read" /\ h[s[i]].id = Head(t).arg
  \/ Head(t).op = "remove_write" /\ s[i] = r.item

DeleteInv(h, s, r, t, st) ==
  /\ Distinct(h, s)
  /\ \A i \in 1..Len(s) : st[h[s[i]].sockfd] # "none"
  /\ Pc(t) \in {"add_walk", "add_link"} => st[h[r.item].sockfd] # "none"
  /\ \A k \in 1..Len(t) : t[k].op \in DeleteOps =>
       \A i \in 1..Len(s) : h[s[i]].sockfd = t[k].fd => Ahead(h, s, r, t, i)

-----------------------------------------------------------------------------
(* The inductive invariant *)

Stages == {"argv", "pollfd", "clients", "msg_out_buf", "server_open", "loop",
           "stop", "stop_msg_out_buf", "exited", "crashed", "killed"}

(* There is a list of clients while the process serves; without SIGINT it  *)
(* has no client outside the event loop.                                   *)
LifeInv ==
  /\ stage \in Stages
  /\ queues \in [{"clients", "msg_out_buf"} -> {"null", "created", "freed"}]
  /\ stage \in {"msg_out_buf", "server_open", "loop"} => queues.clients = "created"
  /\ stage \notin {"loop", "killed"} => todo = <<>>
  /\ stage # "loop" /\ ~stop_flag => \A f \in Fd : state[f] = "none"
  /\ stop_flag \in BOOLEAN /\ clash \in BOOLEAN

List == Items(heap, first)

ProcInv ==
  /\ LifeInv
  /\ ClientInv(clients, state) /\ msg_cnt \in Id
  /\ TodoInv(todo, Live(state))
  /\ \A k \in 1..Len(todo) : todo[k].op \in DeleteOps => state[todo[k].fd] = "s_en"
  /\ stop_flag => StopInv(todo, state)
  /\ ListInv(heap, first, allocs, reg, todo, List)
  /\ ~clash => DeleteInv(heap, List, reg, todo, state)

-----------------------------------------------------------------------------
(* Induction: the set of the numbers a fact holds for is all of Nat. *)
LEMMA LeastNat ==
  ASSUME NEW S \in SUBSET Nat, S # {}
  PROVE  Min(S) \in S /\ \A k \in S : Min(S) <= k
<1>1. PICK m \in S : \A k \in S : ~(<<k, m>> \in OpToRel(<, Nat))
  BY NatLessThanWellFounded, WFMin
<1>2. \A k \in S : ~(k < m)
  BY <1>1 DEF OpToRel
<1>3. \A k \in S : m <= k
  BY <1>2
<1> QED
  BY <1>3 DEF Min

LEMMA AllNat ==
  ASSUME NEW S, 0 \in S, \A n \in Nat : n \in S => n + 1 \in S
  PROVE  \A n \in Nat : n \in S
<1> SUFFICES ASSUME Nat \ S # {} PROVE FALSE
  OBVIOUS
<1>1. Min(Nat \ S) \in Nat \ S /\ \A k \in Nat \ S : Min(Nat \ S) <= k
  BY LeastNat
<1> DEFINE m == Min(Nat \ S)
<1> HIDE DEF m
<1>2. m \in Nat \ S /\ m # 0 /\ \A k \in Nat \ S : m <= k
  BY <1>1 DEF m
<1>3. m - 1 \in Nat /\ m - 1 \in S
  BY <1>2
<1> QED
  BY <1>2, <1>3

LEMMA IntervalSize ==
  ASSUME NEW n \in Nat
  PROVE  Cardinality(1..n) = n
<1>1. 1 \in Int /\ n \in Int
  OBVIOUS
<1>2. Cardinality(1..n) = IF 1 > n THEN 0 ELSE n - 1 + 1
  BY <1>1, FS_Interval
<1> QED
  BY <1>2

-----------------------------------------------------------------------------
(* Items finds the list *)

Walks(g, h, n, m) == g = [i \in 1..m |-> IF i = 1 THEN n ELSE Follow(h, g[i - 1])]

LEMMA WalksExists ==
  ASSUME NEW h, NEW n, NEW m \in Nat
  PROVE  \E g : Walks(g, h, n, m)
<1> DEFINE S == {k \in Nat : \E g : Walks(g, h, n, k)}
<1>1. 0 \in S
  <2>1. Walks([i \in 1..0 |-> 0], h, n, 0)
    BY DEF Walks
  <2> QED
    BY <2>1
<1>2. ASSUME NEW k \in Nat, k \in S
      PROVE  k + 1 \in S
  <2>1. PICK f : Walks(f, h, n, k)
    BY <1>2
  <2> DEFINE g == [i \in 1..(k + 1) |->
                     IF i <= k THEN f[i] ELSE IF i = 1 THEN n ELSE Follow(h, f[i - 1])]
  <2>2. \A i \in 1..k : f[i] = IF i = 1 THEN n ELSE Follow(h, f[i - 1])
    BY <2>1 DEF Walks
  <2>3. \A i \in 1..(k + 1) : i # 1 => g[i - 1] = f[i - 1]
    OBVIOUS
  <2>4. \A i \in 1..(k + 1) : g[i] = IF i = 1 THEN n ELSE Follow(h, g[i - 1])
    BY <2>2, <2>3
  <2>5. g = [i \in 1..(k + 1) |-> g[i]]
    OBVIOUS
  <2> HIDE DEF g
  <2>6. Walks(g, h, n, k + 1)
    BY <2>4, <2>5 DEF Walks
  <2> QED
    BY <2>6
<1> HIDE DEF S
<1>3. m \in S
  BY <1>1, <1>2, AllNat
<1> QED
  BY <1>3 DEF S

LEMMA ItemsIs ==
  ASSUME NEW h, NEW n, IsFiniteSet(DOMAIN h)
  PROVE  \E g : /\ Walks(g, h, n, Cardinality(DOMAIN h) + 1)
                /\ Items(h, n) = SubSeq(g, 1, Cardinality({i \in DOMAIN g : g[i] # NULL}))
<1> DEFINE m == Cardinality(DOMAIN h) + 1
<1>1. m \in Nat
  BY FS_CardinalityType
<1> DEFINE f == CHOOSE g : Walks(g, h, n, m)
<1>2. Walks(f, h, n, m)
  BY <1>1, WalksExists
<1>3. Items(h, n) = SubSeq(f, 1, Cardinality({i \in DOMAIN f : f[i] # NULL}))
  BY DEF Items, Walks
<1> QED
  BY <1>2, <1>3

(* Where there is a list, Items is that list. *)
LEMMA ItemsChain ==
  ASSUME NEW h, IsFiniteSet(DOMAIN h), NULL \notin DOMAIN h, NEW f, NEW s, Chain(h, f, s)
  PROVE  Items(h, f) = s
<1> DEFINE C == Cardinality(DOMAIN h)
<1>1. C \in Nat
  BY FS_CardinalityType
<1>2. s \in Seq(DOMAIN h) /\ Len(s) \in Nat /\ s \in [1..Len(s) -> DOMAIN h]
  BY DEF Chain
<1>3. Len(s) <= C
  <2>1. s \in Injection(1..Len(s), DOMAIN h)
    BY <1>2 DEF Chain, IsInjective, Injection
  <2>2. Cardinality(1..Len(s)) <= C
    BY <2>1, FS_Injection
  <2>3. Cardinality(1..Len(s)) = Len(s)
    BY <1>2, IntervalSize
  <2> QED
    BY <2>2, <2>3
<1> HIDE DEF C
<1>4. PICK g : /\ Walks(g, h, f, C + 1)
               /\ Items(h, f) = SubSeq(g, 1, Cardinality({i \in DOMAIN g : g[i] # NULL}))
  BY ItemsIs DEF C
<1>5. /\ DOMAIN g = 1..(C + 1)
      /\ \A i \in 1..(C + 1) : g[i] = IF i = 1 THEN f ELSE Follow(h, g[i - 1])
  BY <1>1, <1>4 DEF Walks
<1> DEFINE at(i) == IF i <= Len(s) THEN s[i] ELSE NULL
           S == {k \in Nat : k \in 1..(C + 1) => g[k] = at(k)}
<1>6. 0 \in S
  OBVIOUS
<1>7. ASSUME NEW k \in Nat, k \in S
      PROVE  k + 1 \in S
  <2> SUFFICES ASSUME k + 1 \in 1..(C + 1) PROVE g[k + 1] = at(k + 1)
    OBVIOUS
  <2>1. CASE k = 0
    <3>1. g[1] = f
      BY <1>1, <1>5
    <3>2. f = at(1)
      BY <1>2 DEF Chain
    <3> QED
      BY <2>1, <3>1, <3>2
  <2>2. CASE k # 0
    <3>1. g[k] = at(k) /\ g[k + 1] = Follow(h, g[k])
      BY <1>1, <1>5, <1>7, <2>2
    <3>2. CASE k <= Len(s)
      <4>1. s[k] \in DOMAIN h /\ h[s[k]].next = at(k + 1)
        BY <1>2, <2>2, <3>2 DEF Chain
      <4> QED
        BY <3>1, <3>2, <4>1 DEF Follow
    <3>3. CASE ~(k <= Len(s))
      BY <1>2, <3>1, <3>3 DEF Follow
    <3> QED
      BY <3>2, <3>3
  <2> QED
    BY <2>1, <2>2
<1> HIDE DEF S
<1>8. \A k \in 1..(C + 1) : g[k] = at(k)
  <2>1. \A k \in Nat : k \in S
    BY <1>6, <1>7, AllNat
  <2> QED
    BY <1>1, <2>1 DEF S
<1>9. {i \in DOMAIN g : g[i] # NULL} = 1..Len(s)
  <2>1. \A i \in 1..Len(s) : s[i] # NULL
    BY <1>2
  <2> QED
    BY <1>1, <1>2, <1>3, <1>5, <1>8, <2>1
<1>10. Cardinality(1..Len(s)) = Len(s)
  BY <1>2, IntervalSize
<1>11. Items(h, f) = SubSeq(g, 1, Len(s))
  BY <1>4, <1>9, <1>10
<1>12. \A i \in 1..Len(s) : g[i] = s[i] /\ g[i] \in DOMAIN h
  BY <1>1, <1>2, <1>3, <1>8
<1>13. /\ SubSeq(g, 1, Len(s)) \in Seq(DOMAIN h)
       /\ Len(SubSeq(g, 1, Len(s))) = Len(s)
       /\ \A i \in 1..Len(s) : SubSeq(g, 1, Len(s))[i] = s[i]
  <2>1. /\ SubSeq(g, 1, Len(s)) \in Seq(DOMAIN h)
        /\ Len(SubSeq(g, 1, Len(s))) = IF 1 <= Len(s) THEN Len(s) - 1 + 1 ELSE 0
        /\ \A i \in 1..(Len(s) - 1 + 1) : SubSeq(g, 1, Len(s))[i] = g[1 + i - 1]
    BY <1>2, <1>12, SubSeqProperties
  <2> QED
    BY <1>2, <1>12, <2>1
<1> QED
  BY <1>2, <1>11, <1>13, SeqEqual

LEMMA HeapFinite ==
  ASSUME NEW h, NEW a, HeapType(h, a)
  PROVE  IsFiniteSet(DOMAIN h) /\ NULL \notin DOMAIN h
<1>1. IsFiniteSet(1..a)
  BY FS_Interval DEF HeapType
<1> QED
  BY <1>1, FS_Subset DEF HeapType, NULL

LEMMA ListIs ==
  ASSUME NEW h, NEW f, NEW a, NEW s, HeapType(h, a), Chain(h, f, s)
  PROVE  Items(h, f) = s
BY HeapFinite, ItemsChain

-----------------------------------------------------------------------------
(* The statements a handler has left *)

(* A piece of a handler that removes nothing: what it does to its client   *)
(* is done to one of F, and it opens a client again only if b.             *)
Block(u, G, F, b) ==
  /\ u \in Seq(StmtType(G))
  /\ Grammar(u)
  /\ u # <<>> => u[1].op \notin Conts \cup {"remove_read"}
  /\ \A i \in 1..Len(u) :
       /\ u[i].op \notin DeleteOps
       /\ u[i].op \in Acts => u[i].fd \in F
       /\ Reopens(u[i]) => b

LEMMA BlockConcat ==
  ASSUME NEW G, NEW F, NEW b, NEW u, NEW v, Block(u, G, F, b), Block(v, G, F, b)
  PROVE  Block(u \o v, G, F, b)
<1> DEFINE w == u \o v
<1>1. u \in Seq(StmtType(G)) /\ v \in Seq(StmtType(G))
  BY DEF Block
<1>2. /\ w \in Seq(StmtType(G)) /\ Len(w) = Len(u) + Len(v)
      /\ Len(u) \in Nat /\ Len(v) \in Nat
      /\ \A i \in 1..Len(u) : w[i] = u[i]
      /\ \A i \in 1..Len(v) : w[i + Len(u)] = v[i]
  <2>1. u \o v \in Seq(StmtType(G)) /\ Len(u \o v) = Len(u) + Len(v)
    BY <1>1
  <2>2. \A i \in 1..Len(u) : (u \o v)[i] = u[i]
    BY <1>1
  <2>3. \A i \in 1..Len(v) : (u \o v)[i + Len(u)] = v[i]
    BY <1>1
  <2> QED
    BY <1>1, <2>1, <2>2, <2>3
<1>3. \A i \in 1..Len(w) : i \in 1..Len(u) \/ i - Len(u) \in 1..Len(v)
  BY <1>2
<1> HIDE DEF w
<1>4. \A i \in 1..Len(w) :
        \/ i \in 1..Len(u) /\ w[i] = u[i]
        \/ i - Len(u) \in 1..Len(v) /\ w[i] = v[i - Len(u)]
  BY <1>2, <1>3
<1>5. \A i \in 1..Len(w) : /\ w[i].op \notin DeleteOps
                           /\ w[i].op \in Acts => w[i].fd \in F
                           /\ Reopens(w[i]) => b
  <2> USE DEF Block
  <2> QED
    BY <1>4
<1>6. w # <<>> => w[1].op \notin Conts \cup {"remove_read"}
  <2>1. CASE u = <<>>
    <3>1. w = v
      BY <1>1, <2>1 DEF w
    <3> QED
      BY <3>1 DEF Block
  <2>2. CASE u # <<>>
    <3>1. 1 \in 1..Len(u)
      BY <1>1, <2>2
    <3> QED
      BY <1>2, <2>2, <3>1 DEF Block
  <2> QED
    BY <2>1, <2>2
<1>7. Grammar(w)
  <2> SUFFICES ASSUME NEW i \in 1..Len(w)
               PROVE  /\ w[i].op \in Openers => i < Len(w)
                      /\ i < Len(w) => Fits(w[i].op, w[i + 1].op)
    BY DEF Grammar
  <2>1. CASE i \in 1..Len(u) /\ i < Len(u)
    <3>1. w[i] = u[i] /\ w[i + 1] = u[i + 1] /\ i < Len(w) /\ Fits(u[i].op, u[i + 1].op)
      BY <1>2, <2>1 DEF Block, Grammar
    <3> QED
      BY <3>1
  <2>2. CASE i = Len(u)
    <3>1. w[i] = u[i] /\ u[i].op \notin Openers /\ i \in 1..Len(u)
      BY <1>2, <2>2 DEF Block, Grammar
    <3>2. i < Len(w) => w[i + 1] = v[1] /\ v # <<>>
      BY <1>1, <1>2, <2>2
    <3>3. i < Len(w) => v[1].op \notin Conts \cup {"remove_read"}
      BY <3>2 DEF Block
    <3> QED
      BY <3>1, <3>2, <3>3 DEF Fits, Openers, Conts
  <2>3. CASE i > Len(u)
    <3>1. i - Len(u) \in 1..Len(v) /\ w[i] = v[i - Len(u)]
      BY <1>2, <2>3
    <3>2. i < Len(w) => /\ (i - Len(u)) + 1 \in 1..Len(v)
                        /\ w[i + 1] = v[(i - Len(u)) + 1]
      <4>1. i < Len(w) => (i - Len(u)) + 1 \in 1..Len(v)
        BY <1>2, <2>3
      <4>2. (i - Len(u)) + 1 + Len(u) = i + 1
        BY <1>2
      <4> QED
        BY <1>2, <4>1, <4>2
    <3>3. /\ v[i - Len(u)].op \in Openers => i - Len(u) < Len(v)
          /\ i - Len(u) < Len(v) => Fits(v[i - Len(u)].op, v[(i - Len(u)) + 1].op)
      BY <3>1 DEF Block, Grammar
    <3> QED
      BY <1>2, <2>3, <3>1, <3>2, <3>3
  <2> QED
    BY <1>2, <2>1, <2>2, <2>3
<1> QED
  BY <1>2, <1>5, <1>6, <1>7 DEF Block, w

LEMMA EmptyBlock ==
  ASSUME NEW G, NEW F, NEW b
  PROVE  Block(<<>>, G, F, b)
BY DEF Block, Grammar

(* A single statement that needs no other one. *)
LEMMA StmtBlock ==
  ASSUME NEW G, NEW F, NEW b, NEW op, NEW f, NEW arg,
         [op |-> op, fd |-> f, arg |-> arg] \in StmtType(G),
         op \notin Conts \cup Openers \cup DeleteOps,
         op \in Acts => f \in F,
         Reopens([op |-> op, fd |-> f, arg |-> arg]) => b
  PROVE  Block(Stmt(op, f, arg), G, F, b)
<1> DEFINE x == [op |-> op, fd |-> f, arg |-> arg]
<1>1. x.op = op /\ x.fd = f
  OBVIOUS
<1> HIDE DEF x
<1>2. <<x>> \in Seq(StmtType(G)) /\ Len(<<x>>) = 1 /\ <<x>>[1] = x
  BY DEF x
<1>3. Grammar(<<x>>)
  BY <1>1, <1>2 DEF Grammar
<1>4. Block(<<x>>, G, F, b)
  BY <1>1, <1>2, <1>3 DEF Block, Conts, Openers, x
<1> QED
  BY <1>4 DEF Stmt, x

LEMMA SetBlock ==
  ASSUME NEW G, NEW F, NEW b, NEW f \in G, f \in F,
         NEW s \in States \ {"none"}, s = "s_op" => b
  PROVE  Block(set(f, s), G, F, b)
<1>1. [op |-> "set", fd |-> f, arg |-> s] \in StmtType(G)
  BY DEF StmtType
<1> QED
  BY <1>1, StmtBlock DEF set, Conts, Openers, DeleteOps, Reopens

LEMMA CloseBlock ==
  ASSUME NEW G, NEW F, NEW b, NEW f \in G, f \in F
  PROVE  Block(close_client(f), G, F, b)
<1>1. [op |-> "close", fd |-> f, arg |-> "e_bye"] \in StmtType(G)
  BY DEF StmtType, MsgType
<1> QED
  BY <1>1, StmtBlock DEF close_client, Conts, Openers, DeleteOps, Reopens

LEMMA ActBlock ==
  ASSUME NEW G, NEW F, NEW b, NEW f \in G, f \in F, NEW type \in InType,
         NEW op \in {"process_msg", "check", "execute"},
         op # "process_msg" /\ type # "e_bye" => b
  PROVE  Block(Stmt(op, f, type), G, F, b)
<1>1. [op |-> op, fd |-> f, arg |-> type] \in StmtType(G)
  BY DEF StmtType
<1> QED
  BY <1>1, StmtBlock DEF Conts, Openers, DeleteOps, Reopens

LEMMA ForwardBlock ==
  ASSUME NEW G, NEW F, NEW b, NEW f \in G, NEW g \in G
  PROVE  Block(Stmt("forward", f, g), G, F, b)
<1>1. [op |-> "forward", fd |-> f, arg |-> g] \in StmtType(G)
  BY DEF StmtType
<1> QED
  BY <1>1, StmtBlock DEF Conts, Openers, DeleteOps, Reopens, Acts

LEMMA AddedLast ==
  ASSUME NEW S, NEW u \in Seq(S), NEW x \in S
  PROVE  /\ u \o <<x>> \in Seq(S) /\ Len(u \o <<x>>) = Len(u) + 1
         /\ \A i \in 1..Len(u) : (u \o <<x>>)[i] = u[i]
         /\ (u \o <<x>>)[Len(u) + 1] = x
<1>1. <<x>> \in Seq(S) /\ Len(<<x>>) = 1 /\ <<x>>[1] = x
  OBVIOUS
<1> DEFINE v == <<x>>
<1> HIDE DEF v
<1>2. v \in Seq(S) /\ Len(v) = 1 /\ v[1] = x
  BY <1>1 DEF v
<1>3. /\ u \o v \in Seq(S) /\ Len(u \o v) = Len(u) + Len(v)
      /\ \A i \in 1..Len(u) + Len(v) :
           (u \o v)[i] = IF i <= Len(u) THEN u[i] ELSE v[i - Len(u)]
  BY <1>2, ConcatProperties
<1>4. Len(u) \in Nat /\ Len(u) + 1 \in 1..Len(u) + Len(v) /\ (Len(u) + 1) - Len(u) = 1
  BY <1>2
<1>5. (u \o v)[Len(u) + 1] = x
  BY <1>2, <1>3, <1>4
<1>6. \A i \in 1..Len(u) : (u \o v)[i] = u[i]
  BY <1>2, <1>3, <1>4
<1> QED
  BY <1>2, <1>3, <1>5, <1>6 DEF v

LEMMA SendBlock ==
  ASSUME NEW G, NEW F, NEW b, NEW f \in G, NEW type \in MsgType
  PROVE  Block(send_msg(f, type), G, F, b)
<1> DEFINE x(op) == [op |-> op, fd |-> f, arg |-> type]
           u1 == <<x("read_cnt")>>
           u2 == u1 \o <<x("write_cnt")>>
           u3 == u2 \o <<x("add_check")>>
           u4 == u3 \o <<x("add_walk")>>
           u == u4 \o <<x("add_link")>>
<1>1. \A op \in {"read_cnt", "write_cnt", "add_check", "add_walk", "add_link"} :
        /\ x(op) \in StmtType(G) /\ x(op).op = op
        /\ op \notin Acts \cup DeleteOps /\ ~Reopens(x(op))
  BY DEF StmtType, Acts, DeleteOps, Reopens
<1>2. send_msg(f, type) = u
  BY DEF send_msg, Stmt
<1> HIDE DEF x, u, u1, u2, u3, u4
<1>3. /\ u \in Seq(StmtType(G)) /\ Len(u) = 5
      /\ u[1] = x("read_cnt") /\ u[2] = x("write_cnt") /\ u[3] = x("add_check")
      /\ u[4] = x("add_walk") /\ u[5] = x("add_link")
  <2>1. u1 \in Seq(StmtType(G)) /\ Len(u1) = 1 /\ u1[1] = x("read_cnt")
    BY <1>1 DEF u1
  <2>2. /\ u2 \in Seq(StmtType(G)) /\ Len(u2) = 2
        /\ u2[1] = u1[1] /\ u2[2] = x("write_cnt")
    <3>1. x("write_cnt") \in StmtType(G)
      BY <1>1
    <3>2. /\ u2 \in Seq(StmtType(G)) /\ Len(u2) = Len(u1) + 1
          /\ \A i \in 1..Len(u1) : u2[i] = u1[i]
          /\ u2[Len(u1) + 1] = x("write_cnt")
      BY <2>1, <3>1, AddedLast DEF u2
    <3> QED
      BY <2>1, <3>2
  <2>3. /\ u3 \in Seq(StmtType(G)) /\ Len(u3) = 3
        /\ u3[1] = u2[1] /\ u3[2] = u2[2] /\ u3[3] = x("add_check")
    <3>1. x("add_check") \in StmtType(G)
      BY <1>1
    <3>2. /\ u3 \in Seq(StmtType(G)) /\ Len(u3) = Len(u2) + 1
          /\ \A i \in 1..Len(u2) : u3[i] = u2[i]
          /\ u3[Len(u2) + 1] = x("add_check")
      BY <2>2, <3>1, AddedLast DEF u3
    <3> QED
      BY <2>2, <3>2
  <2>4. /\ u4 \in Seq(StmtType(G)) /\ Len(u4) = 4
        /\ u4[1] = u3[1] /\ u4[2] = u3[2] /\ u4[3] = u3[3] /\ u4[4] = x("add_walk")
    <3>1. x("add_walk") \in StmtType(G)
      BY <1>1
    <3>2. /\ u4 \in Seq(StmtType(G)) /\ Len(u4) = Len(u3) + 1
          /\ \A i \in 1..Len(u3) : u4[i] = u3[i]
          /\ u4[Len(u3) + 1] = x("add_walk")
      BY <2>3, <3>1, AddedLast DEF u4
    <3> QED
      BY <2>3, <3>2
  <2>5. /\ u \in Seq(StmtType(G)) /\ Len(u) = 5
        /\ u[1] = u4[1] /\ u[2] = u4[2] /\ u[3] = u4[3] /\ u[4] = u4[4]
        /\ u[5] = x("add_link")
    <3>1. x("add_link") \in StmtType(G)
      BY <1>1
    <3>2. /\ u \in Seq(StmtType(G)) /\ Len(u) = Len(u4) + 1
          /\ \A i \in 1..Len(u4) : u[i] = u4[i]
          /\ u[Len(u4) + 1] = x("add_link")
      BY <2>4, <3>1, AddedLast DEF u
    <3> QED
      BY <2>4, <3>2
  <2> QED
    BY <2>1, <2>2, <2>3, <2>4, <2>5
<1>4. \A i \in 1..Len(u) : i = 1 \/ i = 2 \/ i = 3 \/ i = 4 \/ i = 5
  BY <1>3
<1>5. Grammar(u)
  BY <1>1, <1>3, <1>4 DEF Grammar, Fits, Openers
<1>6. \A i \in 1..Len(u) :
        /\ u[i].op \notin DeleteOps
        /\ u[i].op \in Acts => u[i].fd \in F
        /\ Reopens(u[i]) => b
  BY <1>1, <1>3, <1>4
<1>7. u # <<>> => u[1].op \notin Conts \cup {"remove_read"}
  BY <1>1, <1>3 DEF Conts
<1> QED
  BY <1>2, <1>3, <1>5, <1>6, <1>7 DEF Block

LEMMA ConfirmBlock ==
  ASSUME NEW G, NEW F, NEW b, NEW f \in G
  PROVE  Block(send_confirm(f), G, F, b)
<1>1. /\ [op |-> "read_cnt", fd |-> f, arg |-> "e_confirm"] \in StmtType(G)
      /\ [op |-> "write_cnt", fd |-> f, arg |-> "e_confirm"] \in StmtType(G)
  BY DEF StmtType, MsgType
<1>2. /\ Block(Stmt("read_cnt", f, "e_confirm"), G, F, b)
      /\ Block(Stmt("write_cnt", f, "e_confirm"), G, F, b)
  BY <1>1, StmtBlock DEF Conts, Openers, DeleteOps, Reopens, Acts
<1> QED
  BY <1>2, BlockConcat DEF send_confirm

(* The function FlattenSeq is defined by. *)
Flattens(f, s, n) ==
  f = [i \in 1..n |-> IF i = 1 THEN s[i] ELSE f[i - 1] \o s[i]]

LEMMA FlattensExists ==
  ASSUME NEW s, NEW n \in Nat
  PROVE  \E f : Flattens(f, s, n)
<1> DEFINE S == {k \in Nat : \E f : Flattens(f, s, k)}
<1>1. 0 \in S
  <2>1. Flattens([i \in 1..0 |-> 0], s, 0)
    BY DEF Flattens
  <2> QED
    BY <2>1
<1>2. ASSUME NEW k \in Nat, k \in S
      PROVE  k + 1 \in S
  <2>1. PICK f : Flattens(f, s, k)
    BY <1>2
  <2> DEFINE g == [i \in 1..(k + 1) |->
                     IF i <= k THEN f[i] ELSE IF i = 1 THEN s[i] ELSE f[i - 1] \o s[i]]
  <2>2. \A i \in 1..k : f[i] = IF i = 1 THEN s[i] ELSE f[i - 1] \o s[i]
    BY <2>1 DEF Flattens
  <2>3. \A i \in 1..(k + 1) : i # 1 => g[i - 1] = f[i - 1]
    OBVIOUS
  <2>4. \A i \in 1..(k + 1) : g[i] = IF i = 1 THEN s[i] ELSE g[i - 1] \o s[i]
    BY <2>2, <2>3
  <2>5. g = [i \in 1..(k + 1) |-> g[i]]
    OBVIOUS
  <2> HIDE DEF g
  <2>6. Flattens(g, s, k + 1)
    BY <2>4, <2>5 DEF Flattens
  <2> QED
    BY <2>6
<1> HIDE DEF S
<1>3. n \in S
  BY <1>1, <1>2, AllNat
<1> QED
  BY <1>3 DEF S

LEMMA FlattenSeqIs ==
  ASSUME NEW V, NEW s \in Seq(V), s # <<>>
  PROVE  \E f : Flattens(f, s, Len(s)) /\ FlattenSeq(s) = f[Len(s)]
<1>1. Len(s) \in Nat \ {0}
  OBVIOUS
<1>2. \E f : Flattens(f, s, Len(s))
  BY <1>1, FlattensExists
<1> DEFINE g == CHOOSE f : Flattens(f, s, Len(s))
<1>3. Flattens(g, s, Len(s))
  BY <1>2
<1>4. FlattenSeq(s) = g[Len(s)]
  BY <1>1 DEF FlattenSeq, Flattens
<1> QED
  BY <1>3, <1>4

LEMMA FlattenBlock ==
  ASSUME NEW G, NEW F, NEW b, NEW s \in Seq(Seq(StmtType(G))),
         \A i \in 1..Len(s) : Block(s[i], G, F, b)
  PROVE  Block(FlattenSeq(s), G, F, b)
<1>1. CASE s = <<>>
  <2>1. FlattenSeq(s) = <<>>
    BY <1>1 DEF FlattenSeq
  <2> QED
    BY <2>1, EmptyBlock
<1>2. CASE s # <<>>
  <2>1. PICK g : Flattens(g, s, Len(s)) /\ FlattenSeq(s) = g[Len(s)]
    BY <1>2, FlattenSeqIs
  <2>2. \A i \in 1..Len(s) : g[i] = IF i = 1 THEN s[i] ELSE g[i - 1] \o s[i]
    BY <2>1 DEF Flattens
  <2> DEFINE S == {k \in Nat : k \in 1..Len(s) => Block(g[k], G, F, b)}
  <2>3. 0 \in S
    OBVIOUS
  <2>4. ASSUME NEW k \in Nat, k \in S
        PROVE  k + 1 \in S
    <3> SUFFICES ASSUME k + 1 \in 1..Len(s) PROVE Block(g[k + 1], G, F, b)
      OBVIOUS
    <3>1. g[k + 1] = IF k = 0 THEN s[k + 1] ELSE g[k] \o s[k + 1]
      BY <2>2
    <3>2. k # 0 => Block(g[k], G, F, b)
      BY <2>4
    <3>3. Block(s[k + 1], G, F, b)
      OBVIOUS
    <3> QED
      BY <3>1, <3>2, <3>3, BlockConcat
  <2> HIDE DEF S
  <2>5. Len(s) \in Nat /\ Len(s) \in 1..Len(s)
    BY <1>2
  <2>6. Len(s) \in S
    BY <2>3, <2>4, <2>5, AllNat
  <2> QED
    BY <2>1, <2>5, <2>6 DEF S
<1> QED
  BY <1>1, <1>2

LEMMA ChannelBlock ==
  ASSUME NEW G, NEW F, NEW b, NEW f \in G, clients \in Seq(G)
  PROVE  Block(forward_msg_channel(f), G, F, b)
<1> DEFINE s == [i \in 1..Len(clients) |->
                   IF clients[i] = f THEN <<>> ELSE Stmt("forward", clients[i], f)]
<1>1. \A i \in 1..Len(clients) : clients[i] \in G
  OBVIOUS
<1>2. \A i \in 1..Len(clients) : Block(s[i], G, F, b)
  BY <1>1, EmptyBlock, ForwardBlock
<1>3. Len(clients) \in Nat /\ \A i \in 1..Len(clients) : s[i] \in Seq(StmtType(G))
  BY <1>2 DEF Block
<1>4. s \in Seq(Seq(StmtType(G))) /\ Len(s) = Len(clients)
  BY <1>3
<1>5. forward_msg_channel(f) = FlattenSeq(s)
  BY DEF forward_msg_channel
<1> HIDE DEF s
<1> QED
  BY <1>2, <1>4, <1>5, FlattenBlock

(* The rest of a handler is one, and goes on with what was opened. *)
LEMMA Rest ==
  ASSUME NEW G, NEW t, TodoInv(t, G), t # <<>>
  PROVE  /\ TodoInv(Tail(t), G)
         /\ \A st : StopInv(t, st) => StopInv(Tail(t), st)
         /\ Head(t).op = "add_check" => Pc(Tail(t)) = "add_walk"
         /\ Head(t).op = "add_walk" => Pc(Tail(t)) = "add_link"
         /\ Head(t).op = "remove_read" => Pc(Tail(t)) = "remove_write"
         /\ Head(t).op = "remove_write" => Pc(Tail(t)) = "destroy_item"
         /\ Head(t).op \notin Openers => Pc(Tail(t)) \notin Conts
         /\ Pc(Tail(t)) # "remove_read"
         /\ Len(t) \in Nat /\ Len(t) >= 1 /\ Len(Tail(t)) = Len(t) - 1
         /\ t[1] = Head(t) /\ \A i \in 1..Len(Tail(t)) : Tail(t)[i] = t[i + 1]
<1> DEFINE v == Tail(t)
<1>1. /\ t \in Seq(StmtType(G)) /\ Len(t) \in Nat /\ Len(t) >= 1 /\ t[1] = Head(t)
  BY DEF TodoInv
<1>2. /\ v \in Seq(StmtType(G)) /\ Len(v) = Len(t) - 1
      /\ \A i \in 1..Len(v) : v[i] = t[i + 1]
  BY <1>1
<1> HIDE DEF v
<1>3. \A i \in 1..Len(v) : i + 1 \in 1..Len(t)
  BY <1>1, <1>2
<1>4. Grammar(v)
  <2> SUFFICES ASSUME NEW i \in 1..Len(v)
               PROVE  /\ v[i].op \in Openers => i < Len(v)
                      /\ i < Len(v) => Fits(v[i].op, v[i + 1].op)
    BY DEF Grammar
  <2>1. /\ t[i + 1].op \in Openers => i + 1 < Len(t)
        /\ i + 1 < Len(t) => Fits(t[i + 1].op, t[(i + 1) + 1].op)
    BY <1>3 DEF TodoInv, Grammar
  <2>2. i < Len(v) => i + 1 \in 1..Len(v) /\ v[i + 1] = t[(i + 1) + 1]
    BY <1>1, <1>2
  <2> QED
    BY <1>1, <1>2, <2>1, <2>2
<1>5. DeletesAlone(v)
  <2> SUFFICES ASSUME NEW i \in 1..Len(v), v[i].op \in DeleteOps
               PROVE  i = Len(v) /\ \A j \in 1..Len(v) : j < i => v[j].op \in RemoveOps
    BY DEF DeletesAlone
  <2>1. /\ i + 1 = Len(t)
        /\ \A j \in 1..Len(t) : j < i + 1 => t[j].op \in RemoveOps
    BY <1>2, <1>3 DEF TodoInv, DeletesAlone
  <2>2. \A j \in 1..Len(v) : j < i => j + 1 \in 1..Len(t) /\ j + 1 < i + 1 /\ v[j] = t[j + 1]
    BY <1>1, <1>2, <1>3
  <2> QED
    BY <1>1, <1>2, <2>1, <2>2
<1>6. OneClient(v)
  BY <1>2, <1>3 DEF TodoInv, OneClient
<1>7. TodoInv(v, G)
  BY <1>2, <1>4, <1>5, <1>6 DEF TodoInv
<1>8. \A st : StopInv(t, st) => StopInv(v, st)
  BY <1>2, <1>3 DEF StopInv
<1>9. CASE v = <<>>
  <2>1. Len(v) = 0 /\ Len(t) = 1 /\ Head(t).op \notin Openers
    <3>1. Len(v) = 0 /\ Len(t) = 1
      BY <1>1, <1>2, <1>9
    <3>2. t[1].op \in Openers => 1 < Len(t)
      BY <3>1 DEF TodoInv, Grammar
    <3> QED
      BY <1>1, <3>1, <3>2
  <2> QED
    BY <1>1, <1>2, <1>7, <1>8, <1>9, <2>1 DEF Pc, v, Openers, Conts
<1>10. CASE v # <<>>
  <2>1. 1 \in 1..Len(v) /\ Head(v) = v[1] /\ v[1] = t[1 + 1] /\ 1 \in 1..Len(t) /\ 1 < Len(t)
    BY <1>1, <1>2, <1>10
  <2>2. Fits(t[1].op, t[1 + 1].op)
    BY <2>1 DEF TodoInv, Grammar
  <2>3. Pc(v) = v[1].op
    BY <1>10, <2>1 DEF Pc
  <2>4. Fits(Head(t).op, Pc(v))
    BY <1>1, <2>1, <2>2, <2>3
  <2>5. /\ Head(t).op = "add_check" => Pc(v) = "add_walk"
        /\ Head(t).op = "add_walk" => Pc(v) = "add_link"
        /\ Head(t).op = "remove_read" => Pc(v) = "remove_write"
        /\ Head(t).op = "remove_write" => Pc(v) = "destroy_item"
        /\ Head(t).op \notin Openers => Pc(v) \notin Conts
        /\ Pc(v) # "remove_read"
    BY <2>4 DEF Fits, Openers, Conts
  <2> QED
    BY <1>1, <1>2, <1>7, <1>8, <2>5 DEF v
<1> QED
  BY <1>9, <1>10

(* The clients a handler acts on, at most one, and whether it reopens it. *)
Actors(t) == {t[i].fd : i \in {j \in 1..Len(t) : t[j].op \in Acts}}
MayReopen(t) == \E i \in 1..Len(t) : Reopens(t[i])

(* A handler that goes on with a block of statements. *)
LEMMA BlockIsTodo ==
  ASSUME NEW G, NEW F, NEW b, NEW u, Block(u, G, F, b), \A x \in F : \A y \in F : x = y
  PROVE  /\ TodoInv(u, G)
         /\ Pc(u) \notin Conts \cup {"remove_read"}
         /\ \A i \in 1..Len(u) : u[i].op \notin DeleteOps
<1>1. DeletesAlone(u)
  BY DEF Block, DeletesAlone
<1>2. OneClient(u)
  BY DEF Block, OneClient
<1>3. Pc(u) \notin Conts \cup {"remove_read"}
  BY DEF Block, Pc, Conts
<1> QED
  BY <1>1, <1>2, <1>3 DEF Block, TodoInv

LEMMA RestBlock ==
  ASSUME NEW G, NEW t, TodoInv(t, G), t # <<>>,
         Head(t).op \notin Openers \cup DeleteOps \cup RemoveOps
  PROVE  Block(Tail(t), G, Actors(t), MayReopen(t))
<1> DEFINE v == Tail(t)
<1>1. /\ TodoInv(v, G) /\ Pc(v) \notin Conts \cup {"remove_read"}
      /\ Len(t) \in Nat /\ Len(t) >= 1 /\ Len(v) = Len(t) - 1
      /\ t[1] = Head(t) /\ \A i \in 1..Len(v) : v[i] = t[i + 1]
  BY Rest
<1> HIDE DEF v
<1>2. v \in Seq(StmtType(G)) /\ Grammar(v)
  BY <1>1 DEF TodoInv
<1>3. v # <<>> => v[1].op \notin Conts \cup {"remove_read"}
  BY <1>1, <1>2 DEF Pc
<1>4. \A i \in 1..Len(v) : i + 1 \in 1..Len(t) /\ i + 1 # 1 /\ 1 \in 1..Len(t) /\ 1 < i + 1
  BY <1>1
<1>5. \A i \in 1..Len(v) : v[i].op \notin DeleteOps
  BY <1>1, <1>4 DEF TodoInv, DeletesAlone
<1>6. \A i \in 1..Len(v) : v[i].op \in Acts => v[i].fd \in Actors(t)
  BY <1>1, <1>4 DEF Actors
<1>7. \A i \in 1..Len(v) : Reopens(v[i]) => MayReopen(t)
  BY <1>1, <1>4 DEF MayReopen
<1> QED
  BY <1>2, <1>3, <1>5, <1>6, <1>7 DEF Block, v

LEMMA OneActor ==
  ASSUME NEW G, NEW t, TodoInv(t, G)
  PROVE  \A x \in Actors(t) : \A y \in Actors(t) : x = y
BY DEF TodoInv, OneClient, Actors

LEMMA BlockStop ==
  ASSUME NEW G, NEW t, TodoInv(t, G), NEW st, StopInv(t, st),
         NEW u, Block(u, G, Actors(t), MayReopen(t))
  PROVE  StopInv(u, st)
<1> SUFFICES ASSUME NEW f \in Fd, st[f] = "s_op", NEW i \in 1..Len(u), Reopens(u[i])
             PROVE  u[i].fd = f
  BY DEF StopInv
<1>1. MayReopen(t) /\ u[i].fd \in Actors(t)
  BY DEF Block, Reopens, Acts
<1>2. PICK j \in 1..Len(t) : Reopens(t[j])
  BY <1>1 DEF MayReopen
<1>3. t[j].fd = f /\ t[j].fd \in Actors(t)
  BY <1>2 DEF StopInv, Reopens, Acts, Actors
<1> QED
  BY <1>1, <1>3, OneActor

LEMMA Pushed ==
  ASSUME NEW G, NEW t, TodoInv(t, G), t # <<>>,
         Head(t).op \notin Openers \cup DeleteOps \cup RemoveOps,
         NEW b, MayReopen(t) => b, NEW u, Block(u, G, Actors(t), b)
  PROVE  /\ TodoInv(u \o Tail(t), G)
         /\ Pc(u \o Tail(t)) \notin Conts \cup {"remove_read"}
         /\ \A i \in 1..Len(u \o Tail(t)) : (u \o Tail(t))[i].op \notin DeleteOps
         /\ (b => MayReopen(t)) => \A st : StopInv(t, st) => StopInv(u \o Tail(t), st)
<1>1. Block(u \o Tail(t), G, Actors(t), b)
  <2>1. Block(Tail(t), G, Actors(t), MayReopen(t))
    BY RestBlock
  <2>2. Block(Tail(t), G, Actors(t), b)
    BY <2>1 DEF Block
  <2> QED
    BY <2>2, BlockConcat
<1> DEFINE w == u \o Tail(t)
<1> HIDE DEF w
<1>2. Block(w, G, Actors(t), b)
  BY <1>1 DEF w
<1>3. /\ TodoInv(w, G) /\ Pc(w) \notin Conts \cup {"remove_read"}
      /\ \A i \in 1..Len(w) : w[i].op \notin DeleteOps
  BY <1>2, OneActor, BlockIsTodo
<1>4. ASSUME b => MayReopen(t)
      PROVE  \A st : StopInv(t, st) => StopInv(w, st)
  <2>1. Block(w, G, Actors(t), MayReopen(t))
    BY <1>2, <1>4 DEF Block
  <2> QED
    BY <2>1, BlockStop
<1> QED
  BY <1>3, <1>4 DEF w

(* A handler without anything to do yet that is given a block. *)
LEMMA Started ==
  ASSUME NEW G, NEW f \in G, NEW u, Block(u, G, {f}, FALSE)
  PROVE  /\ TodoInv(u, G)
         /\ Pc(u) \notin Conts \cup {"remove_read"}
         /\ \A i \in 1..Len(u) : u[i].op \notin DeleteOps
         /\ \A st : StopInv(<<>>, st) => StopInv(u, st)
<1>1. \A i \in 1..Len(u) : ~Reopens(u[i])
  BY DEF Block
<1>2. \A st : StopInv(<<>>, st) => StopInv(u, st)
  BY <1>1 DEF StopInv
<1> QED
  BY <1>2, BlockIsTodo

(* queue_remove in front of what is left of a handler. *)
LEMMA RemovePushed ==
  ASSUME NEW G, NEW w, TodoInv(w, G), Pc(w) \notin Conts \cup {"remove_read"},
         NEW id \in Id
  PROVE  /\ TodoInv(queue_remove(id) \o w, G)
         /\ Pc(queue_remove(id) \o w) = "remove_read" /\ Head(queue_remove(id) \o w).arg = id
         /\ \A st : StopInv(w, st) => StopInv(queue_remove(id) \o w, st)
         /\ Len(queue_remove(id) \o w) = Len(w) + 3
         /\ \A i \in 1..Len(w) : (queue_remove(id) \o w)[i + 3] = w[i]
         /\ \A i \in 1..3 : (queue_remove(id) \o w)[i].op \in RemoveOps
<1> DEFINE x(op) == [op |-> op, fd |-> NULL, arg |-> id]
           u1 == <<x("remove_read")>>
           u2 == u1 \o <<x("remove_write")>>
           u == u2 \o <<x("destroy_item")>>
           z == u \o w
<1>1. \A op \in RemoveOps :
        /\ x(op) \in StmtType(G) /\ x(op).op = op /\ x(op).arg = id
        /\ op \notin Acts \cup DeleteOps /\ ~Reopens(x(op))
  BY DEF StmtType, Acts, DeleteOps, Reopens, RemoveOps
<1>2. queue_remove(id) = u
  BY DEF queue_remove, Stmt
<1> HIDE DEF x, u, u1, u2, z
<1>3. /\ u \in Seq(StmtType(G)) /\ Len(u) = 3
      /\ u[1] = x("remove_read") /\ u[2] = x("remove_write") /\ u[3] = x("destroy_item")
  <2>1. u1 \in Seq(StmtType(G)) /\ Len(u1) = 1 /\ u1[1] = x("remove_read")
    BY <1>1 DEF u1, RemoveOps
  <2>2. /\ u2 \in Seq(StmtType(G)) /\ Len(u2) = 2
        /\ u2[1] = u1[1] /\ u2[2] = x("remove_write")
    <3>1. x("remove_write") \in StmtType(G)
      BY <1>1 DEF RemoveOps
    <3>2. /\ u2 \in Seq(StmtType(G)) /\ Len(u2) = Len(u1) + 1
          /\ \A i \in 1..Len(u1) : u2[i] = u1[i]
          /\ u2[Len(u1) + 1] = x("remove_write")
      <4>1. u1 \in Seq(StmtType(G))
        BY <2>1
      <4> QED
        BY <3>1, <4>1, AddedLast DEF u2
    <3> QED
      BY <2>1, <3>2
  <2>3. /\ u \in Seq(StmtType(G)) /\ Len(u) = 3
        /\ u[1] = u2[1] /\ u[2] = u2[2] /\ u[3] = x("destroy_item")
    <3>1. x("destroy_item") \in StmtType(G)
      BY <1>1 DEF RemoveOps
    <3>2. /\ u \in Seq(StmtType(G)) /\ Len(u) = Len(u2) + 1
          /\ \A i \in 1..Len(u2) : u[i] = u2[i]
          /\ u[Len(u2) + 1] = x("destroy_item")
      <4>1. u2 \in Seq(StmtType(G))
        BY <2>2
      <4> QED
        BY <3>1, <4>1, AddedLast DEF u
    <3> QED
      BY <2>2, <3>2
  <2> QED
    BY <2>1, <2>2, <2>3
<1>4. w \in Seq(StmtType(G)) /\ Len(w) \in Nat
  BY DEF TodoInv
<1>5. /\ z \in Seq(StmtType(G)) /\ Len(z) = Len(w) + 3
      /\ z[1] = u[1] /\ z[2] = u[2] /\ z[3] = u[3]
      /\ \A i \in 1..Len(w) : z[i + 3] = w[i]
      /\ z # <<>> /\ Head(z) = z[1]
  <2>1. /\ z \in Seq(StmtType(G)) /\ Len(z) = Len(u) + Len(w)
        /\ \A i \in 1..Len(u) + Len(w) :
             z[i] = IF i <= Len(u) THEN u[i] ELSE w[i - Len(u)]
    BY <1>3, <1>4, ConcatProperties DEF z
  <2>2. Len(z) = Len(w) + 3 /\ Len(z) >= 3
    BY <1>3, <1>4, <2>1
  <2>3. z[1] = u[1] /\ z[2] = u[2] /\ z[3] = u[3]
    BY <1>3, <1>4, <2>1
  <2>4. \A i \in 1..Len(w) : i + 3 \in 1..Len(u) + Len(w) /\ ~(i + 3 <= 3) /\ (i + 3) - 3 = i
    BY <1>3, <1>4
  <2>5. \A i \in 1..Len(w) : z[i + 3] = w[i]
    BY <1>3, <2>1, <2>4
  <2>6. z # <<>> /\ Head(z) = z[1]
    BY <2>1, <2>2
  <2> QED
    BY <2>1, <2>2, <2>3, <2>5, <2>6
<1>6. \A i \in 1..Len(z) : i = 1 \/ i = 2 \/ i = 3 \/ (i - 3 \in 1..Len(w) /\ z[i] = w[i - 3])
  <2>1. \A i \in 1..Len(z) : i = 1 \/ i = 2 \/ i = 3 \/ (i - 3 \in 1..Len(w) /\ (i - 3) + 3 = i)
    BY <1>4, <1>5
  <2> QED
    BY <1>5, <2>1
<1>7. /\ z[1].op = "remove_read" /\ z[2].op = "remove_write" /\ z[3].op = "destroy_item"
      /\ z[1].arg = id
      /\ \A i \in 1..3 : ~Reopens(z[i]) /\ z[i].op \in RemoveOps
                         /\ z[i].op \notin Acts \cup DeleteOps
  <2>1. \A i \in 1..3 : i = 1 \/ i = 2 \/ i = 3
    OBVIOUS
  <2>2. /\ "remove_read" \in RemoveOps /\ "remove_write" \in RemoveOps
        /\ "destroy_item" \in RemoveOps
    BY DEF RemoveOps
  <2> QED
    BY <1>1, <1>3, <1>5, <2>1, <2>2
<1>8. Grammar(z)
  <2> SUFFICES ASSUME NEW i \in 1..Len(z)
               PROVE  /\ z[i].op \in Openers => i < Len(z)
                      /\ i < Len(z) => Fits(z[i].op, z[i + 1].op)
    BY DEF Grammar
  <2>1. CASE i = 1
    BY <1>4, <1>5, <1>7, <2>1 DEF Fits
  <2>2. CASE i = 2
    BY <1>4, <1>5, <1>7, <2>2 DEF Fits
  <2>3. CASE i = 3
    <3>1. i < Len(z) => 1 \in 1..Len(w) /\ z[1 + 3] = w[1] /\ w # <<>> /\ Head(w) = w[1]
      BY <1>4, <1>5, <2>3
    <3>2. i < Len(z) => z[i + 1].op \notin Conts \cup {"remove_read"}
      BY <2>3, <3>1 DEF Pc
    <3> QED
      BY <1>7, <2>3, <3>2 DEF Fits, Conts, Openers
  <2>4. CASE i - 3 \in 1..Len(w) /\ z[i] = w[i - 3]
    <3>1. /\ w[i - 3].op \in Openers => i - 3 < Len(w)
          /\ i - 3 < Len(w) => Fits(w[i - 3].op, w[(i - 3) + 1].op)
      BY <2>4 DEF TodoInv, Grammar
    <3>2. i < Len(z) => (i - 3) + 1 \in 1..Len(w) /\ ((i - 3) + 1) + 3 = i + 1 /\ i - 3 < Len(w)
      BY <1>4, <1>5, <2>4
    <3>3. i < Len(z) => z[i + 1] = w[(i - 3) + 1]
      BY <1>5, <3>2
    <3>4. i - 3 < Len(w) => i < Len(z)
      BY <1>4, <1>5
    <3> QED
      BY <2>4, <3>1, <3>2, <3>3, <3>4
  <2> QED
    BY <1>6, <2>1, <2>2, <2>3, <2>4
<1>9. DeletesAlone(z)
  <2> SUFFICES ASSUME NEW i \in 1..Len(z), z[i].op \in DeleteOps
               PROVE  i = Len(z) /\ \A j \in 1..Len(z) : j < i => z[j].op \in RemoveOps
    BY DEF DeletesAlone
  <2>1. i - 3 \in 1..Len(w) /\ z[i] = w[i - 3]
    BY <1>6, <1>7
  <2>2. i - 3 = Len(w) /\ \A j \in 1..Len(w) : j < i - 3 => w[j].op \in RemoveOps
    BY <2>1 DEF TodoInv, DeletesAlone
  <2>3. i = Len(z)
    BY <1>4, <1>5, <2>2
  <2>4. ASSUME NEW j \in 1..Len(z), j < i
        PROVE  z[j].op \in RemoveOps
    <3>1. j - 3 \in 1..Len(w) => j - 3 < i - 3
      BY <1>4, <2>4
    <3> QED
      BY <1>6, <1>7, <2>2, <3>1
  <2> QED
    BY <2>3, <2>4
<1>10. \A i \in 1..Len(z) : z[i].op \in Acts \/ Reopens(z[i]) =>
         i - 3 \in 1..Len(w) /\ z[i] = w[i - 3]
  BY <1>6, <1>7
<1>11. OneClient(z)
  <2> SUFFICES ASSUME NEW i \in 1..Len(z), NEW j \in 1..Len(z),
                      z[i].op \in Acts, z[j].op \in Acts
               PROVE  z[i].fd = z[j].fd
    BY DEF OneClient
  <2>1. /\ i - 3 \in 1..Len(w) /\ z[i] = w[i - 3]
        /\ j - 3 \in 1..Len(w) /\ z[j] = w[j - 3]
    BY <1>10
  <2> QED
    BY <2>1 DEF TodoInv, OneClient
<1>12. \A st : StopInv(w, st) => StopInv(z, st)
  <2> SUFFICES ASSUME NEW st, StopInv(w, st), NEW f \in Fd, st[f] = "s_op",
                      NEW i \in 1..Len(z), Reopens(z[i])
               PROVE  z[i].fd = f
    BY DEF StopInv
  <2>1. i - 3 \in 1..Len(w) /\ z[i] = w[i - 3]
    BY <1>10
  <2> QED
    BY <2>1 DEF StopInv
<1>13. TodoInv(z, G)
  BY <1>5, <1>8, <1>9, <1>11 DEF TodoInv
<1>14. Pc(z) = "remove_read" /\ Head(z).arg = id
  BY <1>5, <1>7 DEF Pc
<1> QED
  BY <1>2, <1>5, <1>7, <1>12, <1>13, <1>14 DEF z

-----------------------------------------------------------------------------
(* What the statements of queue.c do to a list *)

(* What a statement leaves alone of an item when it writes its next. *)
SameItem(x, y) ==
  x.id = y.id /\ x.sockfd = y.sockfd /\ x.type = y.type /\ x.by = y.by

(* h2 is h with a new item that is not in the list. *)
Grown(h, a, f, s, item, h2) ==
  /\ HeapType(h2, a + 1) /\ Chain(h2, f, s)
  /\ a + 1 \notin DOMAIN h /\ DOMAIN h2 = DOMAIN h \cup {a + 1}
  /\ \A m \in DOMAIN h : h2[m] = h[m]
  /\ h2[a + 1] = item
  /\ \A i \in 1..Len(s) : s[i] # a + 1

LEMMA AllocKeeps ==
  ASSUME NEW h, NEW a, NEW f, NEW s, HeapType(h, a), Chain(h, f, s), NEW item \in ItemType
  PROVE  Grown(h, a, f, s, item, Allocated(h, a + 1, item))
<1> DEFINE h2 == Allocated(h, a + 1, item)
<1>1. a + 1 \notin DOMAIN h /\ a \in Nat
  BY DEF HeapType
<1>2. /\ DOMAIN h2 = DOMAIN h \cup {a + 1} /\ h2[a + 1] = item
      /\ \A m \in DOMAIN h : h2[m] = h[m]
  BY <1>1 DEF Allocated
<1>3. HeapType(h2, a + 1)
  <2>1. \A m \in DOMAIN h2 : m \in 1..(a + 1)
    BY <1>1, <1>2 DEF HeapType
  <2>2. h2 = [m \in DOMAIN h2 |-> h2[m]]
    BY DEF Allocated
  <2>3. \A m \in DOMAIN h2 : h2[m] \in ItemType
    BY <1>2 DEF HeapType
  <2> HIDE DEF h2
  <2>4. h2 \in [DOMAIN h2 -> ItemType]
    BY <2>2, <2>3
  <2> QED
    BY <1>1, <2>1, <2>4 DEF HeapType
<1> HIDE DEF h2
<1>4. s \in Seq(DOMAIN h) /\ \A i \in 1..Len(s) : s[i] \in DOMAIN h
  BY DEF Chain
<1>5. Chain(h2, f, s)
  <2>1. s \in Seq(DOMAIN h2)
    BY <1>2, <1>4, SeqMonotonic
  <2>2. \A i \in 1..Len(s) : h2[s[i]].next = IF i < Len(s) THEN s[i + 1] ELSE NULL
    BY <1>2, <1>4 DEF Chain
  <2> QED
    BY <2>1, <2>2 DEF Chain
<1>6. \A i \in 1..Len(s) : s[i] # a + 1
  BY <1>1, <1>4
<1> QED
  BY <1>1, <1>2, <1>3, <1>5, <1>6 DEF Grown, h2

LEMMA FreeKeeps ==
  ASSUME NEW h, NEW a, NEW f, NEW s, HeapType(h, a), Chain(h, f, s),
         NEW S, \A i \in 1..Len(s) : s[i] \notin S
  PROVE  LET h2 == [m \in DOMAIN h \ S |-> h[m]]
         IN  HeapType(h2, a) /\ Chain(h2, f, s)
<1> DEFINE h2 == [m \in DOMAIN h \ S |-> h[m]]
<1>1. DOMAIN h2 = DOMAIN h \ S /\ \A m \in DOMAIN h2 : h2[m] = h[m]
  OBVIOUS
<1>2. HeapType(h2, a)
  BY DEF HeapType
<1> HIDE DEF h2
<1>3. s \in Seq(DOMAIN h) /\ Len(s) \in Nat /\ \A i \in 1..Len(s) : s[i] \in DOMAIN h2
  BY <1>1 DEF Chain
<1>4. s \in Seq(DOMAIN h2)
  BY <1>3
<1>5. Chain(h2, f, s)
  BY <1>1, <1>3, <1>4 DEF Chain
<1> QED
  BY <1>2, <1>5 DEF h2

(* h2 is h with n written into the next of item m. *)
Relinked(h, a, m, n, h2) ==
  /\ HeapType(h2, a) /\ DOMAIN h2 = DOMAIN h
  /\ h2[m].next = n /\ \A k \in DOMAIN h : k # m => h2[k] = h[k]
  /\ \A k \in DOMAIN h : SameItem(h2[k], h[k])

LEMMA LinkedIs ==
  ASSUME NEW h, NEW a, HeapType(h, a), NEW m \in DOMAIN h, NEW n \in Nat
  PROVE  Relinked(h, a, m, n, Linked(h, m, n))
<1> DEFINE h2 == Linked(h, m, n)
<1>1. h[m] \in ItemType /\ \A k \in DOMAIN h : h[k] \in ItemType
  BY DEF HeapType
<1>2. h2 = [h EXCEPT ![m] = [h[m] EXCEPT !.next = n]]
  BY DEF Linked
<1> HIDE DEF h2
<1>3. DOMAIN h2 = DOMAIN h /\ h2[m] = [h[m] EXCEPT !.next = n]
      /\ \A k \in DOMAIN h : k # m => h2[k] = h[k]
  BY <1>2
<1>4. /\ [h[m] EXCEPT !.next = n] \in ItemType /\ [h[m] EXCEPT !.next = n].next = n
      /\ SameItem([h[m] EXCEPT !.next = n], h[m])
  BY <1>1 DEF ItemType, SameItem
<1>5. \A k \in DOMAIN h : h2[k] \in ItemType /\ SameItem(h2[k], h[k])
  BY <1>1, <1>3, <1>4 DEF SameItem
<1>6. h2 = [k \in DOMAIN h2 |-> h2[k]]
  BY <1>2
<1>7. HeapType(h2, a)
  BY <1>3, <1>5, <1>6 DEF HeapType
<1> QED
  BY <1>3, <1>4, <1>5, <1>7 DEF Relinked, h2

(* The list with n linked behind position p, and what followed lost. *)
LinkedAt(s, p, n) == [i \in 1..(p + 1) |-> IF i <= p THEN s[i] ELSE n]

Longer(h, a, s, p, n, h2, f2, s2) ==
  /\ HeapType(h2, a) /\ Chain(h2, f2, s2)
  /\ DOMAIN h2 = DOMAIN h
  /\ \A k \in DOMAIN h : SameItem(h2[k], h[k])
  /\ \A k \in DOMAIN h : (\A i \in 1..Len(s) : s[i] # k) => h2[k] = h[k]
  /\ Len(s2) = p + 1 /\ s2[p + 1] = n
  /\ \A i \in 1..p : s2[i] = s[i]

LEMMA LinkKeeps ==
  ASSUME NEW h, NEW a, NEW f, NEW s, HeapType(h, a), Chain(h, f, s),
         NEW p \in 0..Len(s), NEW n \in DOMAIN h,
         \A i \in 1..Len(s) : s[i] # n, h[n].next = NULL,
         NEW last, last = IF p = 0 THEN NULL ELSE s[p],
         NEW h2, h2 = IF last = NULL THEN h ELSE Linked(h, last, n),
         NEW f2, f2 = IF last = NULL THEN n ELSE f
  PROVE  Longer(h, a, s, p, n, h2, f2, LinkedAt(s, p, n))
<1> DEFINE s2 == LinkedAt(s, p, n)
<1>1. /\ s \in Seq(DOMAIN h) /\ Len(s) \in Nat /\ p \in Nat /\ p <= Len(s)
      /\ \A i \in 1..Len(s) : s[i] \in DOMAIN h
      /\ DOMAIN s = 1..Len(s)
  BY DEF Chain
<1>2. n \in Nat /\ n # NULL /\ \A i \in 1..Len(s) : s[i] # NULL
  BY <1>1 DEF HeapType, NULL
<1>3. last = NULL <=> p = 0
  BY <1>1, <1>2
<1>4. p # 0 => p \in 1..Len(s) /\ last = s[p] /\ last \in DOMAIN h
  BY <1>1
<1>5. /\ HeapType(h2, a) /\ DOMAIN h2 = DOMAIN h
      /\ \A k \in DOMAIN h : SameItem(h2[k], h[k])
      /\ \A k \in DOMAIN h : k # last => h2[k] = h[k]
      /\ p # 0 => h2[last].next = n
  <2>1. CASE p = 0
    BY <1>3, <2>1 DEF SameItem
  <2>2. CASE p # 0
    <3>1. last \in DOMAIN h /\ last # NULL /\ h2 = Linked(h, last, n)
      BY <1>3, <1>4, <2>2
    <3>2. Relinked(h, a, last, n, h2)
      BY <1>2, <3>1, LinkedIs
    <3> QED
      BY <3>2 DEF Relinked
  <2> QED
    BY <2>1, <2>2
<1>6. /\ s2 \in Seq(DOMAIN h) /\ Len(s2) = p + 1 /\ s2[p + 1] = n
      /\ \A i \in 1..p : s2[i] = s[i] /\ i \in 1..Len(s)
  BY <1>1 DEF LinkedAt
<1> HIDE DEF s2
<1>7. \A i \in 1..Len(s2) : i \in 1..p \/ i = p + 1
  BY <1>1, <1>6
<1>8. IsInjective(s2)
  <2>1. DOMAIN s2 = 1..Len(s2)
    BY <1>6
  <2>2. \A i \in 1..Len(s) : \A j \in 1..Len(s) : s[i] = s[j] => i = j
    BY <1>1 DEF Chain, IsInjective
  <2>3. \A i \in 1..Len(s2) : \A j \in 1..Len(s2) : s2[i] = s2[j] => i = j
    BY <1>6, <1>7, <2>2
  <2> QED
    BY <2>1, <2>3 DEF IsInjective
<1>9. f2 = IF s2 = <<>> THEN NULL ELSE s2[1]
  <2>1. s2 # <<>>
    BY <1>1, <1>6
  <2>2. CASE p = 0
    BY <1>3, <1>6, <2>1, <2>2
  <2>3. CASE p # 0
    <3>1. f = s[1] /\ s2[1] = s[1]
      BY <1>1, <1>6, <2>3 DEF Chain
    <3> QED
      BY <1>3, <2>1, <2>3, <3>1
  <2> QED
    BY <2>2, <2>3
<1>10. ASSUME NEW i \in 1..Len(s2)
       PROVE  h2[s2[i]].next = IF i < Len(s2) THEN s2[i + 1] ELSE NULL
  <2>1. CASE i = p + 1
    <3>1. n # last
      BY <1>2, <1>3, <1>4
    <3> QED
      BY <1>1, <1>5, <1>6, <2>1, <3>1
  <2>2. CASE i = p /\ p # 0
    <3>1. s2[i] = last /\ i \in 1..p
      BY <1>1, <1>4, <1>6, <2>2
    <3> QED
      BY <1>1, <1>5, <1>6, <2>2, <3>1
  <2>3. CASE i \in 1..p /\ i # p
    <3>1. i \in 1..Len(s) /\ i < Len(s) /\ i + 1 \in 1..p /\ i < Len(s2) /\ p # 0
      BY <1>1, <1>6, <2>3
    <3>2. s2[i] = s[i] /\ s2[i + 1] = s[i + 1] /\ h[s[i]].next = s[i + 1] /\ s[i] \in DOMAIN h
      BY <1>1, <1>6, <2>3, <3>1 DEF Chain
    <3>3. s[i] # last
      BY <1>1, <1>4, <2>3, <3>1 DEF Chain, IsInjective
    <3> QED
      BY <1>5, <3>1, <3>2, <3>3
  <2> QED
    BY <1>1, <1>7, <2>1, <2>2, <2>3
<1>11. Chain(h2, f2, s2)
  BY <1>5, <1>6, <1>8, <1>9, <1>10 DEF Chain
<1>12. \A i \in 1..p : s2[i] = s[i]
  BY <1>6
<1>13. \A k \in DOMAIN h : (\A i \in 1..Len(s) : s[i] # k) => h2[k] = h[k]
  <2>1. CASE p = 0
    BY <1>3, <2>1
  <2>2. CASE p # 0
    BY <1>4, <1>5, <2>2
  <2> QED
    BY <2>1, <2>2
<1> QED
  BY <1>5, <1>6, <1>11, <1>12, <1>13 DEF s2, Longer

(* The list without position p, up to position e. *)
CutAt(s, p, e) == [i \in 1..(e - 1) |-> IF i < p THEN s[i] ELSE s[i + 1]]

Shorter(h, a, s, p, e, h2, f2, s2) ==
  /\ HeapType(h2, a) /\ Chain(h2, f2, s2)
  /\ DOMAIN h2 = DOMAIN h
  /\ \A k \in DOMAIN h : SameItem(h2[k], h[k])
  /\ Len(s2) = e - 1
  /\ \A i \in 1..(e - 1) : s2[i] = IF i < p THEN s[i] ELSE s[i + 1]

LEMMA CutKeeps ==
  ASSUME NEW h, NEW a, NEW f, NEW s, HeapType(h, a), Chain(h, f, s),
         NEW p \in 1..Len(s), NEW e \in Nat, e = p \/ e = Len(s),
         NEW last, last = IF p = 1 THEN NULL ELSE s[p - 1],
         NEW rest, rest = IF p < e THEN s[p + 1] ELSE NULL,
         NEW h2, h2 = IF last = NULL THEN h ELSE Linked(h, last, rest),
         NEW f2, f2 = IF last = NULL THEN rest ELSE f
  PROVE  Shorter(h, a, s, p, e, h2, f2, CutAt(s, p, e))
<1> DEFINE s2 == CutAt(s, p, e)
<1>1. /\ s \in Seq(DOMAIN h) /\ Len(s) \in Nat
      /\ p \in Nat /\ p >= 1 /\ e \in Nat /\ p <= e /\ e <= Len(s)
      /\ \A i \in 1..Len(s) : s[i] \in DOMAIN h
  BY DEF Chain
<1>2. \A i \in 1..Len(s) : s[i] # NULL /\ s[i] \in Nat
  BY <1>1 DEF HeapType, NULL
<1>3. last = NULL <=> p = 1
  BY <1>1, <1>2
<1>4. p # 1 => p - 1 \in 1..Len(s) /\ last = s[p - 1] /\ last \in DOMAIN h
  BY <1>1
<1>5. rest \in Nat
  BY <1>1, <1>2 DEF NULL
<1>6. /\ HeapType(h2, a) /\ DOMAIN h2 = DOMAIN h
      /\ \A k \in DOMAIN h : SameItem(h2[k], h[k])
      /\ \A k \in DOMAIN h : k # last => h2[k] = h[k]
      /\ p # 1 => h2[last].next = rest
  <2>1. CASE p = 1
    BY <1>3, <2>1 DEF SameItem
  <2>2. CASE p # 1
    <3>1. last \in DOMAIN h /\ last # NULL /\ h2 = Linked(h, last, rest)
      BY <1>3, <1>4, <2>2
    <3>2. Relinked(h, a, last, rest, h2)
      BY <1>5, <3>1, LinkedIs
    <3> QED
      BY <3>2 DEF Relinked
  <2> QED
    BY <2>1, <2>2
<1>7. /\ s2 \in Seq(DOMAIN h) /\ Len(s2) = e - 1
      /\ \A i \in 1..(e - 1) : s2[i] = IF i < p THEN s[i] ELSE s[i + 1]
  <2>1. \A i \in 1..(e - 1) : i \in 1..Len(s) /\ i + 1 \in 1..Len(s)
    BY <1>1
  <2>2. e - 1 \in Nat
    BY <1>1
  <2>3. s2 \in [1..(e - 1) -> DOMAIN h]
    BY <1>1, <2>1 DEF CutAt
  <2> QED
    BY <2>2, <2>3 DEF CutAt
<1>8. f2 = IF s2 = <<>> THEN NULL ELSE s2[1]
  <2>1. s2 = <<>> <=> e = 1
    BY <1>1, <1>7
  <2>2. CASE e = 1
    BY <1>1, <1>3, <2>1, <2>2
  <2>3. CASE e # 1
    <3>1. 1 \in 1..(e - 1) /\ f = s[1]
      BY <1>1, <2>3 DEF Chain
    <3>2. s2[1] = IF 1 < p THEN s[1] ELSE s[1 + 1]
      BY <1>7, <3>1
    <3> QED
      BY <1>1, <1>3, <2>1, <2>3, <3>1, <3>2
  <2> QED
    BY <2>2, <2>3
<1>9. \A i \in 1..Len(s) : \A j \in 1..Len(s) : s[i] = s[j] => i = j
  BY <1>1 DEF Chain, IsInjective
<1>10. IsInjective(s2)
  <2> SUFFICES ASSUME NEW i \in 1..(e - 1), NEW j \in 1..(e - 1), s2[i] = s2[j]
               PROVE  i = j
    <3>1. DOMAIN s2 = 1..(e - 1)
      BY DEF CutAt
    <3> QED
      BY <3>1 DEF IsInjective
  <2> HIDE DEF s2
  <2>1. i \in 1..Len(s) /\ j \in 1..Len(s) /\ i + 1 \in 1..Len(s) /\ j + 1 \in 1..Len(s)
    BY <1>1
  <2> QED
    BY <1>1, <1>7, <1>9, <2>1
<1>11. ASSUME NEW i \in 1..Len(s2)
       PROVE  h2[s2[i]].next = IF i < Len(s2) THEN s2[i + 1] ELSE NULL
  <2>0. i \in 1..(e - 1) /\ (i < Len(s2) <=> i + 1 \in 1..(e - 1))
    BY <1>1, <1>7
  <2>1. CASE i >= p
    <3>1. s2[i] = s[i + 1] /\ i + 1 \in 1..Len(s) /\ e = Len(s)
      BY <1>1, <1>7, <2>0, <2>1
    <3>2. h[s[i + 1]].next = IF i + 1 < Len(s) THEN s[(i + 1) + 1] ELSE NULL
      BY <3>1 DEF Chain
    <3>3. i < Len(s2) => s2[i + 1] = s[(i + 1) + 1]
      BY <1>1, <1>7, <2>0, <2>1
    <3>4. s[i + 1] # last
      BY <1>1, <1>2, <1>3, <1>4, <1>9, <2>1, <3>1
    <3>5. i < Len(s2) <=> i + 1 < Len(s)
      BY <1>1, <1>7, <3>1
    <3>6. h2[s[i + 1]] = h[s[i + 1]]
      BY <1>1, <1>6, <3>1, <3>4
    <3> QED
      BY <3>1, <3>2, <3>3, <3>5, <3>6
  <2>2. CASE i = p - 1
    <3>1. s2[i] = last /\ p # 1
      BY <1>1, <1>7, <2>0, <2>2
    <3>2. h2[s2[i]].next = rest
      BY <1>6, <3>1
    <3>3. i < Len(s2) <=> p < e
      BY <1>1, <1>7, <2>2
    <3>4. i < Len(s2) => s2[i + 1] = s[p + 1]
      BY <1>1, <1>7, <2>0, <2>2
    <3> QED
      BY <3>2, <3>3, <3>4
  <2>3. CASE i < p - 1
    <3>1. /\ s2[i] = s[i] /\ i \in 1..Len(s) /\ i < Len(s) /\ i < Len(s2)
          /\ p # 1 /\ i # p - 1 /\ s[i] \in DOMAIN h
      BY <1>1, <1>7, <2>0, <2>3
    <3>2. h[s[i]].next = s[i + 1] /\ s2[i + 1] = s[i + 1]
      <4>1. i + 1 \in 1..(e - 1) /\ i + 1 < p
        BY <1>1, <2>0, <2>3
      <4>2. s2[i + 1] = s[i + 1]
        BY <1>7, <4>1
      <4> QED
        BY <3>1, <4>2 DEF Chain
    <3>3. s[i] # last
      BY <1>4, <1>9, <3>1
    <3>4. h2[s[i]] = h[s[i]]
      BY <1>6, <3>1, <3>3
    <3> QED
      BY <3>1, <3>2, <3>4
  <2> QED
    BY <1>1, <1>7, <2>1, <2>2, <2>3
<1>12. Chain(h2, f2, s2)
  BY <1>6, <1>7, <1>8, <1>10, <1>11 DEF Chain
<1> QED
  BY <1>6, <1>7, <1>12 DEF Shorter

-----------------------------------------------------------------------------
(* What each statement does to the invariant of the list *)

LEMMA ChainFacts ==
  ASSUME NEW h, NEW a, NEW f, NEW s, HeapType(h, a), Chain(h, f, s)
  PROVE  /\ s \in Seq(DOMAIN h) /\ Len(s) \in Nat
         /\ f = NULL <=> s = <<>>
         /\ \A i \in 1..Len(s) : s[i] \in DOMAIN h /\ s[i] # NULL
         /\ \A i \in 1..Len(s) : \A j \in 1..Len(s) : s[i] = s[j] => i = j
         /\ \A m \in DOMAIN h : m \in Nat /\ m # NULL /\ h[m] \in ItemType
<1>1. s \in Seq(DOMAIN h) /\ Len(s) \in Nat /\ \A i \in 1..Len(s) : s[i] \in DOMAIN h
  BY DEF Chain
<1>2. \A m \in DOMAIN h : m \in Nat /\ m # NULL /\ h[m] \in ItemType
  BY DEF HeapType, NULL
<1>3. \A i \in 1..Len(s) : \A j \in 1..Len(s) : s[i] = s[j] => i = j
  BY <1>1 DEF Chain, IsInjective
<1>4. f = NULL <=> s = <<>>
  <2>1. s # <<>> => 1 \in 1..Len(s)
    BY <1>1
  <2> QED
    BY <1>1, <1>2, <2>1 DEF Chain
<1> QED
  BY <1>1, <1>2, <1>3, <1>4

(* Only delete_client has a position in the list. *)
LEMMA PtrNull ==
  ASSUME NEW G, NEW h, NEW s, NEW r, NEW t, TodoInv(t, G), PtrInv(h, s, r, t),
         Pc(t) \notin RemoveOps \cup {"delete_next"}
  PROVE  r.ptr = NULL
<1> SUFFICES ASSUME r.ptr # NULL PROVE FALSE
  OBVIOUS
<1>1. PICK i \in 1..Len(t) : t[i].op = "delete_next"
  BY DEF PtrInv
<1>2. t \in Seq(StmtType(G)) /\ Len(t) \in Nat /\ t # <<>> /\ Head(t) = t[1] /\ 1 \in 1..Len(t)
  BY <1>1 DEF TodoInv
<1>3. \A j \in 1..Len(t) : j < i => t[j].op \in RemoveOps
  BY <1>1 DEF TodoInv, DeletesAlone, DeleteOps
<1>4. t[1].op \in RemoveOps \cup {"delete_next"}
  BY <1>1, <1>2, <1>3
<1> QED
  BY <1>2, <1>4 DEF Pc

SameReg(r, q) == r.item = q.item /\ r.last = q.last /\ r.next = q.next /\ r.ptr = q.ptr

(* A statement that does not touch the list. *)
LEMMA QuietList ==
  ASSUME NEW h, NEW f, NEW a, NEW r, NEW t, NEW s, ListInv(h, f, a, r, t, s),
         Pc(t) \notin Conts, r.ptr = NULL,
         NEW q \in RegType, SameReg(q, r), NEW u, Pc(u) \notin Conts
  PROVE  ListInv(h, f, a, q, u, s)
<1>1. RegInv(h, s, q, Pc(u))
  BY DEF ListInv, RegInv, SameReg, Cleared, Conts
<1>2. PtrInv(h, s, q, u)
  BY DEF PtrInv, SameReg
<1>3. Kept(h, s, q)
  BY DEF ListInv, Kept, SameReg
<1> QED
  BY <1>1, <1>2, <1>3 DEF ListInv

LEMMA QuietDelete ==
  ASSUME NEW h, NEW r, NEW t, NEW s, NEW st, DeleteInv(h, s, r, t, st),
         NEW q, NEW u, Pc(u) \notin Conts, \A i \in 1..Len(u) : u[i].op \notin DeleteOps,
         NEW st2, \A f : st[f] # "none" => st2[f] # "none"
  PROVE  DeleteInv(h, s, q, u, st2)
BY DEF DeleteInv, Conts

LEMMA AddCheckList ==
  ASSUME NEW h, NEW f, NEW a, NEW r, NEW t, NEW s, ListInv(h, f, a, r, t, s),
         Pc(t) \notin Conts, r.ptr = NULL, NEW fd \in Fd, NEW type \in MsgType,
         NEW u, Pc(u) = IF f = NULL THEN "add_link" ELSE "add_walk"
  PROVE  LET h2 == Allocated(h, a + 1, Item(r.cnt, fd, type, "main"))
             q == [r EXCEPT !.item = a + 1, !.cnt = 0]
         IN  /\ ListInv(h2, f, a + 1, q, u, s)
             /\ \A st : /\ DeleteInv(h, s, r, t, st) /\ st[fd] # "none"
                        /\ \A i \in 1..Len(u) : u[i].op \notin DeleteOps
                        => DeleteInv(h2, s, q, u, st)
<1> DEFINE item == Item(r.cnt, fd, type, "main")
           h2 == Allocated(h, a + 1, item)
           q == [r EXCEPT !.item = a + 1, !.cnt = 0]
<1>1. HeapType(h, a) /\ Chain(h, f, s) /\ r \in RegType /\ Cleared(r) /\ Kept(h, s, r)
  BY DEF ListInv, RegInv
<1>2. item \in ItemType /\ item.next = NULL /\ item.by = "main" /\ item.sockfd = fd
  BY <1>1 DEF Item, ItemType, RegType, NULL
<1> HIDE DEF item
<1>3. /\ HeapType(h2, a + 1) /\ Chain(h2, f, s)
      /\ DOMAIN h2 = DOMAIN h \cup {a + 1}
      /\ \A m \in DOMAIN h : h2[m] = h[m]
      /\ h2[a + 1] = item
      /\ \A i \in 1..Len(s) : s[i] # a + 1
  <2>1. Grown(h, a, f, s, item, h2)
    BY <1>1, <1>2, AllocKeeps
  <2> QED
    BY <2>1 DEF Grown
<1>4. /\ q \in RegType /\ q.item = a + 1 /\ q.last = NULL /\ q.next = NULL /\ q.ptr = NULL
  <2>1. a + 1 \in Nat /\ 0 \in Id
    BY <1>1, ProcessAssumption DEF HeapType, Id
  <2> QED
    BY <1>1, <2>1 DEF RegType, Cleared
<1> HIDE DEF h2, q
<1>5. Len(s) \in Nat /\ (f = NULL <=> s = <<>>) /\ \A i \in 1..Len(s) : s[i] \in DOMAIN h
  BY <1>1, ChainFacts
<1>6. Fresh(h2, s, q)
  BY <1>2, <1>3, <1>4 DEF Fresh
<1>7. s = <<>> => FoundLast(h2, s, q)
  BY <1>4 DEF FoundLast, SigintBehind
<1>8. RegInv(h2, s, q, Pc(u))
  <2>1. CASE f = NULL
    BY <1>4, <1>5, <1>6, <1>7, <2>1 DEF RegInv, Conts
  <2>2. CASE f # NULL
    BY <1>4, <1>5, <1>6, <2>2 DEF RegInv, Conts
  <2> QED
    BY <2>1, <2>2
<1>9. PtrInv(h2, s, q, u)
  BY <1>4 DEF PtrInv
<1>10. Kept(h2, s, q)
  <2>1. \A n \in DOMAIN h : n # NULL
    BY <1>1, ChainFacts
  <2> QED
    BY <1>1, <1>3, <1>4, <2>1 DEF Kept, Cleared
<1>11. ListInv(h2, f, a + 1, q, u, s)
  BY <1>3, <1>8, <1>9, <1>10 DEF ListInv
<1>12. ASSUME NEW st, DeleteInv(h, s, r, t, st), st[fd] # "none",
              \A i \in 1..Len(u) : u[i].op \notin DeleteOps
       PROVE  DeleteInv(h2, s, q, u, st)
  <2>1. Distinct(h2, s)
    BY <1>3, <1>5, <1>12 DEF DeleteInv, Distinct
  <2>2. \A i \in 1..Len(s) : st[h2[s[i]].sockfd] # "none"
    BY <1>3, <1>5, <1>12 DEF DeleteInv
  <2>3. st[h2[q.item].sockfd] # "none"
    BY <1>2, <1>3, <1>4, <1>12
  <2> QED
    BY <1>12, <2>1, <2>2, <2>3 DEF DeleteInv
<1> QED
  BY <1>11, <1>12 DEF h2, q, item

LEMMA AddWalkList ==
  ASSUME NEW h, NEW f, NEW a, NEW r, NEW t, NEW s, ListInv(h, f, a, r, t, s),
         Pc(t) = "add_walk", r.ptr = NULL, NEW u, Pc(u) = "add_link"
  PROVE  LET q == [r EXCEPT !.last = queue_last(h, f)]
         IN  /\ ListInv(h, f, a, q, u, s)
             /\ \A st : /\ DeleteInv(h, s, r, t, st)
                        /\ \A i \in 1..Len(u) : u[i].op \notin DeleteOps
                        => DeleteInv(h, s, q, u, st)
<1> DEFINE q == [r EXCEPT !.last = queue_last(h, f)]
<1>1. /\ HeapType(h, a) /\ Chain(h, f, s) /\ r \in RegType /\ Kept(h, s, r)
      /\ Fresh(h, s, r) /\ r.next = NULL /\ s # <<>>
  BY DEF ListInv, RegInv
<1>2. /\ Len(s) \in Nat /\ f # NULL /\ s \in Seq(DOMAIN h)
      /\ \A i \in 1..Len(s) : s[i] \in Nat
  BY <1>1, ChainFacts
<1>3. queue_last(h, f) = s[Len(s)]
  BY <1>1, <1>2, ListIs DEF queue_last, Last
<1>4. Len(s) \in 1..Len(s)
  BY <1>1, <1>2
<1>5. /\ q \in RegType /\ q.item = r.item /\ q.last = s[Len(s)]
      /\ q.next = r.next /\ q.ptr = r.ptr
  BY <1>1, <1>2, <1>3, <1>4 DEF RegType
<1> HIDE DEF q
<1>6. Fresh(h, s, q)
  BY <1>1, <1>5 DEF Fresh
<1>7. FoundLast(h, s, q)
  BY <1>2, <1>4, <1>5 DEF FoundLast, SigintBehind
<1>8. RegInv(h, s, q, Pc(u))
  BY <1>1, <1>5, <1>6, <1>7 DEF RegInv, Conts
<1>9. PtrInv(h, s, q, u) /\ Kept(h, s, q)
  BY <1>1, <1>5 DEF PtrInv, Kept
<1>10. ListInv(h, f, a, q, u, s)
  BY <1>1, <1>8, <1>9 DEF ListInv
<1>11. ASSUME NEW st, DeleteInv(h, s, r, t, st),
              \A i \in 1..Len(u) : u[i].op \notin DeleteOps
       PROVE  DeleteInv(h, s, q, u, st)
  BY <1>5, <1>11 DEF DeleteInv
<1> QED
  BY <1>10, <1>11 DEF q

(* No other item of the list has the id of n. *)
Alone(h, s, n) == \A i \in 1..Len(s) : s[i] # n => h[s[i]].id # h[n].id

(* The messages of clients stay in order when item n is put into the list  *)
(* and no other one has its id.                                            *)
PutKeeps(h, s, r, t, n, h2, s2, q, u) ==
  \A st : /\ DeleteInv(h, s, r, t, st) /\ Alone(h2, s2, n)
          /\ \A i \in 1..Len(u) : u[i].op \notin DeleteOps
          => DeleteInv(h2, s2, q, u, st)

LEMMA AddLinkList ==
  ASSUME NEW h, NEW f, NEW a, NEW r, NEW t, NEW s, ListInv(h, f, a, r, t, s),
         Pc(t) = "add_link", r.ptr = NULL, NEW u, Pc(u) \notin Conts,
         NEW h2, h2 = IF r.last = NULL THEN h ELSE Linked(h, r.last, r.item),
         NEW f2, f2 = IF r.last = NULL THEN r.item ELSE f,
         NEW q, q = [r EXCEPT !.item = NULL, !.last = NULL]
  PROVE  \E s2 : ListInv(h2, f2, a, q, u, s2) /\ PutKeeps(h, s, r, t, r.item, h2, s2, q, u)
<1>1. /\ HeapType(h, a) /\ Chain(h, f, s) /\ r \in RegType /\ Kept(h, s, r)
      /\ Fresh(h, s, r) /\ r.next = NULL /\ FoundLast(h, s, r)
  BY DEF ListInv, RegInv
<1>2. PICK p \in 0..Len(s) :
        r.last = (IF p = 0 THEN NULL ELSE s[p]) /\ SigintBehind(h, s, p)
  BY <1>1 DEF FoundLast
<1> DEFINE n == r.item
           s2 == LinkedAt(s, p, n)
<1>3. n \in DOMAIN h /\ h[n].next = NULL /\ \A i \in 1..Len(s) : s[i] # n
  BY <1>1 DEF Fresh
<1> HIDE DEF n, s2
<1>4. Longer(h, a, s, p, n, h2, f2, s2)
  <2>1. r.last = IF p = 0 THEN NULL ELSE s[p]
    BY <1>2
  <2>2. h2 = IF r.last = NULL THEN h ELSE Linked(h, r.last, n)
    BY DEF n
  <2>3. f2 = IF r.last = NULL THEN n ELSE f
    BY DEF n
  <2> QED
    BY <1>1, <1>3, <2>1, <2>2, <2>3, LinkKeeps DEF s2
<1>5. /\ HeapType(h2, a) /\ Chain(h2, f2, s2) /\ DOMAIN h2 = DOMAIN h
      /\ \A k \in DOMAIN h : SameItem(h2[k], h[k])
      /\ Len(s2) = p + 1 /\ s2[p + 1] = n
      /\ \A i \in 1..p : s2[i] = s[i]
  BY <1>4 DEF Longer
<1>6. Len(s) \in Nat /\ p \in Nat /\ p <= Len(s) /\ \A i \in 1..Len(s) : s[i] \in DOMAIN h
  BY <1>1, ChainFacts
<1>7. q \in RegType /\ q.item = NULL /\ q.last = NULL /\ q.next = NULL /\ q.ptr = NULL
  BY <1>1 DEF RegType, NULL
<1>8. RegInv(h2, s2, q, Pc(u)) /\ PtrInv(h2, s2, q, u)
  BY <1>7 DEF RegInv, PtrInv, Cleared, Conts
<1>9. Kept(h2, s2, q)
  <2> SUFFICES ASSUME NEW m \in DOMAIN h, \A i \in 1..Len(s2) : s2[i] # m
               PROVE  h2[m].by = "sigint"
    BY <1>5 DEF Kept
  <2>1. m # n
    <3>1. p + 1 \in 1..Len(s2)
      BY <1>5, <1>6
    <3> QED
      BY <1>5, <3>1
  <2>2. h[m].by = "sigint"
    <3>1. CASE \A i \in 1..Len(s) : s[i] # m
      BY <1>1, <2>1, <3>1 DEF Kept, n
    <3>2. CASE \E i \in 1..Len(s) : s[i] = m
      <4>1. PICK i \in 1..Len(s) : s[i] = m
        BY <3>2
      <4>2. i \notin 1..p
        <5>1. i \in 1..p => i \in 1..Len(s2) /\ s2[i] = m
          BY <1>5, <1>6, <4>1
        <5> QED
          BY <5>1
      <4>3. i \in (p + 1)..Len(s)
        BY <1>6, <4>2
      <4> QED
        BY <1>2, <4>1, <4>3 DEF SigintBehind
    <3> QED
      BY <3>1, <3>2
  <2> QED
    BY <1>5, <2>2 DEF SameItem
<1>10. ListInv(h2, f2, a, q, u, s2)
  BY <1>5, <1>8, <1>9 DEF ListInv
<1>11. ASSUME NEW st, DeleteInv(h, s, r, t, st), Alone(h2, s2, n),
              \A i \in 1..Len(u) : u[i].op \notin DeleteOps
       PROVE  DeleteInv(h2, s2, q, u, st)
  <2>1. \A i \in 1..Len(s2) : i = p + 1 \/ (i \in 1..p /\ i \in 1..Len(s) /\ s2[i] = s[i])
    BY <1>5, <1>6
  <2>2. \A i \in 1..p : /\ i \in 1..Len(s) /\ s[i] \in DOMAIN h
                        /\ h2[s[i]].id = h[s[i]].id /\ h2[s[i]].sockfd = h[s[i]].sockfd
    BY <1>5, <1>6 DEF SameItem
  <2>3. \A i \in 1..p : s2[i] # n
    BY <1>3, <1>5, <2>2
  <2>4. \A i \in 1..p : i \in 1..Len(s2) /\ h2[s2[i]].id # h2[n].id
    BY <1>5, <1>6, <1>11, <2>3 DEF Alone
  <2>5. Distinct(h2, s2)
    <3> SUFFICES ASSUME NEW i \in 1..Len(s2), NEW j \in 1..Len(s2), h2[s2[i]].id = h2[s2[j]].id
                 PROVE  i = j
      BY DEF Distinct
    <3>1. CASE i = p + 1 \/ j = p + 1
      BY <1>5, <2>1, <2>4, <3>1
    <3>2. CASE i # p + 1 /\ j # p + 1
      BY <1>5, <1>11, <2>1, <2>2, <3>2 DEF DeleteInv, Distinct
    <3> QED
      BY <3>1, <3>2
  <2>6. \A i \in 1..Len(s2) : st[h2[s2[i]].sockfd] # "none"
    <3>1. st[h2[n].sockfd] # "none"
      BY <1>3, <1>5, <1>11 DEF DeleteInv, SameItem, n
    <3> QED
      BY <1>5, <1>11, <2>1, <2>2, <3>1 DEF DeleteInv
  <2> QED
    BY <1>11, <2>5, <2>6 DEF DeleteInv, Conts
<1> QED
  BY <1>10, <1>11 DEF n, PutKeeps

LEMMA RemoveReadList ==
  ASSUME NEW G, NEW h, NEW f, NEW a, NEW r, NEW t, NEW s, TodoInv(t, G), t # <<>>,
         ListInv(h, f, a, r, t, s), Pc(t) = "remove_read",
         NEW p \in 0..Len(s),
         \A i \in 1..Len(s) : h[s[i]].id = Head(t).arg => p # 0 /\ p <= i,
         p # 0 => h[s[p]].id = Head(t).arg,
         NEW item, item = IF p = 0 THEN NULL ELSE s[p],
         NEW q, q = [r EXCEPT !.item = item, !.last = IF p <= 1 THEN NULL ELSE s[p - 1],
                              !.next = Follow(h, item)]
  PROVE  /\ ListInv(h, f, a, q, Tail(t), s)
         /\ \A st : DeleteInv(h, s, r, t, st) => DeleteInv(h, s, q, Tail(t), st)
<1> DEFINE u == Tail(t)
<1>1. /\ HeapType(h, a) /\ Chain(h, f, s) /\ r \in RegType /\ Kept(h, s, r)
      /\ Cleared(r) /\ PtrInv(h, s, r, t)
  BY DEF ListInv, RegInv, Conts
<1>2. /\ Len(s) \in Nat /\ p \in Nat /\ p <= Len(s)
      /\ \A i \in 1..Len(s) : s[i] \in DOMAIN h /\ s[i] \in Nat /\ s[i] # NULL
      /\ NULL \notin DOMAIN h
  BY <1>1, ChainFacts
<1>3. Head(t).op = "remove_read" /\ Pc(u) = "remove_write" /\ Len(t) \in Nat /\ Len(t) >= 1
      /\ Len(u) = Len(t) - 1 /\ t[1] = Head(t) /\ \A i \in 1..Len(u) : u[i] = t[i + 1]
  <2>1. Head(t).op = "remove_read"
    BY DEF Pc
  <2> QED
    BY <2>1, Rest
<1>4. u # <<>> /\ Head(u).op = "remove_write"
  BY <1>3 DEF Pc
<1> HIDE DEF u
<1>5. p # 0 => /\ p \in 1..Len(s) /\ item = s[p] /\ item \in DOMAIN h
               /\ Follow(h, item) = IF p < Len(s) THEN s[p + 1] ELSE NULL
  BY <1>1, <1>2 DEF Chain, Follow
<1>6. p = 0 => item = NULL /\ Follow(h, item) = NULL
  BY <1>2 DEF Follow
<1>7. item \in Nat /\ Follow(h, item) \in Nat /\ (IF p <= 1 THEN NULL ELSE s[p - 1]) \in Nat
  <2>1. 0 \in Nat
    OBVIOUS
  <2>2. p < Len(s) => p + 1 \in 1..Len(s)
    BY <1>2
  <2>3. ~(p <= 1) => p - 1 \in 1..Len(s)
    BY <1>2
  <2> QED
    BY <1>2, <1>5, <1>6, <2>1, <2>2, <2>3 DEF NULL
<1>8. /\ q \in RegType /\ q.item = item /\ q.next = Follow(h, item) /\ q.ptr = r.ptr
      /\ q.last = IF p <= 1 THEN NULL ELSE s[p - 1]
  BY <1>1, <1>7 DEF RegType
<1>9. r.ptr # NULL => p # 0 /\ \E k \in (p + 1)..Len(s) : s[k] = r.ptr
  <2> SUFFICES ASSUME r.ptr # NULL PROVE p # 0 /\ \E k \in (p + 1)..Len(s) : s[k] = r.ptr
    OBVIOUS
  <2>1. PICK j \in 1..(Len(s) - 1) : h[s[j]].id = Head(t).arg /\ s[j + 1] = r.ptr
    BY <1>1 DEF PtrInv
  <2>2. j \in 1..Len(s) /\ p # 0 /\ p <= j
    BY <1>2, <2>1
  <2>3. j + 1 \in (p + 1)..Len(s)
    BY <1>2, <2>2
  <2> QED
    BY <2>1, <2>2, <2>3
<1>10. p # 0 => FoundItem(h, s, q)
  <2> SUFFICES ASSUME p # 0 PROVE FoundItem(h, s, q)
    OBVIOUS
  <2>1. q.last = IF p = 1 THEN NULL ELSE s[p - 1]
    BY <1>2, <1>8
  <2> QED
    BY <1>5, <1>8, <1>9, <2>1 DEF FoundItem
<1>11. p = 0 => Cleared(q)
  BY <1>6, <1>8 DEF Cleared
<1>12. RegInv(h, s, q, Pc(u))
  BY <1>3, <1>8, <1>10, <1>11 DEF RegInv, Conts
<1>13. PtrInv(h, s, q, u)
  <2>1. r.ptr # NULL => \E i \in 1..Len(u) : u[i].op = "delete_next"
    <3> SUFFICES ASSUME r.ptr # NULL PROVE \E i \in 1..Len(u) : u[i].op = "delete_next"
      OBVIOUS
    <3>1. PICK i \in 1..Len(t) : t[i].op = "delete_next"
      BY <1>1 DEF PtrInv
    <3>2. i # 1
      BY <1>3, <3>1
    <3>3. i - 1 \in 1..Len(u) /\ (i - 1) + 1 = i
      BY <1>3, <3>2
    <3> QED
      BY <1>3, <3>1, <3>3
  <2> QED
    BY <1>1, <1>3, <1>8, <2>1 DEF PtrInv
<1>14. Kept(h, s, q)
  BY <1>1, <1>2 DEF Kept, Cleared
<1>15. ListInv(h, f, a, q, u, s)
  BY <1>1, <1>12, <1>13, <1>14 DEF ListInv
<1>16. ASSUME NEW st, DeleteInv(h, s, r, t, st)
       PROVE  DeleteInv(h, s, q, u, st)
  <2> SUFFICES ASSUME NEW k \in 1..Len(u), u[k].op \in DeleteOps,
                      NEW i \in 1..Len(s), h[s[i]].sockfd = u[k].fd
               PROVE  Ahead(h, s, q, u, i)
    BY <1>3, <1>16 DEF DeleteInv
  <2>1. k + 1 \in 1..Len(t) /\ u[k] = t[k + 1]
    BY <1>3
  <2>2. Ahead(h, s, r, t, i)
    BY <1>16, <2>1 DEF DeleteInv
  <2>3. CASE h[s[i]].id = Head(t).arg
    <3>1. p \in 1..Len(s) /\ h[s[p]].id = h[s[i]].id
      BY <1>5, <2>3
    <3>2. p = i
      BY <1>16, <3>1 DEF DeleteInv, Distinct
    <3> QED
      BY <1>4, <1>5, <1>8, <3>1, <3>2 DEF Ahead
  <2>4. CASE h[s[i]].id # Head(t).arg
    BY <1>3, <1>8, <2>2, <2>4 DEF Ahead
  <2> QED
    BY <2>3, <2>4
<1> QED
  BY <1>15, <1>16 DEF u

LEMMA RemoveNothing ==
  ASSUME NEW G, NEW h, NEW f, NEW a, NEW r, NEW t, NEW s, TodoInv(t, G), t # <<>>,
         ListInv(h, f, a, r, t, s), Pc(t) = "remove_write", Cleared(r)
  PROVE  /\ ListInv(h, f, a, r, Tail(t), s)
         /\ \A st : DeleteInv(h, s, r, t, st) => DeleteInv(h, s, r, Tail(t), st)
<1> DEFINE u == Tail(t)
<1>1. Head(t).op = "remove_write"
  BY DEF Pc
<1>2. /\ Pc(u) = "destroy_item" /\ Len(t) \in Nat /\ Len(t) >= 1
      /\ Len(u) = Len(t) - 1 /\ t[1] = Head(t) /\ \A i \in 1..Len(u) : u[i] = t[i + 1]
  BY <1>1, Rest
<1> HIDE DEF u
<1>3. RegInv(h, s, r, Pc(u))
  BY <1>2 DEF ListInv, RegInv, Cleared, Conts, InList
<1>4. PtrInv(h, s, r, u)
  <2> SUFFICES ASSUME r.ptr # NULL PROVE \E i \in 1..Len(u) : u[i].op = "delete_next"
    BY <1>2 DEF ListInv, PtrInv
  <2>1. PICK i \in 1..Len(t) : t[i].op = "delete_next"
    BY DEF ListInv, PtrInv
  <2>2. i # 1
    BY <1>1, <1>2, <2>1
  <2>3. i - 1 \in 1..Len(u) /\ (i - 1) + 1 = i
    BY <1>2, <2>2
  <2> QED
    BY <1>2, <2>1, <2>3
<1>5. ListInv(h, f, a, r, u, s)
  BY <1>3, <1>4 DEF ListInv
<1>6. ASSUME NEW st, DeleteInv(h, s, r, t, st)
      PROVE  DeleteInv(h, s, r, u, st)
  <2> SUFFICES ASSUME NEW k \in 1..Len(u), u[k].op \in DeleteOps,
                      NEW i \in 1..Len(s), h[s[i]].sockfd = u[k].fd
               PROVE  Ahead(h, s, r, u, i)
    BY <1>2, <1>6 DEF DeleteInv
  <2>1. k + 1 \in 1..Len(t) /\ u[k] = t[k + 1]
    BY <1>2
  <2>2. Ahead(h, s, r, t, i)
    BY <1>6, <2>1 DEF DeleteInv
  <2>3. s[i] # r.item
    BY ChainFacts DEF ListInv, Cleared
  <2> QED
    BY <1>1, <2>2, <2>3 DEF Ahead
<1> QED
  BY <1>5, <1>6 DEF u

(* The messages of clients stay in order. *)
DeleteKeeps(h, s, r, t, h2, s2, q, u) ==
  \A st : DeleteInv(h, s, r, t, st) => DeleteInv(h2, s2, q, u, st)

LEMMA RemoveWriteList ==
  ASSUME NEW G, NEW h, NEW f, NEW a, NEW r, NEW t, NEW s, TodoInv(t, G), t # <<>>,
         ListInv(h, f, a, r, t, s), Pc(t) = "remove_write", FoundItem(h, s, r),
         NEW h2, h2 = IF r.last = NULL THEN h ELSE Linked(h, r.last, r.next),
         NEW f2, f2 = IF r.last = NULL THEN r.next ELSE f
  PROVE  \E s2 : ListInv(h2, f2, a, r, Tail(t), s2) /\ DeleteKeeps(h, s, r, t, h2, s2, r, Tail(t))
<1> DEFINE u == Tail(t)
<1>1. /\ HeapType(h, a) /\ Chain(h, f, s) /\ r \in RegType /\ Kept(h, s, r)
      /\ PtrInv(h, s, r, t)
  BY DEF ListInv, RegInv
<1>2. Head(t).op = "remove_write"
  BY DEF Pc
<1>3. /\ Pc(u) = "destroy_item" /\ Len(t) \in Nat /\ Len(t) >= 1
      /\ Len(u) = Len(t) - 1 /\ t[1] = Head(t) /\ \A i \in 1..Len(u) : u[i] = t[i + 1]
  BY <1>2, Rest
<1> HIDE DEF u
<1>4. PICK p \in 1..Len(s) :
        /\ r.item = s[p]
        /\ r.last = IF p = 1 THEN NULL ELSE s[p - 1]
        /\ \/ r.next = IF p < Len(s) THEN s[p + 1] ELSE NULL
           \/ r.next = NULL /\ SigintBehind(h, s, p) /\ r.ptr = NULL
        /\ r.ptr # NULL => \E k \in (p + 1)..Len(s) : s[k] = r.ptr
  BY DEF FoundItem
<1>5. /\ Len(s) \in Nat /\ p \in Nat /\ p >= 1 /\ p <= Len(s)
      /\ \A i \in 1..Len(s) : s[i] \in DOMAIN h /\ s[i] # NULL
      /\ \A i \in 1..Len(s) : \A j \in 1..Len(s) : s[i] = s[j] => i = j
  BY <1>1, ChainFacts
<1> DEFINE whole == r.next = IF p < Len(s) THEN s[p + 1] ELSE NULL
           e == IF whole THEN Len(s) ELSE p
           s2 == CutAt(s, p, e)
<1>6. /\ e \in Nat /\ (e = p \/ e = Len(s)) /\ p <= e /\ e <= Len(s)
      /\ r.next = (IF p < e THEN s[p + 1] ELSE NULL)
      /\ e # Len(s) => SigintBehind(h, s, p) /\ r.ptr = NULL /\ e = p
  BY <1>4, <1>5
<1> HIDE DEF whole, e, s2
<1>7. Shorter(h, a, s, p, e, h2, f2, s2)
  <2>1. r.last = (IF p = 1 THEN NULL ELSE s[p - 1]) /\ r.next = (IF p < e THEN s[p + 1] ELSE NULL)
    BY <1>4, <1>6
  <2> QED
    BY <1>1, <1>6, <2>1, CutKeeps DEF s2
<1>8. /\ HeapType(h2, a) /\ Chain(h2, f2, s2) /\ DOMAIN h2 = DOMAIN h
      /\ \A k \in DOMAIN h : SameItem(h2[k], h[k])
      /\ Len(s2) = e - 1
      /\ \A i \in 1..(e - 1) : s2[i] = IF i < p THEN s[i] ELSE s[i + 1]
  BY <1>7 DEF Shorter
(* Where the items of the new list were in the old one. *)
<1> DEFINE old(i) == IF i < p THEN i ELSE i + 1
<1>9. \A i \in 1..Len(s2) : old(i) \in 1..Len(s) /\ old(i) # p /\ s2[i] = s[old(i)]
  <2>1. \A i \in 1..Len(s2) : i \in 1..(e - 1) /\ i \in 1..Len(s) /\ i + 1 \in 1..Len(s)
    BY <1>5, <1>6, <1>8
  <2> QED
    BY <1>5, <1>8, <2>1
<1>10. \A i \in 1..Len(s) : i < p => i \in 1..Len(s2) /\ s2[i] = s[i]
  BY <1>5, <1>6, <1>8
<1>11. \A i \in 1..Len(s) : i > p /\ e = Len(s) => i - 1 \in 1..Len(s2) /\ s2[i - 1] = s[i]
  <2>1. \A i \in 1..Len(s) : i > p /\ e = Len(s) =>
          i - 1 \in 1..(e - 1) /\ ~(i - 1 < p) /\ (i - 1) + 1 = i
    BY <1>5
  <2> QED
    BY <1>8, <2>1
<1>12. \A i \in 1..Len(s2) : s2[i] # r.item
  BY <1>4, <1>5, <1>9
<1>13. InList(s2, r.last)
  <2>1. CASE p = 1
    BY <1>4, <2>1 DEF InList
  <2>2. CASE p # 1
    <3>1. p - 1 \in 1..Len(s) /\ p - 1 < p
      BY <1>5, <2>2
    <3> QED
      BY <1>4, <1>10, <2>2, <3>1 DEF InList
  <2> QED
    BY <2>1, <2>2
<1>14. InList(s2, r.next)
  <2>1. CASE p < e
    <3>1. p + 1 \in 1..Len(s) /\ p + 1 > p /\ e = Len(s)
      BY <1>5, <1>6, <2>1
    <3> QED
      BY <1>6, <1>11, <2>1, <3>1 DEF InList
  <2>2. CASE ~(p < e)
    BY <1>6, <2>2 DEF InList
  <2> QED
    BY <2>1, <2>2
<1>15. RegInv(h2, s2, r, Pc(u))
  <2>1. r.item \in DOMAIN h2
    BY <1>4, <1>5, <1>8
  <2> QED
    BY <1>1, <1>3, <1>12, <1>13, <1>14, <2>1 DEF RegInv, Conts
<1>16. r.ptr # NULL => e = Len(s) /\ \E k \in (p + 1)..Len(s) : s[k] = r.ptr
  BY <1>4, <1>6
<1>17. PtrInv(h2, s2, r, u)
  <2> SUFFICES ASSUME r.ptr # NULL
               PROVE  InList(s2, r.ptr) /\ \E i \in 1..Len(u) : u[i].op = "delete_next"
    BY <1>3 DEF PtrInv
  <2>1. PICK k \in (p + 1)..Len(s) : s[k] = r.ptr
    BY <1>16
  <2>2. k \in 1..Len(s) /\ k > p
    BY <1>5
  <2>3. InList(s2, r.ptr)
    BY <1>11, <1>16, <2>1, <2>2 DEF InList
  <2>4. PICK i \in 1..Len(t) : t[i].op = "delete_next"
    BY <1>1 DEF PtrInv
  <2>5. i # 1
    BY <1>2, <1>3, <2>4
  <2>6. i - 1 \in 1..Len(u) /\ (i - 1) + 1 = i
    BY <1>3, <2>5
  <2> QED
    BY <1>3, <2>3, <2>4, <2>6
<1>18. Kept(h2, s2, r)
  <2> SUFFICES ASSUME NEW m \in DOMAIN h, \A i \in 1..Len(s2) : s2[i] # m, m # r.item
               PROVE  h[m].by = "sigint"
    BY <1>8 DEF Kept, SameItem
  <2>1. CASE \A i \in 1..Len(s) : s[i] # m
    BY <1>1, <2>1 DEF Kept
  <2>2. CASE \E i \in 1..Len(s) : s[i] = m
    <3>1. PICK i \in 1..Len(s) : s[i] = m
      BY <2>2
    <3>2. i # p /\ ~(i < p) /\ ~(i > p /\ e = Len(s))
      BY <1>4, <1>10, <1>11, <3>1
    <3>3. i \in (p + 1)..Len(s) /\ e # Len(s)
      BY <1>5, <3>2
    <3> QED
      BY <1>6, <3>1, <3>3 DEF SigintBehind
  <2> QED
    BY <2>1, <2>2
<1>19. ListInv(h2, f2, a, r, u, s2)
  BY <1>8, <1>15, <1>17, <1>18 DEF ListInv
<1>20. ASSUME NEW st, DeleteInv(h, s, r, t, st)
       PROVE  DeleteInv(h2, s2, r, u, st)
  <2>1. \A i \in 1..Len(s2) : /\ h2[s2[i]].id = h[s[old(i)]].id
                              /\ h2[s2[i]].sockfd = h[s[old(i)]].sockfd
    BY <1>5, <1>8, <1>9 DEF SameItem
  <2>2. \A i \in 1..Len(s2) : \A j \in 1..Len(s2) : old(i) = old(j) => i = j
    BY <1>5
  <2> HIDE DEF old
  <2>3. Distinct(h2, s2)
    BY <1>9, <1>20, <2>1, <2>2 DEF DeleteInv, Distinct
  <2>4. \A i \in 1..Len(s2) : st[h2[s2[i]].sockfd] # "none"
    BY <1>9, <1>20, <2>1 DEF DeleteInv
  <2>5. ASSUME NEW k \in 1..Len(u), u[k].op \in DeleteOps,
               NEW i \in 1..Len(s2), h2[s2[i]].sockfd = u[k].fd
        PROVE  Ahead(h2, s2, r, u, i)
    <3>1. k + 1 \in 1..Len(t) /\ u[k] = t[k + 1]
      BY <1>3
    <3>2. Ahead(h, s, r, t, old(i))
      BY <1>9, <1>20, <2>1, <2>5, <3>1 DEF DeleteInv
    <3>3. s[old(i)] # r.item
      BY <1>9, <1>12
    <3>4. r.ptr # NULL /\ \E j \in 1..old(i) : s[j] = r.ptr
      BY <1>2, <3>2, <3>3 DEF Ahead
    <3>5. PICK j \in 1..old(i) : s[j] = r.ptr
      BY <3>4
    <3>6. PICK k2 \in (p + 1)..Len(s) : s[k2] = r.ptr
      BY <1>16, <3>4
    <3>7. old(i) \in 1..Len(s) /\ j \in 1..Len(s) /\ k2 \in 1..Len(s)
      BY <1>5, <1>9
    <3>8. j = k2
      BY <1>5, <3>5, <3>6, <3>7
    <3>9. j > p /\ old(i) = i + 1 /\ j - 1 \in 1..i
      BY <1>5, <3>7, <3>8 DEF old
    <3>10. s2[j - 1] = s[j]
      BY <1>11, <1>16, <3>4, <3>7, <3>9
    <3> QED
      BY <3>4, <3>5, <3>9, <3>10 DEF Ahead
  <2> QED
    BY <1>3, <2>3, <2>4, <2>5 DEF DeleteInv
<1> QED
  BY <1>19, <1>20 DEF u, DeleteKeeps

LEMMA DestroyList ==
  ASSUME NEW G, NEW h, NEW f, NEW a, NEW r, NEW t, NEW s, TodoInv(t, G), t # <<>>,
         ListInv(h, f, a, r, t, s), Pc(t) = "destroy_item",
         NEW h2, h2 = [n \in DOMAIN h \ {r.item} |-> h[n]],
         NEW q, q = [r EXCEPT !.item = NULL, !.last = NULL, !.next = NULL]
  PROVE  /\ ListInv(h2, f, a, q, Tail(t), s)
         /\ \A st : DeleteInv(h, s, r, t, st) => DeleteInv(h2, s, q, Tail(t), st)
<1> DEFINE u == Tail(t)
<1>1. /\ HeapType(h, a) /\ Chain(h, f, s) /\ r \in RegType /\ Kept(h, s, r)
      /\ PtrInv(h, s, r, t)
      /\ r.item # NULL => \A i \in 1..Len(s) : s[i] # r.item
  BY DEF ListInv, RegInv
<1>2. Head(t).op = "destroy_item"
  BY DEF Pc
<1>3. /\ Pc(u) \notin Conts \cup {"remove_read"} /\ Len(t) \in Nat /\ Len(t) >= 1
      /\ Len(u) = Len(t) - 1 /\ t[1] = Head(t) /\ \A i \in 1..Len(u) : u[i] = t[i + 1]
  BY <1>2, Rest DEF Openers
<1> HIDE DEF u
<1>4. \A i \in 1..Len(s) : s[i] \in DOMAIN h /\ s[i] # r.item
  BY <1>1, ChainFacts
<1>5. HeapType(h2, a) /\ Chain(h2, f, s)
  <2>1. \A i \in 1..Len(s) : s[i] \notin {r.item}
    BY <1>4
  <2> QED
    BY <1>1, <2>1, FreeKeeps
<1>6. DOMAIN h2 = DOMAIN h \ {r.item} /\ \A n \in DOMAIN h2 : h2[n] = h[n]
  OBVIOUS
<1>7. /\ q \in RegType /\ q.item = NULL /\ q.last = NULL /\ q.next = NULL
      /\ q.ptr = r.ptr
  BY <1>1 DEF RegType, NULL
<1>8. RegInv(h2, s, q, Pc(u))
  BY <1>3, <1>7 DEF RegInv, Cleared, Conts
<1>9. PtrInv(h2, s, q, u)
  <2> SUFFICES ASSUME r.ptr # NULL PROVE \E i \in 1..Len(u) : u[i].op = "delete_next"
    BY <1>1, <1>3, <1>7 DEF PtrInv
  <2>1. PICK i \in 1..Len(t) : t[i].op = "delete_next"
    BY <1>1 DEF PtrInv
  <2>2. i # 1
    BY <1>2, <1>3, <2>1
  <2>3. i - 1 \in 1..Len(u) /\ (i - 1) + 1 = i
    BY <1>3, <2>2
  <2> QED
    BY <1>3, <2>1, <2>3
<1>10. Kept(h2, s, q)
  BY <1>1, <1>6 DEF Kept
<1>11. ListInv(h2, f, a, q, u, s)
  BY <1>5, <1>8, <1>9, <1>10 DEF ListInv
<1>12. ASSUME NEW st, DeleteInv(h, s, r, t, st)
       PROVE  DeleteInv(h2, s, q, u, st)
  <2>1. \A i \in 1..Len(s) : h2[s[i]] = h[s[i]]
    BY <1>4, <1>6
  <2>2. Distinct(h2, s) /\ \A i \in 1..Len(s) : st[h2[s[i]].sockfd] # "none"
    BY <1>12, <2>1 DEF DeleteInv, Distinct
  <2>3. ASSUME NEW k \in 1..Len(u), u[k].op \in DeleteOps,
               NEW i \in 1..Len(s), h2[s[i]].sockfd = u[k].fd
        PROVE  Ahead(h2, s, q, u, i)
    <3>1. k + 1 \in 1..Len(t) /\ u[k] = t[k + 1]
      BY <1>3
    <3>2. Ahead(h, s, r, t, i)
      BY <1>12, <2>1, <2>3, <3>1 DEF DeleteInv
    <3> QED
      BY <1>2, <1>7, <3>2 DEF Ahead
  <2>4. Pc(u) \notin {"add_walk", "add_link"}
    BY <1>3 DEF Conts
  <2> QED
    BY <2>2, <2>3, <2>4 DEF DeleteInv
<1> QED
  BY <1>11, <1>12 DEF u

(* delete_client on its way *)
LEMMA DeleteTodo ==
  ASSUME NEW G, NEW t, TodoInv(t, G), t # <<>>, Head(t).op \in DeleteOps,
         NEW d, d = Stmt("delete_next", Head(t).fd, NULL)
  PROVE  /\ Len(t) = 1 /\ t[1] = Head(t) /\ Tail(t) = <<>>
         /\ TodoInv(d, G) /\ Pc(d) = "delete_next" /\ Len(d) = 1
         /\ d[1].op = "delete_next" /\ d[1].fd = Head(t).fd /\ Head(d) = d[1]
         /\ d \in Seq(StmtType(G)) /\ d # <<>>
         /\ \A st : StopInv(t, st) => StopInv(d, st)
<1>1. /\ Len(t) \in Nat /\ Len(t) >= 1 /\ t[1] = Head(t) /\ t \in Seq(StmtType(G))
      /\ Tail(t) \in Seq(StmtType(G)) /\ Len(Tail(t)) = Len(t) - 1
  BY Rest DEF TodoInv
<1>2. 1 \in 1..Len(t)
  BY <1>1
<1>3. Len(t) = 1
  BY <1>1, <1>2 DEF TodoInv, DeletesAlone
<1>4. Tail(t) = <<>>
  <2>1. Len(Tail(t)) = 0
    BY <1>1, <1>3
  <2> QED
    BY <1>1, <2>1, EmptySeq
<1> DEFINE x == [op |-> "delete_next", fd |-> Head(t).fd, arg |-> NULL]
<1>5. Head(t) \in StmtType(G) /\ Head(t).op \in DeleteOps
  BY <1>1, <1>2
<1>6. Head(t).fd \in G
  BY <1>5 DEF StmtType, DeleteOps
<1>7. x \in StmtType(G) /\ x.op = "delete_next" /\ x.fd = Head(t).fd /\ ~Reopens(x)
  BY <1>6 DEF StmtType, Reopens
<1>8. d = <<x>>
  BY DEF Stmt
<1> HIDE DEF x
<1>9. d \in Seq(StmtType(G)) /\ Len(d) = 1 /\ d[1] = x /\ d # <<>> /\ Head(d) = x
  <2>1. /\ <<x>> \in Seq(StmtType(G)) /\ Len(<<x>>) = 1 /\ <<x>>[1] = x
        /\ <<x>> # <<>> /\ Head(<<x>>) = x
    BY <1>7
  <2> QED
    BY <1>8, <2>1
<1>10. Grammar(d)
  BY <1>7, <1>9 DEF Grammar, Openers
<1>11. DeletesAlone(d) /\ OneClient(d)
  <2>1. Len(d) = 1
    BY <1>9
  <2>2. \A i \in 1..Len(d) : i = 1 /\ i = Len(d)
    <3>1. \A i \in 1..1 : i = 1
      OBVIOUS
    <3> QED
      BY <2>1, <3>1, Zenon
  <2>3. \A i \in 1..Len(d) : \A j \in 1..Len(d) : ~(j < i) /\ d[i] = d[j]
    BY <2>2
  <2>4. DeletesAlone(d)
    BY <2>2, <2>3 DEF DeletesAlone
  <2>5. OneClient(d)
    BY <2>3 DEF OneClient
  <2> QED
    BY <2>4, <2>5
<1>12. TodoInv(d, G)
  BY <1>9, <1>10, <1>11 DEF TodoInv
<1>13. \A st : StopInv(t, st) => StopInv(d, st)
  BY <1>7, <1>9 DEF StopInv
<1> QED
  BY <1>1, <1>3, <1>4, <1>7, <1>9, <1>12, <1>13 DEF Pc

LEMMA DeleteFirstList ==
  ASSUME NEW G, NEW h, NEW f, NEW a, NEW r, NEW t, NEW s, TodoInv(t, G), t # <<>>,
         ListInv(h, f, a, r, t, s), Head(t).op = "delete", r.ptr = NULL,
         NEW d, d = Stmt("delete_next", Head(t).fd, NULL),
         NEW q, q = [r EXCEPT !.ptr = f]
  PROVE  /\ ListInv(h, f, a, q, d, s)
         /\ \A st : DeleteInv(h, s, r, t, st) => DeleteInv(h, s, q, d, st)
<1>1. /\ HeapType(h, a) /\ Chain(h, f, s) /\ r \in RegType /\ Kept(h, s, r)
      /\ Cleared(r)
  BY DEF ListInv, RegInv, Pc, Conts
<1>2. /\ Len(t) = 1 /\ t[1] = Head(t) /\ Pc(d) = "delete_next" /\ Len(d) = 1
      /\ d[1].op = "delete_next" /\ d[1].fd = Head(t).fd /\ Head(d) = d[1]
  BY DeleteTodo DEF DeleteOps
<1>3. /\ Len(s) \in Nat /\ (f = NULL <=> s = <<>>)
      /\ \A i \in 1..Len(s) : s[i] \in Nat
  BY <1>1, ChainFacts
<1>4. s # <<>> => 1 \in 1..Len(s) /\ f = s[1]
  BY <1>1, <1>3 DEF Chain
<1>5. f \in Nat
  BY <1>3, <1>4 DEF NULL
<1>6. q \in RegType /\ q.item = r.item /\ q.last = r.last /\ q.next = r.next /\ q.ptr = f
  BY <1>1, <1>5 DEF RegType
<1>7. RegInv(h, s, q, Pc(d))
  BY <1>1, <1>2, <1>6 DEF RegInv, Cleared, Conts
<1>8. PtrInv(h, s, q, d)
  BY <1>2, <1>3, <1>4, <1>6 DEF PtrInv, InList
<1>9. Kept(h, s, q)
  BY <1>1, <1>6 DEF Kept
<1>10. ListInv(h, f, a, q, d, s)
  BY <1>1, <1>7, <1>8, <1>9 DEF ListInv
<1>11. ASSUME NEW st, DeleteInv(h, s, r, t, st)
       PROVE  DeleteInv(h, s, q, d, st)
  <2>1. \A i \in 1..Len(s) : Ahead(h, s, q, d, i)
    <3> SUFFICES ASSUME NEW i \in 1..Len(s) PROVE Ahead(h, s, q, d, i)
      OBVIOUS
    <3>1. 1 \in 1..i /\ s # <<>>
      BY <1>3
    <3> QED
      BY <1>3, <1>4, <1>6, <3>1 DEF Ahead
  <2> QED
    BY <1>2, <1>11, <2>1 DEF DeleteInv
<1> QED
  BY <1>10, <1>11

(* ptr points to a message of another client. *)
LEMMA DeleteSkipList ==
  ASSUME NEW G, NEW h, NEW f, NEW a, NEW r, NEW t, NEW s, TodoInv(t, G), t # <<>>,
         ListInv(h, f, a, r, t, s), Head(t).op = "delete_next", r.ptr # NULL,
         h[r.ptr].sockfd # Head(t).fd,
         NEW d, d = Stmt("delete_next", Head(t).fd, NULL),
         NEW q, q = [r EXCEPT !.ptr = h[r.ptr].next]
  PROVE  /\ ListInv(h, f, a, q, d, s)
         /\ \A st : DeleteInv(h, s, r, t, st) => DeleteInv(h, s, q, d, st)
<1>1. /\ HeapType(h, a) /\ Chain(h, f, s) /\ r \in RegType /\ Kept(h, s, r)
      /\ Cleared(r) /\ InList(s, r.ptr)
  BY DEF ListInv, RegInv, PtrInv, Pc, Conts
<1>2. /\ Len(t) = 1 /\ t[1] = Head(t) /\ Pc(d) = "delete_next" /\ Len(d) = 1
      /\ d[1].op = "delete_next" /\ d[1].fd = Head(t).fd /\ Head(d) = d[1]
  BY DeleteTodo DEF DeleteOps
<1>3. /\ Len(s) \in Nat
      /\ \A i \in 1..Len(s) : s[i] \in Nat /\ s[i] # NULL /\ s[i] \in DOMAIN h
      /\ \A i \in 1..Len(s) : \A j \in 1..Len(s) : s[i] = s[j] => i = j
  BY <1>1, ChainFacts
<1>4. PICK p \in 1..Len(s) : s[p] = r.ptr
  BY <1>1 DEF InList
<1>5. h[r.ptr].next = IF p < Len(s) THEN s[p + 1] ELSE NULL
  BY <1>1, <1>4 DEF Chain
<1>6. p < Len(s) => p + 1 \in 1..Len(s)
  BY <1>3
<1>7. /\ q \in RegType /\ q.item = r.item /\ q.last = r.last /\ q.next = r.next
      /\ q.ptr = IF p < Len(s) THEN s[p + 1] ELSE NULL
  <2>1. h[r.ptr].next \in Nat
    BY <1>3, <1>5, <1>6 DEF NULL
  <2>2. /\ q \in RegType /\ q.item = r.item /\ q.last = r.last /\ q.next = r.next
        /\ q.ptr = h[r.ptr].next
    BY <1>1, <2>1 DEF RegType
  <2> QED
    BY <1>5, <2>2
<1>8. RegInv(h, s, q, Pc(d))
  BY <1>1, <1>2, <1>7 DEF RegInv, Cleared, Conts
<1>9. PtrInv(h, s, q, d)
  BY <1>2, <1>6, <1>7 DEF PtrInv, InList
<1>10. Kept(h, s, q)
  BY <1>1, <1>7 DEF Kept
<1>11. ListInv(h, f, a, q, d, s)
  BY <1>1, <1>8, <1>9, <1>10 DEF ListInv
<1>12. ASSUME NEW st, DeleteInv(h, s, r, t, st)
       PROVE  DeleteInv(h, s, q, d, st)
  <2>1. ASSUME NEW i \in 1..Len(s), h[s[i]].sockfd = Head(t).fd
        PROVE  Ahead(h, s, q, d, i)
    <3>1. 1 \in 1..Len(t) /\ t[1].op \in DeleteOps
      BY <1>2 DEF DeleteOps
    <3>2. Ahead(h, s, r, t, i)
      BY <1>2, <1>12, <2>1, <3>1 DEF DeleteInv
    <3>3. PICK j \in 1..i : s[j] = r.ptr
      BY <3>2 DEF Ahead
    <3>4. j \in 1..Len(s)
      BY <1>3
    <3>5. j = p /\ i # p
      BY <1>3, <1>4, <2>1, <3>3, <3>4
    <3>6. p < Len(s) /\ p + 1 \in 1..i /\ p + 1 \in 1..Len(s)
      BY <1>3, <3>5
    <3>7. q.ptr = s[p + 1] /\ q.ptr # NULL
      BY <1>3, <1>7, <3>6
    <3> QED
      BY <3>6, <3>7 DEF Ahead
  <2>2. \A k \in 1..Len(d) : d[k].op \in DeleteOps => d[k].fd = Head(t).fd
    BY <1>2
  <2>3. Pc(d) \notin {"add_walk", "add_link"}
    BY <1>2
  <2> QED
    BY <1>12, <2>1, <2>2, <2>3 DEF DeleteInv
<1> QED
  BY <1>11, <1>12

(* ptr points to a message of the client, which is removed next. *)
LEMMA DeleteOwnList ==
  ASSUME NEW G, NEW h, NEW f, NEW a, NEW r, NEW t, NEW s, TodoInv(t, G), t # <<>>,
         ListInv(h, f, a, r, t, s), Head(t).op = "delete_next", r.ptr # NULL,
         NEW u, TodoInv(u, G), Pc(u) = "remove_read", Head(u).arg = h[r.ptr].id,
         \E i \in 1..Len(u) : u[i].op = "delete_next",
         \A i \in 1..Len(u) : u[i].op \in DeleteOps => u[i].fd = Head(t).fd,
         NEW q, q = [r EXCEPT !.ptr = h[r.ptr].next]
  PROVE  /\ ListInv(h, f, a, q, u, s)
         /\ \A st : DeleteInv(h, s, r, t, st) => DeleteInv(h, s, q, u, st)
<1>1. /\ HeapType(h, a) /\ Chain(h, f, s) /\ r \in RegType /\ Kept(h, s, r)
      /\ Cleared(r) /\ InList(s, r.ptr)
  BY DEF ListInv, RegInv, PtrInv, Pc, Conts
<1>2. Len(t) = 1 /\ t[1] = Head(t)
  BY DeleteTodo DEF DeleteOps
<1>3. /\ Len(s) \in Nat
      /\ \A i \in 1..Len(s) : s[i] \in Nat /\ s[i] # NULL /\ s[i] \in DOMAIN h
      /\ \A i \in 1..Len(s) : \A j \in 1..Len(s) : s[i] = s[j] => i = j
  BY <1>1, ChainFacts
<1>4. PICK p \in 1..Len(s) : s[p] = r.ptr
  BY <1>1 DEF InList
<1>5. h[r.ptr].next = IF p < Len(s) THEN s[p + 1] ELSE NULL
  BY <1>1, <1>4 DEF Chain
<1>6. p < Len(s) => p + 1 \in 1..Len(s) /\ p \in 1..(Len(s) - 1)
  BY <1>3
<1>7. /\ q \in RegType /\ q.item = r.item /\ q.last = r.last /\ q.next = r.next
      /\ q.ptr = IF p < Len(s) THEN s[p + 1] ELSE NULL
  <2>1. h[r.ptr].next \in Nat
    BY <1>3, <1>5, <1>6 DEF NULL
  <2>2. /\ q \in RegType /\ q.item = r.item /\ q.last = r.last /\ q.next = r.next
        /\ q.ptr = h[r.ptr].next
    BY <1>1, <2>1 DEF RegType
  <2> QED
    BY <1>5, <2>2
<1>8. RegInv(h, s, q, Pc(u))
  BY <1>1, <1>7 DEF RegInv, Cleared, Conts
<1>9. PtrInv(h, s, q, u)
  BY <1>4, <1>6, <1>7 DEF PtrInv, InList
<1>10. Kept(h, s, q)
  BY <1>1, <1>7 DEF Kept
<1>11. ListInv(h, f, a, q, u, s)
  BY <1>1, <1>8, <1>9, <1>10 DEF ListInv
<1>12. ASSUME NEW st, DeleteInv(h, s, r, t, st)
       PROVE  DeleteInv(h, s, q, u, st)
  <2>1. ASSUME NEW i \in 1..Len(s), h[s[i]].sockfd = Head(t).fd
        PROVE  Ahead(h, s, q, u, i)
    <3>1. 1 \in 1..Len(t) /\ t[1].op \in DeleteOps
      BY <1>2 DEF DeleteOps
    <3>2. Ahead(h, s, r, t, i)
      BY <1>2, <1>12, <2>1, <3>1 DEF DeleteInv
    <3>3. PICK j \in 1..i : s[j] = r.ptr
      BY <3>2 DEF Ahead
    <3>4. j \in 1..Len(s)
      BY <1>3
    <3>5. j = p
      BY <1>3, <1>4, <3>3, <3>4
    <3>6. CASE i = p
      <4>1. u # <<>> /\ Head(u).op = "remove_read"
        BY DEF Pc
      <4> QED
        BY <1>4, <3>6, <4>1 DEF Ahead
    <3>7. CASE i # p
      <4>1. p < Len(s) /\ p + 1 \in 1..i /\ p + 1 \in 1..Len(s)
        BY <1>3, <3>5, <3>7
      <4>2. q.ptr = s[p + 1] /\ q.ptr # NULL
        BY <1>3, <1>7, <4>1
      <4> QED
        BY <4>1, <4>2 DEF Ahead
    <3> QED
      BY <3>6, <3>7
  <2> QED
    BY <1>12, <2>1 DEF DeleteInv
<1> QED
  BY <1>11, <1>12

(* The client is removed when none of its messages is left. *)
LEMMA DeleteEndList ==
  ASSUME NEW G, NEW h, NEW f, NEW a, NEW r, NEW t, NEW s, TodoInv(t, G), t # <<>>,
         ListInv(h, f, a, r, t, s), Head(t).op = "delete_next", r.ptr = NULL
  PROVE  /\ ListInv(h, f, a, r, <<>>, s)
         /\ \A st : DeleteInv(h, s, r, t, st) /\ st \in [Fd -> States] =>
              DeleteInv(h, s, r, <<>>, [st EXCEPT ![Head(t).fd] = "none"])
<1>1. Len(t) = 1 /\ t[1] = Head(t)
  BY DeleteTodo DEF DeleteOps
<1>2. Pc(t) = "delete_next" /\ Pc(<<>>) = "idle"
  BY DEF Pc
<1>3. ListInv(h, f, a, r, <<>>, s)
  <2>1. r \in RegType /\ SameReg(r, r)
    BY DEF ListInv, RegInv, SameReg
  <2> QED
    BY <1>2, <2>1, QuietList DEF Conts
<1>4. ASSUME NEW st, DeleteInv(h, s, r, t, st), st \in [Fd -> States]
      PROVE  DeleteInv(h, s, r, <<>>, [st EXCEPT ![Head(t).fd] = "none"])
  <2>1. 1 \in 1..Len(t) /\ t[1].op \in DeleteOps
    BY <1>1 DEF DeleteOps
  <2>2. \A i \in 1..Len(s) : h[s[i]].sockfd # Head(t).fd
    <3> SUFFICES ASSUME NEW i \in 1..Len(s), h[s[i]].sockfd = Head(t).fd PROVE FALSE
      OBVIOUS
    <3>1. Ahead(h, s, r, t, i)
      BY <1>1, <1>4, <2>1 DEF DeleteInv
    <3> QED
      BY <3>1 DEF Ahead
  <2>3. \A i \in 1..Len(s) : h[s[i]].sockfd \in Fd
    BY ChainFacts DEF ListInv, ItemType
  <2>4. \A i \in 1..Len(s) : [st EXCEPT ![Head(t).fd] = "none"][h[s[i]].sockfd] # "none"
    BY <1>4, <2>2, <2>3 DEF DeleteInv
  <2> QED
    BY <1>2, <1>4, <2>4 DEF DeleteInv
<1> QED
  BY <1>3, <1>4

-----------------------------------------------------------------------------
(* What SIGINT does to the list *)

(* s2 is s with a new item at its end. *)
Appended(h, a, s, item, h2, s2) ==
  /\ Len(s2) = Len(s) + 1 /\ s2[Len(s) + 1] = a + 1
  /\ \A i \in 1..Len(s) : s2[i] = s[i]
  /\ DOMAIN h2 = DOMAIN h \cup {a + 1} /\ a + 1 \notin DOMAIN h
  /\ \A m \in DOMAIN h : SameItem(h2[m], h[m])
  /\ SameItem(h2[a + 1], item)

LEMMA AppendList ==
  ASSUME NEW h, NEW f, NEW a, NEW r, NEW t, NEW s, ListInv(h, f, a, r, t, s),
         NEW item \in ItemType, item.next = NULL, item.by = "sigint",
         NEW h1, h1 = Allocated(h, a + 1, item),
         NEW last, last = queue_last(h, f),
         NEW h2, h2 = IF last = NULL THEN h1 ELSE Linked(h1, last, a + 1),
         NEW f2, f2 = IF last = NULL THEN a + 1 ELSE f
  PROVE  \E s2 : ListInv(h2, f2, a + 1, r, t, s2) /\ Appended(h, a, s, item, h2, s2)
<1>1. /\ HeapType(h, a) /\ Chain(h, f, s) /\ RegInv(h, s, r, Pc(t))
      /\ PtrInv(h, s, r, t) /\ Kept(h, s, r)
  BY DEF ListInv
<1>2. /\ Len(s) \in Nat /\ (f = NULL <=> s = <<>>) /\ s \in Seq(DOMAIN h)
      /\ \A i \in 1..Len(s) : s[i] \in DOMAIN h /\ s[i] # NULL
      /\ \A i \in 1..Len(s) : \A j \in 1..Len(s) : s[i] = s[j] => i = j
      /\ \A m \in DOMAIN h : m \in Nat /\ m # NULL
  BY <1>1, ChainFacts
<1>3. /\ HeapType(h1, a + 1) /\ Chain(h1, f, s)
      /\ a + 1 \notin DOMAIN h /\ DOMAIN h1 = DOMAIN h \cup {a + 1}
      /\ \A m \in DOMAIN h : h1[m] = h[m]
      /\ h1[a + 1] = item
      /\ \A i \in 1..Len(s) : s[i] # a + 1
  <2>1. Grown(h, a, f, s, item, h1)
    BY <1>1, AllocKeeps
  <2> QED
    BY <2>1 DEF Grown
<1>4. last = IF Len(s) = 0 THEN NULL ELSE s[Len(s)]
  <2>1. s = <<>> <=> Len(s) = 0
    BY <1>2
  <2>2. Items(h, f) = s
    BY <1>1, ListIs
  <2> QED
    BY <1>2, <2>1, <2>2 DEF queue_last, Last
<1> DEFINE s2 == LinkedAt(s, Len(s), a + 1)
<1>5. Longer(h1, a + 1, s, Len(s), a + 1, h2, f2, s2)
  <2>1. Len(s) \in 0..Len(s) /\ a + 1 \in DOMAIN h1 /\ h1[a + 1].next = NULL
    BY <1>2, <1>3
  <2> QED
    BY <1>3, <1>4, <2>1, LinkKeeps
<1> HIDE DEF s2
<1>6. /\ HeapType(h2, a + 1) /\ Chain(h2, f2, s2)
      /\ DOMAIN h2 = DOMAIN h1
      /\ \A k \in DOMAIN h1 : SameItem(h2[k], h1[k])
      /\ \A k \in DOMAIN h1 : (\A i \in 1..Len(s) : s[i] # k) => h2[k] = h1[k]
      /\ Len(s2) = Len(s) + 1 /\ s2[Len(s) + 1] = a + 1
      /\ \A i \in 1..Len(s) : s2[i] = s[i]
  BY <1>5 DEF Longer
<1>7. \A m \in DOMAIN h : SameItem(h2[m], h[m])
  BY <1>3, <1>6
<1>8. SameItem(h2[a + 1], item)
  BY <1>3, <1>6
<1>9. Appended(h, a, s, item, h2, s2)
  BY <1>3, <1>6, <1>7, <1>8 DEF Appended
<1>10. \A i \in 1..Len(s2) : i \in 1..Len(s) \/ i = Len(s) + 1
  BY <1>2, <1>6
<1>11. \A i \in 1..Len(s) : i \in 1..Len(s2)
  BY <1>2, <1>6
<1>12. Fresh(h, s, r) => Fresh(h2, s2, r)
  <2> SUFFICES ASSUME Fresh(h, s, r) PROVE Fresh(h2, s2, r)
    OBVIOUS
  <2>1. r.item \in DOMAIN h /\ r.item \in DOMAIN h2 /\ r.item # a + 1
    BY <1>3, <1>6 DEF Fresh
  <2>2. h2[r.item] = h[r.item]
    BY <1>3, <1>6, <2>1 DEF Fresh
  <2>3. \A i \in 1..Len(s2) : s2[i] # r.item
    BY <1>6, <1>10, <2>1 DEF Fresh
  <2> QED
    BY <2>1, <2>2, <2>3 DEF Fresh
<1>13. ASSUME NEW p \in Nat, SigintBehind(h, s, p)
       PROVE  SigintBehind(h2, s2, p)
  <2> SUFFICES ASSUME NEW k \in (p + 1)..Len(s2) PROVE h2[s2[k]].by = "sigint"
    BY DEF SigintBehind
  <2>1. CASE k = Len(s) + 1
    BY <1>6, <1>8, <2>1 DEF SameItem
  <2>2. CASE k # Len(s) + 1
    <3>1. k \in (p + 1)..Len(s) /\ k \in 1..Len(s)
      BY <1>2, <1>6, <2>2
    <3> QED
      BY <1>2, <1>6, <1>7, <1>13, <3>1 DEF SigintBehind, SameItem
  <2> QED
    BY <2>1, <2>2
<1>14. FoundLast(h, s, r) => FoundLast(h2, s2, r)
  <2> SUFFICES ASSUME FoundLast(h, s, r) PROVE FoundLast(h2, s2, r)
    OBVIOUS
  <2>1. PICK p \in 0..Len(s) :
          r.last = (IF p = 0 THEN NULL ELSE s[p]) /\ SigintBehind(h, s, p)
    BY DEF FoundLast
  <2>2. p \in 0..Len(s2) /\ p \in Nat /\ (p # 0 => s2[p] = s[p])
    BY <1>2, <1>6
  <2>3. SigintBehind(h2, s2, p)
    BY <1>13, <2>1, <2>2
  <2> QED
    BY <2>1, <2>2, <2>3 DEF FoundLast
<1>15. FoundItem(h, s, r) => FoundItem(h2, s2, r)
  <2> SUFFICES ASSUME FoundItem(h, s, r) PROVE FoundItem(h2, s2, r)
    OBVIOUS
  <2>1. PICK p \in 1..Len(s) :
          /\ r.item = s[p]
          /\ r.last = IF p = 1 THEN NULL ELSE s[p - 1]
          /\ \/ r.next = IF p < Len(s) THEN s[p + 1] ELSE NULL
             \/ r.next = NULL /\ SigintBehind(h, s, p) /\ r.ptr = NULL
          /\ r.ptr # NULL => \E k \in (p + 1)..Len(s) : s[k] = r.ptr
    BY DEF FoundItem
  <2>2. /\ p \in Nat /\ p \in 1..Len(s2) /\ s2[p] = s[p]
        /\ p # 1 => p - 1 \in 1..Len(s) /\ s2[p - 1] = s[p - 1]
    BY <1>2, <1>6
  <2>3. r.ptr # NULL => \E k \in (p + 1)..Len(s2) : s2[k] = r.ptr
    <3>1. \A k \in (p + 1)..Len(s) : k \in (p + 1)..Len(s2) /\ s2[k] = s[k]
      BY <1>2, <1>6, <2>2
    <3> QED
      BY <2>1, <3>1
  <2>4. \/ r.next = IF p < Len(s2) THEN s2[p + 1] ELSE NULL
        \/ r.next = NULL /\ SigintBehind(h2, s2, p) /\ r.ptr = NULL
    <3>1. CASE r.next = NULL /\ SigintBehind(h, s, p) /\ r.ptr = NULL
      BY <1>13, <2>2, <3>1
    <3>2. CASE p < Len(s) /\ r.next = s[p + 1]
      <4>1. p + 1 \in 1..Len(s) /\ p < Len(s2)
        BY <1>2, <1>6, <2>2, <3>2
      <4> QED
        BY <1>6, <3>2, <4>1
    <3>3. CASE ~(p < Len(s)) /\ r.next = NULL
      <4>1. \A k \in (p + 1)..Len(s) : FALSE
        BY <1>2, <2>2, <3>3
      <4>2. r.ptr = NULL
        BY <2>1, <4>1
      <4>3. SigintBehind(h, s, p)
        BY <4>1 DEF SigintBehind
      <4> QED
        BY <1>13, <2>2, <3>3, <4>2, <4>3
    <3> QED
      BY <2>1, <3>1, <3>2, <3>3
  <2> QED
    BY <2>1, <2>2, <2>3, <2>4 DEF FoundItem
<1>16. \A n : InList(s, n) => InList(s2, n)
  BY <1>6, <1>11 DEF InList
<1>17. RegInv(h2, s2, r, Pc(t))
  <2>1. s2 # <<>>
    <3>1. Len(s2) # 0
      BY <1>2, <1>6
    <3> QED
      BY <3>1, EmptySeq
  <2>2. r.item \in DOMAIN h /\ (\A i \in 1..Len(s) : s[i] # r.item)
          => r.item \in DOMAIN h2 /\ \A i \in 1..Len(s2) : s2[i] # r.item
    BY <1>3, <1>6, <1>10
  <2> QED
    BY <1>1, <1>12, <1>14, <1>15, <1>16, <2>1, <2>2 DEF RegInv
<1>18. PtrInv(h2, s2, r, t)
  <2>1. ASSUME NEW k \in 1..(Len(s) - 1)
        PROVE  /\ k \in 1..(Len(s2) - 1) /\ s2[k + 1] = s[k + 1]
               /\ h2[s2[k]].id = h[s[k]].id
    <3>1. k \in 1..(Len(s2) - 1) /\ k \in 1..Len(s) /\ k + 1 \in 1..Len(s)
      BY <1>2, <1>6
    <3> QED
      BY <1>2, <1>6, <1>7, <3>1 DEF SameItem
  <2> QED
    BY <1>1, <1>16, <2>1 DEF PtrInv
<1>19. Kept(h2, s2, r)
  <2> SUFFICES ASSUME NEW m \in DOMAIN h2, \A i \in 1..Len(s2) : s2[i] # m
               PROVE  m = r.item \/ h2[m].by = "sigint"
    BY DEF Kept
  <2>1. m # a + 1 /\ m \in DOMAIN h
    <3>1. Len(s) + 1 \in 1..Len(s2)
      BY <1>2, <1>6
    <3> QED
      BY <1>3, <1>6, <3>1
  <2>2. \A i \in 1..Len(s) : s[i] # m
    BY <1>6, <1>11
  <2> QED
    BY <1>1, <1>7, <2>1, <2>2 DEF Kept, SameItem
<1>20. ListInv(h2, f2, a + 1, r, t, s2)
  BY <1>6, <1>17, <1>18, <1>19 DEF ListInv
<1> QED
  BY <1>9, <1>20

(* The function AllEnded is defined by. *)
Ends(g, x, c, n) == g = [i \in 0..n |-> IF i = 0 THEN x ELSE Ended(g[i - 1], c[i])]

LEMMA EndsExists ==
  ASSUME NEW x, NEW c, NEW n \in Nat
  PROVE  \E g : Ends(g, x, c, n)
<1> DEFINE S == {k \in Nat : \E g : Ends(g, x, c, k)}
<1>1. 0 \in S
  <2> DEFINE g == [i \in 0..0 |-> x]
  <2>1. \A i \in 0..0 : g[i] = IF i = 0 THEN x ELSE Ended(g[i - 1], c[i])
    OBVIOUS
  <2>2. g = [i \in 0..0 |-> g[i]]
    OBVIOUS
  <2> HIDE DEF g
  <2>3. Ends(g, x, c, 0)
    BY <2>1, <2>2 DEF Ends
  <2> QED
    BY <2>3
<1>2. ASSUME NEW k \in Nat, k \in S
      PROVE  k + 1 \in S
  <2>1. PICK f : Ends(f, x, c, k)
    BY <1>2
  <2> DEFINE g == [i \in 0..(k + 1) |-> IF i <= k THEN f[i] ELSE Ended(f[i - 1], c[i])]
  <2>2. \A i \in 0..k : f[i] = IF i = 0 THEN x ELSE Ended(f[i - 1], c[i])
    BY <2>1 DEF Ends
  <2>3. \A i \in 0..(k + 1) : i # 0 => g[i - 1] = f[i - 1]
    OBVIOUS
  <2>4. \A i \in 0..(k + 1) : g[i] = IF i = 0 THEN x ELSE Ended(g[i - 1], c[i])
    BY <2>2, <2>3
  <2>5. g = [i \in 0..(k + 1) |-> g[i]]
    OBVIOUS
  <2> HIDE DEF g
  <2>6. Ends(g, x, c, k + 1)
    BY <2>4, <2>5 DEF Ends
  <2> QED
    BY <2>6
<1> HIDE DEF S
<1>3. n \in S
  BY <1>1, <1>2, AllNat
<1> QED
  BY <1>3 DEF S

LEMMA EndsFacts ==
  ASSUME NEW g, NEW x, NEW c, NEW n \in Nat, Ends(g, x, c, n)
  PROVE  g[0] = x /\ \A i \in 1..n : g[i] = Ended(g[i - 1], c[i])
<1>1. \A i \in 0..n : g[i] = IF i = 0 THEN x ELSE Ended(g[i - 1], c[i])
  BY DEF Ends
<1>2. 0 \in 0..n /\ \A i \in 1..n : i \in 0..n /\ i # 0
  OBVIOUS
<1> QED
  BY <1>1, <1>2

(* What SIGINT starts from. *)
Now == [state |-> state, msg_cnt |-> msg_cnt, heap |-> heap,
        allocs |-> allocs, first |-> first]

LEMMA AllEndedIs ==
  ASSUME Len(clients) \in Nat
  PROVE  \E g : Ends(g, Now, clients, Len(clients)) /\ AllEnded = g[Len(clients)]
<1> DEFINE f == CHOOSE g : Ends(g, Now, clients, Len(clients))
<1>1. Ends(f, Now, clients, Len(clients))
  BY EndsExists
<1>2. AllEnded = f[Len(clients)]
  BY DEF AllEnded, Ends, Now
<1> QED
  BY <1>1, <1>2

(* b is what SIGINT has made of a and the list s when it has ended the     *)
(* first i clients of c: s2 is s with new messages at its end, all for     *)
(* clients that had not ended.                                             *)
Ending(a, s, r, t, c, i, b, s2) ==
  /\ b.msg_cnt \in Id /\ b.state \in [Fd -> States]
  /\ ListInv(b.heap, b.first, b.allocs, r, t, s2)
  /\ \A f \in Fd : b.state[f] = IF \E j \in 1..i : c[j] = f THEN "s_en" ELSE a.state[f]
  /\ Len(s) <= Len(s2) /\ \A k \in 1..Len(s) : s2[k] = s[k]
  /\ DOMAIN a.heap \subseteq DOMAIN b.heap
  /\ \A m \in DOMAIN a.heap : SameItem(b.heap[m], a.heap[m])
  /\ \A k \in (Len(s) + 1)..Len(s2) :
       s2[k] \notin DOMAIN a.heap /\ a.state[b.heap[s2[k]].sockfd] \notin {"none", "s_en"}

LEMMA EndOne ==
  ASSUME NEW a, NEW s, NEW r, NEW t, NEW c, NEW i \in Nat, NEW b, NEW s2,
         Ending(a, s, r, t, c, i, b, s2), Len(s) \in Nat,
         c[i + 1] \in Fd, a.state[c[i + 1]] # "none"
  PROVE  \E s3 : Ending(a, s, r, t, c, i + 1, Ended(b, c[i + 1]), s3)
<1> DEFINE f == c[i + 1]
           e == Ended(b, f)
<1>1. /\ b.msg_cnt \in Id /\ b.state \in [Fd -> States]
      /\ ListInv(b.heap, b.first, b.allocs, r, t, s2)
      /\ \A g \in Fd : b.state[g] = IF \E j \in 1..i : c[j] = g THEN "s_en" ELSE a.state[g]
      /\ Len(s) <= Len(s2) /\ \A k \in 1..Len(s) : s2[k] = s[k]
      /\ DOMAIN a.heap \subseteq DOMAIN b.heap
      /\ \A m \in DOMAIN a.heap : SameItem(b.heap[m], a.heap[m])
      /\ \A k \in (Len(s) + 1)..Len(s2) :
           s2[k] \notin DOMAIN a.heap /\ a.state[b.heap[s2[k]].sockfd] \notin {"none", "s_en"}
  BY DEF Ending
<1>2. \A g \in Fd : (\E j \in 1..(i + 1) : c[j] = g) <=> ((\E j \in 1..i : c[j] = g) \/ g = f)
  <2>1. \A j \in 1..(i + 1) : j \in 1..i \/ j = i + 1
    OBVIOUS
  <2>2. i + 1 \in 1..(i + 1) /\ \A j \in 1..i : j \in 1..(i + 1)
    OBVIOUS
  <2> QED
    BY <2>1, <2>2
<1>3. CASE b.state[f] = "s_en"
  <2>1. e = b
    BY <1>3 DEF Ended
  <2> HIDE DEF e
  <2>2. \A g \in Fd : b.state[g] = IF \E j \in 1..(i + 1) : c[j] = g THEN "s_en" ELSE a.state[g]
    BY <1>1, <1>2, <1>3
  <2>3. Ending(a, s, r, t, c, i + 1, b, s2)
    BY <1>1, <2>2 DEF Ending
  <2> QED
    BY <2>1, <2>3 DEF e
<1>4. CASE b.state[f] # "s_en"
  <2> DEFINE n == b.allocs + 1
             item == Item(b.msg_cnt, f, "e_bye", "sigint")
             h == Allocated(b.heap, n, item)
             last == queue_last(b.heap, b.first)
             h2 == IF last = NULL THEN h ELSE Linked(h, last, n)
             f2 == IF last = NULL THEN n ELSE b.first
  <2>1. /\ e.state = [b.state EXCEPT ![f] = "s_en"]
        /\ e.msg_cnt = (b.msg_cnt + 1) % WIDTH
        /\ e.heap = h2 /\ e.allocs = n /\ e.first = f2
    BY <1>4 DEF Ended
  <2>2. item \in ItemType /\ item.next = NULL /\ item.by = "sigint" /\ item.sockfd = f
    BY <1>1 DEF Item, ItemType, MsgType, NULL
  <2> HIDE DEF e, h, last, h2, f2, item
  <2>3. PICK s3 : ListInv(h2, f2, n, r, t, s3) /\ Appended(b.heap, b.allocs, s2, item, h2, s3)
    BY <1>1, <2>2, AppendList DEF h, last, h2, f2
  <2>4. /\ Len(s3) = Len(s2) + 1 /\ s3[Len(s2) + 1] = n
        /\ \A k \in 1..Len(s2) : s3[k] = s2[k]
        /\ DOMAIN h2 = DOMAIN b.heap \cup {n} /\ n \notin DOMAIN b.heap
        /\ \A m \in DOMAIN b.heap : SameItem(h2[m], b.heap[m])
        /\ SameItem(h2[n], item)
    BY <2>3 DEF Appended
  <2>5. Len(s2) \in Nat /\ \A k \in 1..Len(s2) : s2[k] \in DOMAIN b.heap
    BY <1>1, ChainFacts DEF ListInv
  <2>6. e.state \in [Fd -> States]
    BY <1>1, <2>1 DEF States
  <2>7. \A g \in Fd : e.state[g] = IF \E j \in 1..(i + 1) : c[j] = g THEN "s_en" ELSE a.state[g]
    BY <1>1, <1>2, <2>1
  <2>8. e.msg_cnt \in Id
    BY <1>1, <2>1, ProcessAssumption DEF Id
  <2>9. Len(s) <= Len(s3) /\ \A k \in 1..Len(s) : s3[k] = s[k]
    <3>1. \A k \in 1..Len(s) : k \in 1..Len(s2)
      BY <1>1, <2>5
    <3> QED
      BY <1>1, <2>4, <2>5, <3>1
  <2>10. DOMAIN a.heap \subseteq DOMAIN h2 /\ \A m \in DOMAIN a.heap : SameItem(h2[m], a.heap[m])
    BY <1>1, <2>4 DEF SameItem
  <2>11. ASSUME NEW k \in (Len(s) + 1)..Len(s3)
         PROVE  s3[k] \notin DOMAIN a.heap /\ a.state[h2[s3[k]].sockfd] \notin {"none", "s_en"}
    <3>1. CASE k \in (Len(s) + 1)..Len(s2)
      <4>1. k \in 1..Len(s2)
        BY <2>5, <3>1
      <4>2. s3[k] = s2[k] /\ s2[k] \in DOMAIN b.heap
        BY <2>4, <2>5, <4>1
      <4>3. h2[s2[k]].sockfd = b.heap[s2[k]].sockfd
        BY <2>4, <4>2 DEF SameItem
      <4> QED
        BY <1>1, <3>1, <4>2, <4>3
    <3>2. CASE k = Len(s2) + 1
      <4>1. s3[k] = n /\ h2[n].sockfd = f
        BY <2>2, <2>4, <3>2 DEF SameItem
      <4>2. a.state[f] \notin {"none", "s_en"}
        BY <1>1, <1>4
      <4> QED
        BY <1>1, <2>4, <4>1, <4>2
    <3> QED
      BY <2>4, <2>5, <3>1, <3>2
  <2>12. Ending(a, s, r, t, c, i + 1, e, s3)
    BY <2>1, <2>3, <2>6, <2>7, <2>8, <2>9, <2>10, <2>11 DEF Ending
  <2> QED
    BY <2>12 DEF e
<1> QED
  BY <1>3, <1>4

(* What the whole handler does. *)
LEMMA AllEndedDoes ==
  ASSUME NEW s, ListInv(heap, first, allocs, reg, todo, s),
         ClientInv(clients, state), msg_cnt \in Id
  PROVE  \E s2 : Ending(Now, s, reg, todo, clients, Len(clients), AllEnded, s2)
<1>1. clients \in Seq(Fd) /\ Len(clients) \in Nat /\ state \in [Fd -> States]
  BY DEF ClientInv
<1>2. \A i \in 1..Len(clients) : clients[i] \in Fd /\ state[clients[i]] # "none"
  BY <1>1 DEF ClientInv
<1>3. Len(s) \in Nat
  BY ChainFacts DEF ListInv
<1>4. PICK g : Ends(g, Now, clients, Len(clients)) /\ AllEnded = g[Len(clients)]
  BY <1>1, AllEndedIs
<1>5. g[0] = Now /\ \A i \in 1..Len(clients) : g[i] = Ended(g[i - 1], clients[i])
  BY <1>1, <1>4, EndsFacts
<1> DEFINE S == {i \in Nat : i <= Len(clients) =>
                   \E s2 : Ending(Now, s, reg, todo, clients, i, g[i], s2)}
<1>6. 0 \in S
  <2>1. /\ Now.state = state /\ Now.msg_cnt = msg_cnt /\ Now.heap = heap
        /\ Now.allocs = allocs /\ Now.first = first
    BY DEF Now
  <2> HIDE DEF Now
  <2>2. Ending(Now, s, reg, todo, clients, 0, Now, s)
    <3>1. \A k \in (Len(s) + 1)..Len(s) : FALSE
      BY <1>3
    <3>2. \A j \in 1..0 : FALSE
      OBVIOUS
    <3>3. \A m \in DOMAIN heap : SameItem(heap[m], heap[m])
      BY DEF SameItem
    <3>4. Len(s) <= Len(s)
      BY <1>3
    <3> QED
      BY <1>1, <2>1, <3>1, <3>2, <3>3, <3>4 DEF Ending
  <2> QED
    BY <1>5, <2>2
<1>7. ASSUME NEW i \in Nat, i \in S
      PROVE  i + 1 \in S
  <2> SUFFICES ASSUME i + 1 <= Len(clients)
               PROVE  \E s2 : Ending(Now, s, reg, todo, clients, i + 1, g[i + 1], s2)
    OBVIOUS
  <2>1. i <= Len(clients) /\ i + 1 \in 1..Len(clients) /\ (i + 1) - 1 = i
    BY <1>1
  <2>2. PICK s2 : Ending(Now, s, reg, todo, clients, i, g[i], s2)
    BY <1>7, <2>1
  <2>3. clients[i + 1] \in Fd /\ Now.state[clients[i + 1]] # "none"
    BY <1>2, <2>1 DEF Now
  <2>4. g[i + 1] = Ended(g[i], clients[i + 1])
    BY <1>5, <2>1
  <2> HIDE DEF Now
  <2>5. \E s3 : Ending(Now, s, reg, todo, clients, i + 1, Ended(g[i], clients[i + 1]), s3)
    BY <1>3, <2>2, <2>3, EndOne
  <2> QED
    BY <2>4, <2>5
<1> HIDE DEF S
<1>8. \A i \in Nat : i \in S
  BY <1>6, <1>7, AllNat
<1>9. Len(clients) \in S
  BY <1>1, <1>8
<1> QED
  BY <1>1, <1>4, <1>9 DEF S

-----------------------------------------------------------------------------
(* Every statement keeps the invariant *)

(* The list of the next state is given by any sequence that is a list. *)
LEMMA InvNext ==
  ASSUME LifeInv', ClientInv(clients', state'), msg_cnt' \in Id,
         TodoInv(todo', Live(state')),
         \A k \in 1..Len(todo') : todo'[k].op \in DeleteOps => state'[todo'[k].fd] = "s_en",
         stop_flag' => StopInv(todo', state'),
         NEW s, ListInv(heap', first', allocs', reg', todo', s),
         ~clash' => DeleteInv(heap', s, reg', todo', state')
  PROVE  ProcInv'
<1>1. List' = s
  BY ListIs DEF ListInv, List
<1> QED
  BY <1>1 DEF ProcInv

(* What the type of the first statement of a handler says. *)
HeadFacts(t, G) ==
  /\ Head(t).op \in {"read_cnt", "write_cnt", "add_check", "add_walk", "add_link", "close"} =>
       Head(t).fd \in G /\ Head(t).arg \in MsgType
  /\ Head(t).op = "set" => Head(t).fd \in G /\ Head(t).arg \in States \ {"none"}
  /\ Head(t).op \in {"process_msg", "check", "execute"} =>
       Head(t).fd \in G /\ Head(t).arg \in InType
  /\ Head(t).op = "forward" => Head(t).fd \in G /\ Head(t).arg \in G
  /\ Head(t).op = "confirm" => Head(t).fd \in G /\ Head(t).arg \in Id
  /\ Head(t).op \in DeleteOps => Head(t).fd \in G
  /\ Head(t).op \in RemoveOps => Head(t).arg \in Id
  /\ Head(t).op \in Acts => Head(t).fd \in Actors(t)
  /\ Reopens(Head(t)) => MayReopen(t)
  /\ Pc(t) = Head(t).op

LEMMA HeadTyped ==
  ASSUME NEW G, NEW t, TodoInv(t, G), t # <<>>
  PROVE  HeadFacts(t, G)
<1>1. /\ Len(t) \in Nat /\ Len(t) >= 1 /\ t[1] = Head(t)
  BY Rest
<1>2. 1 \in 1..Len(t)
  BY <1>1
<1>3. Head(t) \in StmtType(G)
  BY DEF TodoInv
<1>4. Head(t).op \in Acts => Head(t).fd \in Actors(t)
  BY <1>1, <1>2 DEF Actors
<1>5. Reopens(Head(t)) => MayReopen(t)
  BY <1>1, <1>2 DEF MayReopen
<1>6. Pc(t) = Head(t).op
  BY DEF Pc
<1> DEFINE x == Head(t)
<1> HIDE DEF x
<1>7. /\ x.op \in {"read_cnt", "write_cnt", "add_check", "add_walk", "add_link", "close"} =>
           x.fd \in G /\ x.arg \in MsgType
      /\ x.op = "set" => x.fd \in G /\ x.arg \in States \ {"none"}
      /\ x.op \in {"process_msg", "check", "execute"} => x.fd \in G /\ x.arg \in InType
      /\ x.op = "forward" => x.fd \in G /\ x.arg \in G
      /\ x.op = "confirm" => x.fd \in G /\ x.arg \in Id
      /\ x.op \in {"delete", "delete_next"} => x.fd \in G
      /\ x.op \in {"remove_read", "remove_write", "destroy_item"} => x.arg \in Id
  <2>1. x \in StmtType(G)
    BY <1>3 DEF x
  <2> QED
    BY <2>1 DEF StmtType
<1> QED
  BY <1>4, <1>5, <1>6, <1>7 DEF HeadFacts, x, DeleteOps, RemoveOps

(* The parts of main that only go on with the handler. *)
Steady == UNCHANGED <<stage, queues, stop_flag>> /\ stage = "loop" /\ todo # <<>>

LEMMA SteadyLife ==
  ASSUME LifeInv, Steady, clash' \in BOOLEAN
  PROVE  LifeInv'
BY DEF LifeInv, Steady

LEMMA LiveSet ==
  ASSUME ClientInv(clients, state), NEW f \in Live(state), NEW s \in States \ {"none"},
         NEW st, st = [state EXCEPT ![f] = s]
  PROVE  ClientInv(clients, st) /\ Live(st) = Live(state)
<1>1. state \in [Fd -> States] /\ f \in Fd /\ state[f] # "none"
  BY DEF ClientInv, Live
<1>2. st \in [Fd -> States] /\ \A g \in Fd : st[g] # "none" <=> state[g] # "none"
  BY <1>1
<1> QED
  BY <1>2 DEF ClientInv, Live

(* A statement that leaves the list and the clients alone, and puts a      *)
(* block in front of what is left.                                         *)
LEMMA QuietStep ==
  ASSUME ProcInv, Steady, UNCHANGED <<clients, state, list_vars, clash>>, msg_cnt' \in Id,
         Head(todo).op \notin Openers \cup DeleteOps \cup RemoveOps \cup Conts,
         NEW b, MayReopen(todo) => b, stop_flag => (b => MayReopen(todo)),
         NEW u, Block(u, Live(state), Actors(todo), b), todo' = u \o Tail(todo),
         reg' \in RegType, SameReg(reg', reg)
  PROVE  ProcInv'
<1>1. /\ TodoInv(todo, Live(state)) /\ todo # <<>> /\ ClientInv(clients, state)
      /\ ListInv(heap, first, allocs, reg, todo, List) /\ LifeInv
      /\ stop_flag => StopInv(todo, state)
      /\ ~clash => DeleteInv(heap, List, reg, todo, state)
  BY DEF ProcInv, Steady
<1>2. /\ TodoInv(todo', Live(state))
      /\ Pc(todo') \notin Conts \cup {"remove_read"}
      /\ \A i \in 1..Len(todo') : todo'[i].op \notin DeleteOps
      /\ (b => MayReopen(todo)) => \A st : StopInv(todo, st) => StopInv(todo', st)
  BY <1>1, Pushed
<1>3. Pc(todo) \notin Conts \cup RemoveOps \cup {"delete_next"}
  BY <1>1, HeadTyped DEF HeadFacts, DeleteOps
<1>4. reg.ptr = NULL
  BY <1>1, <1>3, PtrNull DEF ListInv
<1>5. UNCHANGED <<clients, state, heap, first, allocs, clash, stop_flag>>
  BY DEF list_vars, Steady
<1>6. ListInv(heap', first', allocs', reg', todo', List)
  BY <1>1, <1>2, <1>3, <1>4, <1>5, QuietList
<1>7. ~clash' => DeleteInv(heap', List, reg', todo', state')
  <2> SUFFICES ASSUME ~clash
               PROVE  DeleteInv(heap, List, reg', todo', state)
    BY <1>5
  <2>1. Pc(todo') \notin Conts /\ \A f : state[f] # "none" => state[f] # "none"
    BY <1>2
  <2>2. DeleteInv(heap, List, reg, todo, state)
    BY <1>1
  <2> QED
    BY <1>2, <2>1, <2>2, QuietDelete
<1>8. LifeInv'
  BY <1>1, <1>5, SteadyLife DEF LifeInv
<1>9. stop_flag' => StopInv(todo', state')
  BY <1>1, <1>2, <1>5
<1> QED
  BY <1>1, <1>2, <1>5, <1>6, <1>7, <1>8, <1>9, InvNext

LEMMA SetStep ==
  ASSUME ProcInv, set_state
  PROVE  ProcInv'
<1> DEFINE f == Head(todo).fd
           x == Head(todo).arg
<1>1. /\ TodoInv(todo, Live(state)) /\ todo # <<>> /\ ClientInv(clients, state)
      /\ ListInv(heap, first, allocs, reg, todo, List) /\ LifeInv /\ msg_cnt \in Id
      /\ stop_flag => StopInv(todo, state)
      /\ ~clash => DeleteInv(heap, List, reg, todo, state)
  BY DEF ProcInv, set_state, At
<1>2. Steady /\ UNCHANGED <<clients, heap, first, allocs, clash, reg, msg_cnt, stop_flag>>
  BY DEF set_state, At, Steady, life_vars, list_vars
<1>3. Head(todo).op = "set" /\ state' = [state EXCEPT ![f] = x] /\ todo' = <<>> \o Tail(todo)
  BY DEF set_state, At, Then, Cur
<1>4. f \in Live(state) /\ x \in States \ {"none"} /\ Pc(todo) = "set"
  BY <1>1, <1>3, HeadTyped DEF HeadFacts
<1>5. "set" \notin Openers \cup DeleteOps \cup RemoveOps \cup Conts /\ "set" \in Acts
  BY DEF Openers, DeleteOps, RemoveOps, Conts, Acts
<1>6. Block(<<>>, Live(state), Actors(todo), MayReopen(todo))
  BY EmptyBlock
<1>7. /\ TodoInv(todo', Live(state))
      /\ Pc(todo') \notin Conts \cup {"remove_read"}
      /\ \A i \in 1..Len(todo') : todo'[i].op \notin DeleteOps
  BY <1>1, <1>3, <1>5, <1>6, Pushed
<1> HIDE DEF f, x
<1>8. ClientInv(clients', state') /\ Live(state') = Live(state)
  BY <1>1, <1>2, <1>3, <1>4, LiveSet
<1>9. reg.ptr = NULL
  BY <1>1, <1>4, <1>5, PtrNull DEF ListInv, DeleteOps
<1>10. ListInv(heap', first', allocs', reg', todo', List)
  <2>1. reg' \in RegType /\ SameReg(reg', reg)
    BY <1>1, <1>2 DEF ListInv, RegInv, SameReg
  <2> QED
    BY <1>1, <1>2, <1>4, <1>5, <1>7, <1>9, <2>1, QuietList
<1>11. ~clash' => DeleteInv(heap', List, reg', todo', state')
  <2>1. \A g : state[g] # "none" => state'[g] # "none"
    BY <1>1, <1>3, <1>4 DEF ClientInv, Live
  <2> QED
    BY <1>1, <1>2, <1>7, <2>1, QuietDelete
<1>12. LifeInv'
  BY <1>1, <1>2, SteadyLife DEF LifeInv
<1>13. stop_flag' => StopInv(todo', state')
  <2> SUFFICES ASSUME StopInv(todo, state)
               PROVE  StopInv(todo', state')
    BY <1>1, <1>2
  <2>1. todo' = Tail(todo)
    <3>1. Tail(todo) \in Seq(StmtType(Live(state)))
      BY <1>1 DEF TodoInv
    <3> QED
      BY <1>3, <3>1, ConcatEmptySeq
  <2>2. /\ Len(todo) \in Nat /\ Len(todo) >= 1 /\ Len(todo') = Len(todo) - 1
        /\ todo[1] = Head(todo) /\ \A i \in 1..Len(todo') : todo'[i] = todo[i + 1]
    BY <1>1, <2>1, Rest
  <2>3. \A i \in 1..Len(todo') : i + 1 \in 1..Len(todo) /\ 1 \in 1..Len(todo)
    BY <2>2
  <2>4. 1 \in 1..Len(todo)
    BY <2>2
  <2>5. CASE x = "s_op"
    <3>1. \A g \in Fd : state[g] = "s_op" => f = g
      BY <1>3, <2>2, <2>4, <2>5 DEF StopInv, Reopens, f, x
    <3>2. \A g \in Fd : state'[g] = "s_op" => f = g
      BY <1>1, <1>3, <3>1 DEF ClientInv
    <3>3. \A i \in 1..Len(todo') : Reopens(todo'[i]) => todo'[i].fd = f
      <4> SUFFICES ASSUME NEW i \in 1..Len(todo'), Reopens(todo'[i])
                   PROVE  todo'[i].fd = f
        OBVIOUS
      <4>1. todo'[i] = todo[i + 1] /\ todo[i + 1].op \in Acts
        BY <2>2 DEF Reopens, Acts
      <4> QED
        BY <1>1, <1>3, <1>5, <2>2, <2>3, <4>1 DEF TodoInv, OneClient, f
    <3> QED
      BY <3>2, <3>3 DEF StopInv
  <2>6. CASE x # "s_op"
    <3>1. \A g \in Fd : state'[g] = "s_op" => state[g] = "s_op"
      BY <1>1, <1>3, <2>6 DEF ClientInv
    <3>2. StopInv(Tail(todo), state)
      BY <1>1, Rest
    <3> QED
      BY <2>1, <3>1, <3>2 DEF StopInv
  <2> QED
    BY <2>5, <2>6
<1> QED
  BY <1>1, <1>2, <1>7, <1>8, <1>10, <1>11, <1>12, <1>13, InvNext

(* What is left alone by the statements that only change what is to do. *)
LEMMA PushStep ==
  ASSUME ProcInv, Steady, UNCHANGED <<clients, state, list_vars, clash, msg_cnt, reg>>,
         Head(todo).op \in {"forward", "close", "process_msg", "check", "execute", "confirm"},
         NEW b, MayReopen(todo) => b, stop_flag => (b => MayReopen(todo)),
         NEW u, Block(u, Live(state), Actors(todo), b), Then(u)
  PROVE  ProcInv'
<1>1. reg' \in RegType /\ SameReg(reg', reg) /\ msg_cnt' \in Id
  BY DEF ProcInv, ListInv, RegInv, SameReg
<1>2. Head(todo).op \notin Openers \cup DeleteOps \cup RemoveOps \cup Conts
  BY DEF Openers, DeleteOps, RemoveOps, Conts
<1>3. todo' = u \o Tail(todo)
  BY DEF Then
<1> QED
  BY <1>1, <1>2, <1>3, QuietStep

LEMMA CounterStep ==
  ASSUME ProcInv, read_cnt \/ write_cnt
  PROVE  ProcInv'
<1>1. /\ Steady /\ UNCHANGED <<clients, state, list_vars, clash>>
      /\ Head(todo).op \in {"read_cnt", "write_cnt"} /\ todo' = <<>> \o Tail(todo)
  BY DEF read_cnt, write_cnt, At, Then, Steady, life_vars, session_vars
<1>2. reg \in RegType /\ msg_cnt \in Id
  BY DEF ProcInv, ListInv, RegInv
<1>3. reg' \in RegType /\ SameReg(reg', reg) /\ msg_cnt' \in Id
  <2>1. 0 \in Id
    BY ProcessAssumption DEF Id
  <2>2. CASE read_cnt
    BY <1>2, <2>2 DEF read_cnt, RegType, SameReg
  <2>3. CASE write_cnt
    <3>1. reg' \in RegType /\ SameReg(reg', reg)
      BY <1>2, <2>1, <2>3 DEF write_cnt, RegType, SameReg
    <3>2. msg_cnt' \in Id
      BY <1>2, <2>3, ProcessAssumption DEF write_cnt, RegType, Id
    <3> QED
      BY <3>1, <3>2
  <2> QED
    BY <2>2, <2>3
<1>4. Head(todo).op \notin Openers \cup DeleteOps \cup RemoveOps \cup Conts
  BY <1>1 DEF Openers, DeleteOps, RemoveOps, Conts
<1>5. Block(<<>>, Live(state), Actors(todo), MayReopen(todo))
  BY EmptyBlock
<1> QED
  BY <1>1, <1>3, <1>4, <1>5, QuietStep

LEMMA ForwardStep ==
  ASSUME ProcInv, forward
  PROVE  ProcInv'
<1>1. /\ Steady /\ UNCHANGED <<clients, state, list_vars, clash, msg_cnt, reg>>
      /\ Head(todo).op = "forward"
  BY DEF forward, At, Steady, life_vars, session_vars
<1>2. Head(todo).fd \in Live(state)
  BY <1>1, HeadTyped DEF ProcInv, Steady, HeadFacts
<1> DEFINE b == MayReopen(todo)
           B(u) == Block(u, Live(state), Actors(todo), b)
<1>3. B(send_msg(Head(todo).fd, "e_msg"))
  BY <1>2, SendBlock DEF MsgType
<1>4. B(<<>>)
  BY EmptyBlock
<1>5. PICK u \in {send_msg(Head(todo).fd, "e_msg"), <<>>} : Then(u)
  BY DEF forward, Cur
<1>6. B(u)
  BY <1>3, <1>4
<1> QED
  BY <1>1, <1>5, <1>6, PushStep

LEMMA CloseStep ==
  ASSUME ProcInv, close
  PROVE  ProcInv'
<1> DEFINE f == Head(todo).fd
           F == Actors(todo)
           b == MayReopen(todo)
           G == Live(state)
           v == set(f, "s_en") \o send_msg(f, "e_bye")
<1>1. /\ Steady /\ UNCHANGED <<clients, state, list_vars, clash, msg_cnt, reg>>
      /\ Head(todo).op = "close"
  BY DEF close, At, Steady, life_vars, session_vars
<1>2. f \in G /\ f \in F
  BY <1>1, HeadTyped DEF ProcInv, Steady, HeadFacts, Acts
<1>3. PICK u \in {v, <<>>} : Then(u)
  BY DEF close, Cur
<1> HIDE DEF f, F, b, G
<1>4. Block(set(f, "s_en"), G, F, b) /\ Block(send_msg(f, "e_bye"), G, F, b)
  BY <1>2, SetBlock, SendBlock DEF States, MsgType
<1>5. Block(v, G, F, b) /\ Block(<<>>, G, F, b)
  BY <1>4, BlockConcat, EmptyBlock
<1> HIDE DEF v
<1>6. Block(u, G, F, b)
  BY <1>5
<1> QED
  BY <1>1, <1>3, <1>6, PushStep DEF G, F, b

LEMMA ProcessStep ==
  ASSUME ProcInv, process_msg
  PROVE  ProcInv'
<1> DEFINE f == Head(todo).fd
           x == Head(todo).arg
           F == Actors(todo)
           b == ~stop_flag \/ MayReopen(todo)
           G == Live(state)
<1>1. /\ Steady /\ UNCHANGED <<clients, state, list_vars, clash, msg_cnt, reg>>
      /\ Head(todo).op = "process_msg"
  BY DEF process_msg, At, Steady, life_vars, session_vars
<1>2. f \in G /\ f \in F /\ x \in InType
  BY <1>1, HeadTyped DEF ProcInv, Steady, HeadFacts, Acts
<1>3. PICK u \in {Stmt("check", f, x), <<>>} :
        Then(u) /\ (stop_flag /\ x # "e_bye" => u = <<>>)
  BY DEF process_msg, Cur
<1>4. MayReopen(todo) => b /\ (stop_flag => (b => MayReopen(todo)))
  OBVIOUS
<1>5. Block(u, G, F, b)
  <2>1. CASE u = <<>>
    BY <2>1, EmptyBlock
  <2>2. CASE u = Stmt("check", f, x) /\ (x # "e_bye" => ~stop_flag)
    <3>1. x # "e_bye" => b
      BY <2>2
    <3> HIDE DEF f, x, b, G, F
    <3>2. Block(Stmt("check", f, x), G, F, b)
      BY <1>2, <3>1, ActBlock
    <3> QED
      BY <2>2, <3>2
  <2> QED
    BY <1>3, <2>1, <2>2
<1> HIDE DEF b
<1>6. MayReopen(todo) => b
  BY DEF b
<1>7. stop_flag => (b => MayReopen(todo))
  BY DEF b
<1> QED
  BY <1>1, <1>3, <1>5, <1>6, <1>7, PushStep

LEMMA CheckStep ==
  ASSUME ProcInv, check_state_transition
  PROVE  ProcInv'
<1> DEFINE f == Head(todo).fd
           x == Head(todo).arg
           F == Actors(todo)
           b == MayReopen(todo)
           G == Live(state)
<1>1. /\ Steady /\ UNCHANGED <<clients, state, list_vars, clash, msg_cnt, reg>>
      /\ Head(todo).op = "check"
  BY DEF check_state_transition, At, Steady, life_vars, session_vars
<1>2. f \in G /\ f \in F /\ x \in InType /\ (x # "e_bye" => b)
  BY <1>1, HeadTyped DEF ProcInv, Steady, HeadFacts, Acts, Reopens
<1>3. PICK e \in {send_msg(f, "e_err"), <<>>} :
        \E u \in {execute_msg(f, x), e \o execute_msg(f, x),
                  e \o set(f, "s_er") \o set(f, "s_en") \o close_client(f)} : Then(u)
  <2> DEFINE e == IF state[f] = "s_ac" THEN send_msg(f, "e_err") ELSE <<>>
  <2>1. e \in {send_msg(f, "e_err"), <<>>}
    OBVIOUS
  <2>2. \E u \in {execute_msg(f, x), e \o execute_msg(f, x),
                  e \o set(f, "s_er") \o set(f, "s_en") \o close_client(f)} : Then(u)
    BY DEF check_state_transition, Cur
  <2> QED
    BY <2>1, <2>2
<1>4. PICK u \in {execute_msg(f, x), e \o execute_msg(f, x),
                  e \o set(f, "s_er") \o set(f, "s_en") \o close_client(f)} : Then(u)
  BY <1>3
<1> HIDE DEF f, x, F, b, G
<1>5. Block(e, G, F, b)
  <2>1. Block(send_msg(f, "e_err"), G, F, b) /\ Block(<<>>, G, F, b)
    BY <1>2, SendBlock, EmptyBlock DEF MsgType
  <2> QED
    BY <1>3, <2>1
<1>6. Block(execute_msg(f, x), G, F, b) /\ Block(e \o execute_msg(f, x), G, F, b)
  BY <1>2, <1>5, ActBlock, BlockConcat DEF execute_msg
<1>7. Block(e \o set(f, "s_er") \o set(f, "s_en") \o close_client(f), G, F, b)
  <2>1. /\ Block(set(f, "s_er"), G, F, b) /\ Block(set(f, "s_en"), G, F, b)
        /\ Block(close_client(f), G, F, b)
    BY <1>2, SetBlock, CloseBlock DEF States
  <2> QED
    BY <1>5, <2>1, BlockConcat
<1>8. Block(u, G, F, b)
  BY <1>4, <1>6, <1>7
<1> QED
  BY <1>1, <1>4, <1>8, PushStep DEF G, F, b

LEMMA ExecuteStep ==
  ASSUME ProcInv, execute_auth \/ execute_other
  PROVE  ProcInv'
<1> DEFINE f == Head(todo).fd
           x == Head(todo).arg
           F == Actors(todo)
           b == MayReopen(todo)
           G == Live(state)
           n == forward_msg_channel(f)
           r == send_msg(f, "e_reply")
           U == {r, n \o set(f, "s_op") \o r, n \o n \o set(f, "s_op") \o r,
                 n \o set(f, "s_op")}
           v == n \o set(f, "s_en") \o close_client(f)
<1>1. /\ Steady /\ UNCHANGED <<clients, state, list_vars, clash, msg_cnt, reg>>
      /\ Head(todo).op = "execute"
  BY DEF execute_auth, execute_other, At, Steady, life_vars, session_vars
<1>2. f \in G /\ f \in F /\ x \in InType /\ (x # "e_bye" => b)
  BY <1>1, HeadTyped DEF ProcInv, Steady, HeadFacts, Acts, Reopens
<1>3. PICK u : Then(u) /\ ((x # "e_bye" /\ u \in U) \/ u = v)
  <2>1. CASE execute_auth
    BY <2>1 DEF execute_auth, Cur
  <2>2. CASE execute_other
    <3>1. x # "e_auth"
      BY <2>2 DEF execute_other, Cur
    <3>2. CASE x = "e_join"
      BY <2>2, <3>2 DEF execute_other, Cur
    <3>3. CASE x = "e_msg"
      BY <2>2, <3>3 DEF execute_other, Cur
    <3>4. CASE x = "e_bye"
      BY <2>2, <3>4 DEF execute_other, Cur
    <3> QED
      BY <1>2, <3>1, <3>2, <3>3, <3>4 DEF InType
  <2> QED
    BY <2>1, <2>2
<1>4. Block(n, G, F, b)
  <2>1. clients \in Seq(G)
    <3>1. clients \in Seq(Fd) /\ \A i \in 1..Len(clients) : clients[i] \in G
      BY DEF ProcInv, ClientInv, Live
    <3> QED
      BY <3>1
  <2> HIDE DEF f, G, F, b
  <2> QED
    BY <1>2, <2>1, ChannelBlock
<1> HIDE DEF f, x, F, b, G, n
<1>5. Block(r, G, F, b)
  BY <1>2, SendBlock DEF MsgType
<1> HIDE DEF r
<1>6. Block(v, G, F, b)
  <2>1. Block(set(f, "s_en"), G, F, b) /\ Block(close_client(f), G, F, b)
    BY <1>2, SetBlock, CloseBlock DEF States
  <2> QED
    BY <1>4, <2>1, BlockConcat
<1>7. ASSUME x # "e_bye", u \in U
      PROVE  Block(u, G, F, b)
  <2>1. Block(set(f, "s_op"), G, F, b)
    BY <1>2, <1>7, SetBlock DEF States
  <2>2. /\ Block(n \o set(f, "s_op"), G, F, b)
        /\ Block(n \o set(f, "s_op") \o r, G, F, b)
    BY <1>4, <1>5, <2>1, BlockConcat
  <2>3. Block(n \o n \o set(f, "s_op") \o r, G, F, b)
    BY <1>4, <1>5, <2>1, BlockConcat
  <2> QED
    BY <1>5, <1>7, <2>2, <2>3
<1> HIDE DEF U, v
<1>8. Block(u, G, F, b)
  BY <1>3, <1>6, <1>7
<1> QED
  BY <1>1, <1>3, <1>8, PushStep DEF G, F, b

(* A statement that leaves the clients alone. *)
LEMMA ListStep ==
  ASSUME ProcInv, Steady, UNCHANGED <<clients, state, msg_cnt>>, clash' \in BOOLEAN,
         TodoInv(todo', Live(state)),
         \A st : StopInv(todo, st) => StopInv(todo', st),
         \A k \in 1..Len(todo') : todo'[k].op \in DeleteOps => state[todo'[k].fd] = "s_en",
         NEW s, ListInv(heap', first', allocs', reg', todo', s),
         ~clash' => DeleteInv(heap', s, reg', todo', state)
  PROVE  ProcInv'
<1>1. LifeInv /\ ClientInv(clients, state) /\ msg_cnt \in Id /\ (stop_flag => StopInv(todo, state))
  BY DEF ProcInv
<1>2. UNCHANGED <<clients, state, msg_cnt, stop_flag>>
  BY DEF Steady
<1>3. LifeInv'
  BY <1>1, SteadyLife
<1>4. stop_flag' => StopInv(todo', state')
  BY <1>1, <1>2
<1> QED
  BY <1>1, <1>2, <1>3, <1>4, InvNext

(* Only a handler that removes or deletes first can delete. *)
LEMMA NoDelete ==
  ASSUME NEW G, NEW t, TodoInv(t, G), t # <<>>, Head(t).op \notin RemoveOps \cup DeleteOps
  PROVE  \A i \in 1..Len(t) : t[i].op \notin DeleteOps
<1>1. Len(t) \in Nat /\ Len(t) >= 1 /\ t[1] = Head(t)
  BY Rest
<1>2. \A i \in 1..Len(t) : 1 \in 1..Len(t) /\ (i = 1 \/ 1 < i)
  BY <1>1
<1> QED
  BY <1>1, <1>2 DEF TodoInv, DeletesAlone

(* What a handler has left when it goes on with its next statement. *)
LEMMA TailTodo ==
  ASSUME NEW G, NEW t, TodoInv(t, G), t # <<>>
  PROVE  /\ TodoInv(Tail(t), G)
         /\ \A st : StopInv(t, st) => StopInv(Tail(t), st)
         /\ (\A i \in 1..Len(t) : t[i].op \notin DeleteOps)
              => \A i \in 1..Len(Tail(t)) : Tail(t)[i].op \notin DeleteOps
         /\ <<>> \o Tail(t) = Tail(t)
<1>1. /\ TodoInv(Tail(t), G)
      /\ \A st : StopInv(t, st) => StopInv(Tail(t), st)
      /\ Len(t) \in Nat /\ Len(t) >= 1 /\ Len(Tail(t)) = Len(t) - 1
      /\ \A i \in 1..Len(Tail(t)) : Tail(t)[i] = t[i + 1]
  BY Rest
<1> DEFINE v == Tail(t)
<1> HIDE DEF v
<1>2. \A i \in 1..Len(v) : i + 1 \in 1..Len(t) /\ v[i] = t[i + 1]
  BY <1>1 DEF v
<1>3. <<>> \o v = v
  <2>1. v \in Seq(StmtType(G))
    BY <1>1 DEF TodoInv, v
  <2> QED
    BY <2>1, ConcatEmptySeq
<1> QED
  BY <1>1, <1>2, <1>3 DEF v

LEMMA TailDeletes ==
  ASSUME NEW G, NEW t, TodoInv(t, G), t # <<>>, NEW st,
         \A k \in 1..Len(t) : t[k].op \in DeleteOps => st[t[k].fd] = "s_en",
         NEW u, u = Tail(t)
  PROVE  \A k \in 1..Len(u) : u[k].op \in DeleteOps => st[u[k].fd] = "s_en"
<1>1. /\ Len(t) \in Nat /\ Len(t) >= 1 /\ Len(u) = Len(t) - 1
      /\ \A i \in 1..Len(u) : u[i] = t[i + 1]
  BY Rest
<1>2. \A i \in 1..Len(u) : i + 1 \in 1..Len(t)
  BY <1>1
<1> QED
  BY <1>1, <1>2

LEMMA AddCheckStep ==
  ASSUME ProcInv, add_check
  PROVE  ProcInv'
<1> DEFINE G == Live(state)
           fd == Head(todo).fd
           type == Head(todo).arg
           n == allocs + 1
<1>1. /\ TodoInv(todo, G) /\ todo # <<>> /\ ClientInv(clients, state)
      /\ ListInv(heap, first, allocs, reg, todo, List)
      /\ ~clash => DeleteInv(heap, List, reg, todo, state)
  BY DEF ProcInv, add_check, At
<1>2. /\ Steady /\ UNCHANGED <<clients, state, msg_cnt, clash, first>> /\ allocs' = n
      /\ Head(todo).op = "add_check"
      /\ heap' = Allocated(heap, n, Item(reg.cnt, fd, type, "main"))
      /\ reg' = [reg EXCEPT !.item = n, !.cnt = 0]
      /\ todo' = IF first = NULL THEN Tail(Tail(todo)) ELSE Tail(todo)
  BY DEF add_check, At, Steady, life_vars, session_vars, Cur
<1> HIDE DEF n
<1>3. Pc(todo) = "add_check" /\ fd \in G /\ type \in MsgType
  BY <1>1, <1>2, HeadTyped DEF HeadFacts
<1>4. fd \in Fd /\ state[fd] # "none"
  BY <1>3 DEF Live
<1> HIDE DEF G, fd, type
<1>5. \A i \in 1..Len(todo) : todo[i].op \notin DeleteOps
  BY <1>1, <1>2, NoDelete DEF RemoveOps, DeleteOps
<1>6. /\ TodoInv(Tail(todo), G) /\ Pc(Tail(todo)) = "add_walk"
      /\ \A st : StopInv(todo, st) => StopInv(Tail(todo), st)
      /\ \A i \in 1..Len(Tail(todo)) : Tail(todo)[i].op \notin DeleteOps
  BY <1>1, <1>2, <1>5, Rest, TailTodo
<1>7. Tail(todo) # <<>> /\ Head(Tail(todo)).op = "add_walk"
  BY <1>6 DEF Pc
<1>8. /\ TodoInv(Tail(Tail(todo)), G) /\ Pc(Tail(Tail(todo))) = "add_link"
      /\ \A st : StopInv(Tail(todo), st) => StopInv(Tail(Tail(todo)), st)
      /\ \A i \in 1..Len(Tail(Tail(todo))) : Tail(Tail(todo))[i].op \notin DeleteOps
  BY <1>6, <1>7, Rest, TailTodo
<1>9. /\ TodoInv(todo', G) /\ Pc(todo') = IF first = NULL THEN "add_link" ELSE "add_walk"
      /\ \A st : StopInv(todo, st) => StopInv(todo', st)
      /\ \A i \in 1..Len(todo') : todo'[i].op \notin DeleteOps
  BY <1>2, <1>6, <1>8
<1>10. Pc(todo) \notin Conts /\ reg.ptr = NULL
  <2>1. Pc(todo) \notin Conts \cup RemoveOps \cup {"delete_next"}
    BY <1>3 DEF Conts, RemoveOps
  <2> QED
    BY <1>1, <2>1, PtrNull DEF ListInv
<1>11. /\ ListInv(heap', first, n, reg', todo', List)
       /\ DeleteInv(heap, List, reg, todo, state) => DeleteInv(heap', List, reg', todo', state)
  BY <1>1, <1>2, <1>3, <1>4, <1>9, <1>10, AddCheckList DEF n
<1>12. clash' \in BOOLEAN
  BY <1>2 DEF ProcInv, LifeInv
<1> QED
  BY <1>1, <1>2, <1>9, <1>11, <1>12, ListStep DEF G

LEMMA AddWalkStep ==
  ASSUME ProcInv, add_walk
  PROVE  ProcInv'
<1> DEFINE G == Live(state)
<1>1. /\ TodoInv(todo, G) /\ todo # <<>>
      /\ ListInv(heap, first, allocs, reg, todo, List)
      /\ ~clash => DeleteInv(heap, List, reg, todo, state)
  BY DEF ProcInv, add_walk, At
<1>2. /\ Steady /\ UNCHANGED <<clients, state, msg_cnt, clash, heap, first, allocs>>
      /\ Head(todo).op = "add_walk"
      /\ reg' = [reg EXCEPT !.last = queue_last(heap, first)]
      /\ todo' = <<>> \o Tail(todo)
  BY DEF add_walk, At, Steady, life_vars, session_vars, list_vars, Then
<1> HIDE DEF G
<1>3. Pc(todo) = "add_walk"
  BY <1>1, <1>2, HeadTyped DEF HeadFacts
<1>4. \A i \in 1..Len(todo) : todo[i].op \notin DeleteOps
  BY <1>1, <1>2, NoDelete DEF RemoveOps, DeleteOps
<1>5. /\ TodoInv(todo', G) /\ Pc(todo') = "add_link" /\ todo' = Tail(todo)
      /\ \A st : StopInv(todo, st) => StopInv(todo', st)
      /\ \A i \in 1..Len(todo') : todo'[i].op \notin DeleteOps
  BY <1>1, <1>2, <1>4, Rest, TailTodo
<1>6. reg.ptr = NULL
  <2>1. Pc(todo) \notin RemoveOps \cup {"delete_next"}
    BY <1>3 DEF RemoveOps
  <2> QED
    BY <1>1, <2>1, PtrNull DEF ListInv
<1>7. /\ ListInv(heap, first, allocs, reg', todo', List)
      /\ DeleteInv(heap, List, reg, todo, state) => DeleteInv(heap, List, reg', todo', state)
  BY <1>1, <1>2, <1>3, <1>5, <1>6, AddWalkList
<1>8. clash' \in BOOLEAN
  BY <1>2 DEF ProcInv, LifeInv
<1> QED
  BY <1>1, <1>2, <1>5, <1>7, <1>8, ListStep DEF G

LEMMA AddLinkStep ==
  ASSUME ProcInv, add_link
  PROVE  ProcInv'
<1> DEFINE G == Live(state)
<1>1. /\ TodoInv(todo, G) /\ todo # <<>>
      /\ ListInv(heap, first, allocs, reg, todo, List)
      /\ ~clash => DeleteInv(heap, List, reg, todo, state)
  BY DEF ProcInv, add_link, At
<1>2. /\ Steady /\ UNCHANGED <<clients, state, msg_cnt, allocs>>
      /\ Head(todo).op = "add_link"
      /\ heap' = IF reg.last = NULL THEN heap ELSE Linked(heap, reg.last, reg.item)
      /\ first' = IF reg.last = NULL THEN reg.item ELSE first
      /\ reg' = [reg EXCEPT !.item = NULL, !.last = NULL]
      /\ todo' = <<>> \o Tail(todo)
      /\ clash' = (clash \/ Clashes(reg.item))
  BY DEF add_link, At, Steady, life_vars, session_vars, Then
<1> HIDE DEF G
<1>3. Pc(todo) = "add_link"
  BY <1>1, <1>2, HeadTyped DEF HeadFacts
<1>4. \A i \in 1..Len(todo) : todo[i].op \notin DeleteOps
  BY <1>1, <1>2, NoDelete DEF RemoveOps, DeleteOps
<1>5. /\ TodoInv(todo', G) /\ Pc(todo') \notin Conts /\ todo' = Tail(todo)
      /\ \A st : StopInv(todo, st) => StopInv(todo', st)
      /\ \A i \in 1..Len(todo') : todo'[i].op \notin DeleteOps
  <2>1. Head(todo).op \notin Openers
    BY <1>2 DEF Openers
  <2>2. Pc(Tail(todo)) \notin Conts
    BY <1>1, <2>1, Rest
  <2> QED
    BY <1>1, <1>2, <1>4, <2>2, TailTodo
<1>6. reg.ptr = NULL
  <2>1. Pc(todo) \notin RemoveOps \cup {"delete_next"}
    BY <1>3 DEF RemoveOps
  <2> QED
    BY <1>1, <2>1, PtrNull DEF ListInv
<1>7. PICK s : /\ ListInv(heap', first', allocs, reg', todo', s)
               /\ PutKeeps(heap, List, reg, todo, reg.item, heap', s, reg', todo')
  BY <1>1, <1>2, <1>3, <1>5, <1>6, AddLinkList
<1>8. ASSUME ~clash'
      PROVE  DeleteInv(heap', s, reg', todo', state)
  <2>1. ~clash /\ ~Clashes(reg.item)
    BY <1>2, <1>8
  <2>2. Items(heap', first') = s /\ s \in Seq(DOMAIN heap')
    BY <1>7, ListIs DEF ListInv, Chain
  <2>3. \A i \in 1..Len(s) : s[i] \in Range(s)
    BY <2>2 DEF Range
  <2>4. Alone(heap', s, reg.item)
    BY <2>1, <2>2, <2>3 DEF Clashes, Alone
  <2> QED
    BY <1>1, <1>5, <1>7, <2>1, <2>4 DEF PutKeeps
<1>9. clash' \in BOOLEAN
  BY <1>2 DEF ProcInv, LifeInv, Clashes
<1> QED
  BY <1>1, <1>2, <1>5, <1>7, <1>8, <1>9, ListStep DEF G

(* Position(id) is the first position of that id. *)
LEMMA PositionIs ==
  ASSUME Len(List) \in Nat, NEW id
  PROVE  /\ Position(id) \in 0..Len(List)
         /\ \A i \in 1..Len(List) : heap[List[i]].id = id => Position(id) # 0 /\ Position(id) <= i
         /\ Position(id) # 0 => heap[List[Position(id)]].id = id
<1> DEFINE I == {i \in 1..Len(List) : heap[List[i]].id = id}
<1>1. Position(id) = IF I # {} THEN Min(I) ELSE 0
  BY DEF Position, SelectInSeq, List
<1>2. I \in SUBSET Nat
  OBVIOUS
<1> HIDE DEF I
<1>3. I # {} => Min(I) \in I /\ \A k \in I : Min(I) <= k
  BY <1>2, LeastNat
<1> DEFINE m == Min(I)
           n == Position(id)
<1> HIDE DEF m, n
<1>4. (I # {} => m \in I /\ \A k \in I : m <= k) /\ n = IF I # {} THEN m ELSE 0
  BY <1>1, <1>3 DEF m, n
<1>5. CASE I = {}
  <2>1. n = 0
    BY <1>4, <1>5
  <2> QED
    BY <1>5, <2>1 DEF I, n
<1>6. CASE I # {}
  <2>1. n = m /\ n \in I /\ \A k \in I : n <= k
    BY <1>4, <1>6
  <2>2. n \in 1..Len(List) /\ heap[List[n]].id = id
    BY <2>1 DEF I
  <2>3. n \in 0..Len(List) /\ n # 0
    BY <2>2
  <2>4. \A i \in 1..Len(List) : heap[List[i]].id = id => n <= i
    BY <2>1 DEF I
  <2> QED
    BY <2>2, <2>3, <2>4 DEF n
<1> QED
  BY <1>5, <1>6

LEMMA RemoveReadStep ==
  ASSUME ProcInv, remove_read
  PROVE  ProcInv'
<1> DEFINE G == Live(state)
           id == Head(todo).arg
           p == Position(id)
           n == queue_get(id)
<1>1. /\ TodoInv(todo, G) /\ todo # <<>>
      /\ ListInv(heap, first, allocs, reg, todo, List)
      /\ ~clash => DeleteInv(heap, List, reg, todo, state)
      /\ \A k \in 1..Len(todo) : todo[k].op \in DeleteOps => state[todo[k].fd] = "s_en"
  BY DEF ProcInv, remove_read, At
<1>2. /\ Steady /\ UNCHANGED <<clients, state, msg_cnt, clash, heap, first, allocs>>
      /\ Head(todo).op = "remove_read"
      /\ reg' = [reg EXCEPT !.item = n, !.last = Before(id), !.next = Follow(heap, n)]
      /\ todo' = <<>> \o Tail(todo)
  BY DEF remove_read, At, Steady, life_vars, session_vars, list_vars, Then, Cur
<1>3. Len(List) \in Nat
  BY <1>1, ChainFacts DEF ListInv
<1>4. /\ n = IF p = 0 THEN NULL ELSE List[p]
      /\ Before(id) = IF p <= 1 THEN NULL ELSE List[p - 1]
  BY DEF queue_get, Before, List
<1> HIDE DEF G, id, p, n
<1>5. /\ p \in 0..Len(List)
      /\ \A i \in 1..Len(List) : heap[List[i]].id = id => p # 0 /\ p <= i
      /\ p # 0 => heap[List[p]].id = id
  BY <1>3, PositionIs DEF p
<1>6. Pc(todo) = "remove_read"
  BY <1>1, <1>2, HeadTyped DEF HeadFacts
<1>7. /\ TodoInv(todo', G) /\ todo' = Tail(todo)
      /\ \A st : StopInv(todo, st) => StopInv(todo', st)
  BY <1>1, <1>2, TailTodo
<1>8. \A k \in 1..Len(todo') : todo'[k].op \in DeleteOps => state[todo'[k].fd] = "s_en"
  BY <1>1, <1>7, TailDeletes
<1>9. /\ ListInv(heap, first, allocs, reg', Tail(todo), List)
      /\ \A st : DeleteInv(heap, List, reg, todo, st) => DeleteInv(heap, List, reg', Tail(todo), st)
  <2>1. reg' = [reg EXCEPT !.item = n, !.last = IF p <= 1 THEN NULL ELSE List[p - 1],
                           !.next = Follow(heap, n)]
    BY <1>2, <1>4
  <2> QED
    BY <1>1, <1>4, <1>5, <1>6, <2>1, RemoveReadList DEF id
<1>10. clash' \in BOOLEAN
  BY <1>2 DEF ProcInv, LifeInv
<1> QED
  BY <1>1, <1>2, <1>7, <1>8, <1>9, <1>10, ListStep DEF G

LEMMA RemoveWriteStep ==
  ASSUME ProcInv, remove_write
  PROVE  ProcInv'
<1> DEFINE G == Live(state)
<1>1. /\ TodoInv(todo, G) /\ todo # <<>>
      /\ ListInv(heap, first, allocs, reg, todo, List)
      /\ ~clash => DeleteInv(heap, List, reg, todo, state)
      /\ \A k \in 1..Len(todo) : todo[k].op \in DeleteOps => state[todo[k].fd] = "s_en"
  BY DEF ProcInv, remove_write, At
<1>2. /\ Steady /\ UNCHANGED <<clients, state, msg_cnt, clash, allocs, reg>>
      /\ Head(todo).op = "remove_write"
      /\ todo' = <<>> \o Tail(todo)
  BY DEF remove_write, At, Steady, life_vars, session_vars, Then
<1> HIDE DEF G
<1>3. Pc(todo) = "remove_write"
  BY <1>1, <1>2, HeadTyped DEF HeadFacts
<1>4. /\ TodoInv(todo', G) /\ todo' = Tail(todo)
      /\ \A st : StopInv(todo, st) => StopInv(todo', st)
  BY <1>1, <1>2, TailTodo
<1>5. \A k \in 1..Len(todo') : todo'[k].op \in DeleteOps => state[todo'[k].fd] = "s_en"
  BY <1>1, <1>4, TailDeletes
<1>6. \E s : ListInv(heap', first', allocs, reg, todo', s) /\ DeleteKeeps(heap, List, reg, todo, heap', s, reg, todo')
  <2>1. CASE Cleared(reg)
    <3>1. UNCHANGED <<heap, first>>
      BY <2>1 DEF remove_write, Cleared, NULL
    <3>2. /\ ListInv(heap, first, allocs, reg, Tail(todo), List)
          /\ \A st : DeleteInv(heap, List, reg, todo, st) => DeleteInv(heap, List, reg, Tail(todo), st)
      BY <1>1, <1>3, <2>1, RemoveNothing
    <3> QED
      BY <1>4, <3>1, <3>2 DEF DeleteKeeps
  <2>2. CASE FoundItem(heap, List, reg)
    <3>1. reg.item # NULL
      BY <1>1, <2>2, ChainFacts DEF ListInv, FoundItem
    <3>2. /\ heap' = IF reg.last = NULL THEN heap ELSE Linked(heap, reg.last, reg.next)
          /\ first' = IF reg.last = NULL THEN reg.next ELSE first
      BY <3>1 DEF remove_write
    <3> QED
      BY <1>1, <1>3, <1>4, <2>2, <3>2, RemoveWriteList
  <2> QED
    BY <1>1, <1>3, <2>1, <2>2 DEF ListInv, RegInv
<1>7. PICK s : ListInv(heap', first', allocs, reg, todo', s) /\ DeleteKeeps(heap, List, reg, todo, heap', s, reg, todo')
  BY <1>6
<1>8. ~clash' => DeleteInv(heap', s, reg', todo', state)
  BY <1>1, <1>2, <1>7 DEF DeleteKeeps
<1>9. clash' \in BOOLEAN
  BY <1>2 DEF ProcInv, LifeInv
<1> QED
  BY <1>1, <1>2, <1>4, <1>5, <1>7, <1>8, <1>9, ListStep DEF G

LEMMA DestroyStep ==
  ASSUME ProcInv, destroy_item
  PROVE  ProcInv'
<1> DEFINE G == Live(state)
<1>1. /\ TodoInv(todo, G) /\ todo # <<>>
      /\ ListInv(heap, first, allocs, reg, todo, List)
      /\ ~clash => DeleteInv(heap, List, reg, todo, state)
      /\ \A k \in 1..Len(todo) : todo[k].op \in DeleteOps => state[todo[k].fd] = "s_en"
  BY DEF ProcInv, destroy_item, At
<1>2. /\ Steady /\ UNCHANGED <<clients, state, msg_cnt, clash, allocs, first>>
      /\ Head(todo).op = "destroy_item"
      /\ heap' = [n \in DOMAIN heap \ {reg.item} |-> heap[n]]
      /\ reg' = [reg EXCEPT !.item = NULL, !.last = NULL, !.next = NULL]
      /\ todo' = <<>> \o Tail(todo)
  BY DEF destroy_item, At, Steady, life_vars, session_vars, Then
<1> HIDE DEF G
<1>3. Pc(todo) = "destroy_item"
  BY <1>1, <1>2, HeadTyped DEF HeadFacts
<1>4. /\ TodoInv(todo', G) /\ todo' = Tail(todo)
      /\ \A st : StopInv(todo, st) => StopInv(todo', st)
  BY <1>1, <1>2, TailTodo
<1>5. \A k \in 1..Len(todo') : todo'[k].op \in DeleteOps => state[todo'[k].fd] = "s_en"
  BY <1>1, <1>4, TailDeletes
<1>6. /\ ListInv(heap', first, allocs, reg', Tail(todo), List)
      /\ \A st : DeleteInv(heap, List, reg, todo, st) => DeleteInv(heap', List, reg', Tail(todo), st)
  BY <1>1, <1>2, <1>3, DestroyList
<1>7. clash' \in BOOLEAN
  BY <1>2 DEF ProcInv, LifeInv
<1> QED
  BY <1>1, <1>2, <1>4, <1>5, <1>6, <1>7, ListStep DEF G

(* A CONFIRM for a message that is in the list. *)
LEMMA ConfirmFound ==
  ASSUME ProcInv, Steady, UNCHANGED <<clients, state, list_vars, clash, msg_cnt, reg>>,
         Head(todo).op = "confirm",
         NEW c, Block(c, Live(state), Actors(todo), MayReopen(todo)),
         Then(queue_remove(Head(todo).arg) \o c)
  PROVE  ProcInv'
<1> DEFINE G == Live(state)
           id == Head(todo).arg
           w == c \o Tail(todo)
<1>1. /\ TodoInv(todo, G) /\ todo # <<>>
      /\ ListInv(heap, first, allocs, reg, todo, List)
      /\ ~clash => DeleteInv(heap, List, reg, todo, state)
  BY DEF ProcInv, Steady
<1>2. id \in Id /\ Pc(todo) = "confirm"
  BY <1>1, HeadTyped DEF HeadFacts
<1> HIDE DEF G, id
<1>3. Head(todo).op \notin Openers \cup DeleteOps \cup RemoveOps \cup Conts
  BY DEF Openers, DeleteOps, RemoveOps, Conts
<1>4. /\ TodoInv(w, G) /\ Pc(w) \notin Conts \cup {"remove_read"}
      /\ \A i \in 1..Len(w) : w[i].op \notin DeleteOps
      /\ \A st : StopInv(todo, st) => StopInv(w, st)
  BY <1>1, <1>3, Pushed DEF G
<1>5. todo' = queue_remove(id) \o w
  <2>1. queue_remove(id) \in Seq(StmtType(G))
    BY <1>2 DEF queue_remove, Stmt, StmtType
  <2>2. c \in Seq(StmtType(G)) /\ Tail(todo) \in Seq(StmtType(G))
    BY <1>1 DEF Block, TodoInv, G
  <2>3. todo' = (queue_remove(id) \o c) \o Tail(todo)
    BY DEF Then, id
  <2>4. (queue_remove(id) \o c) \o Tail(todo) = queue_remove(id) \o (c \o Tail(todo))
    BY <2>1, <2>2, ConcatAssociative
  <2> QED
    BY <2>3, <2>4
<1> HIDE DEF w
<1> DEFINE u == todo'
<1>6. /\ TodoInv(u, G) /\ Pc(u) = "remove_read"
      /\ \A st : StopInv(w, st) => StopInv(u, st)
      /\ Len(u) = Len(w) + 3
      /\ \A i \in 1..Len(w) : u[i + 3] = w[i]
      /\ \A i \in 1..3 : u[i].op \in RemoveOps
  BY <1>2, <1>4, <1>5, RemovePushed
<1> HIDE DEF u
<1>7. \A i \in 1..Len(u) : u[i].op \notin DeleteOps
  <2> SUFFICES ASSUME NEW i \in 1..Len(u)
               PROVE  u[i].op \notin DeleteOps
    OBVIOUS
  <2>1. Len(w) \in Nat
    BY <1>4 DEF TodoInv
  <2>2. CASE i \in 1..3
    BY <1>6, <2>2 DEF RemoveOps, DeleteOps
  <2>3. CASE i \notin 1..3
    <3>1. i - 3 \in 1..Len(w) /\ (i - 3) + 3 = i
      BY <1>6, <2>1, <2>3
    <3>2. u[i] = w[i - 3]
      BY <1>6, <3>1
    <3> QED
      BY <1>4, <3>1, <3>2
  <2> QED
    BY <2>2, <2>3
<1>8. Pc(todo) \notin Conts /\ Pc(u) \notin Conts
  BY <1>2, <1>6 DEF Conts
<1>9. reg.ptr = NULL
  <2>1. Pc(todo) \notin RemoveOps \cup {"delete_next"}
    BY <1>2 DEF RemoveOps
  <2> QED
    BY <1>1, <2>1, PtrNull DEF ListInv
<1>10. ListInv(heap, first, allocs, reg, u, List)
  <2>1. reg \in RegType /\ SameReg(reg, reg)
    BY <1>1 DEF ListInv, RegInv, SameReg
  <2> QED
    BY <1>1, <1>8, <1>9, <2>1, QuietList
<1>11. ~clash => DeleteInv(heap, List, reg, u, state)
  <2>1. \A f : state[f] # "none" => state[f] # "none"
    OBVIOUS
  <2> QED
    BY <1>1, <1>7, <1>8, <2>1, QuietDelete
<1>12. UNCHANGED <<heap, first, allocs, reg, clash>> /\ clash' \in BOOLEAN
  BY DEF list_vars, ProcInv, LifeInv
<1>13. \A st : StopInv(todo, st) => StopInv(u, st)
  BY <1>4, <1>6
<1> QED
  BY <1>6, <1>7, <1>10, <1>11, <1>12, <1>13, ListStep DEF u, G

LEMMA ConfirmStep ==
  ASSUME ProcInv, confirm
  PROVE  ProcInv'
<1> DEFINE G == Live(state)
           F == Actors(todo)
           b == MayReopen(todo)
           f == Head(todo).fd
           x == Head(todo).arg
<1>1. /\ Steady /\ UNCHANGED <<clients, state, list_vars, clash, msg_cnt, reg>>
      /\ Head(todo).op = "confirm"
  BY DEF confirm, At, Steady, life_vars, session_vars
<1>2. f \in G /\ f \in F
  BY <1>1, HeadTyped DEF ProcInv, Steady, HeadFacts, Acts
<1>3. \/ Then(<<>>) \/ Then(queue_remove(x) \o close_client(f)) \/ Then(queue_remove(x))
  BY DEF confirm, Cur
<1>4. Block(<<>>, G, F, b)
  BY EmptyBlock
<1>5. Block(close_client(f), G, F, b)
  <2> HIDE DEF G, F, b, f
  <2> QED
    BY <1>2, CloseBlock
<1>6. CASE Then(<<>>)
  BY <1>1, <1>4, <1>6, PushStep
<1>7. CASE Then(queue_remove(x) \o close_client(f))
  BY <1>1, <1>5, <1>7, ConfirmFound
<1>8. CASE Then(queue_remove(x))
  <2>1. queue_remove(x) \o <<>> = queue_remove(x)
    <3>1. queue_remove(x) \in Seq({[op |-> o, fd |-> NULL, arg |-> x] : o \in RemoveOps})
      BY DEF queue_remove, Stmt, RemoveOps
    <3> QED
      BY <3>1, ConcatEmptySeq
  <2> QED
    BY <1>1, <1>4, <1>8, <2>1, ConfirmFound
<1> QED
  BY <1>3, <1>6, <1>7, <1>8

LEMMA DeleteFirstStep ==
  ASSUME ProcInv, delete_first
  PROVE  ProcInv'
<1> DEFINE G == Live(state)
           d == Stmt("delete_next", Head(todo).fd, NULL)
<1>1. /\ TodoInv(todo, G) /\ todo # <<>>
      /\ ListInv(heap, first, allocs, reg, todo, List)
      /\ ~clash => DeleteInv(heap, List, reg, todo, state)
      /\ \A k \in 1..Len(todo) : todo[k].op \in DeleteOps => state[todo[k].fd] = "s_en"
  BY DEF ProcInv, delete_first, At
<1>2. /\ Steady /\ UNCHANGED <<clients, state, msg_cnt, clash, heap, first, allocs>>
      /\ Head(todo).op = "delete" /\ reg' = [reg EXCEPT !.ptr = first]
      /\ todo' = d \o Tail(todo)
  BY DEF delete_first, At, Steady, life_vars, session_vars, list_vars, Then, Cur
<1> HIDE DEF G, d
<1>3. /\ Len(todo) = 1 /\ todo[1] = Head(todo) /\ Tail(todo) = <<>>
      /\ TodoInv(d, G) /\ Pc(d) = "delete_next" /\ Len(d) = 1
      /\ d[1].op = "delete_next" /\ d[1].fd = Head(todo).fd
      /\ d \in Seq(StmtType(G))
      /\ \A st : StopInv(todo, st) => StopInv(d, st)
  BY <1>1, <1>2, DeleteTodo DEF d, DeleteOps
<1>4. todo' = d
  BY <1>2, <1>3, ConcatEmptySeq
<1>5. Pc(todo) = "delete"
  BY <1>1, <1>2, HeadTyped DEF HeadFacts
<1>6. reg.ptr = NULL
  <2>1. Pc(todo) \notin RemoveOps \cup {"delete_next"}
    BY <1>5 DEF RemoveOps
  <2> QED
    BY <1>1, <2>1, PtrNull DEF ListInv
<1>7. /\ ListInv(heap, first, allocs, reg', d, List)
      /\ \A st : DeleteInv(heap, List, reg, todo, st) => DeleteInv(heap, List, reg', d, st)
  BY <1>1, <1>2, <1>6, DeleteFirstList DEF d
<1>8. \A k \in 1..Len(d) : d[k].op \in DeleteOps => state[d[k].fd] = "s_en"
  <2>1. 1 \in 1..Len(todo) /\ \A k \in 1..Len(d) : k = 1
    BY <1>3
  <2> QED
    BY <1>1, <1>2, <1>3, <2>1 DEF DeleteOps
<1>9. clash' \in BOOLEAN
  BY <1>2 DEF ProcInv, LifeInv
<1> QED
  BY <1>1, <1>2, <1>3, <1>4, <1>7, <1>8, <1>9, ListStep DEF G

LEMMA DeleteNextStep ==
  ASSUME ProcInv, delete_next
  PROVE  ProcInv'
<1> DEFINE G == Live(state)
           d == Stmt("delete_next", Head(todo).fd, NULL)
           id == heap[reg.ptr].id
<1>1. /\ TodoInv(todo, G) /\ todo # <<>>
      /\ ListInv(heap, first, allocs, reg, todo, List)
      /\ ~clash => DeleteInv(heap, List, reg, todo, state)
      /\ \A k \in 1..Len(todo) : todo[k].op \in DeleteOps => state[todo[k].fd] = "s_en"
  BY DEF ProcInv, delete_next, At
<1>2. /\ Steady /\ UNCHANGED <<clients, state, msg_cnt, clash, heap, first, allocs>>
      /\ Head(todo).op = "delete_next" /\ reg.ptr # NULL
      /\ reg' = [reg EXCEPT !.ptr = heap[reg.ptr].next]
      /\ todo' = ((IF heap[reg.ptr].sockfd = Head(todo).fd THEN queue_remove(id) ELSE <<>>) \o d)
                   \o Tail(todo)
  BY DEF delete_next, At, Steady, life_vars, session_vars, list_vars, Then, Cur
<1> HIDE DEF G, d, id
<1>3. /\ Len(todo) = 1 /\ todo[1] = Head(todo) /\ Tail(todo) = <<>>
      /\ TodoInv(d, G) /\ Pc(d) = "delete_next" /\ Len(d) = 1
      /\ d[1].op = "delete_next" /\ d[1].fd = Head(todo).fd
      /\ d \in Seq(StmtType(G))
      /\ \A st : StopInv(todo, st) => StopInv(d, st)
  BY <1>1, <1>2, DeleteTodo DEF d, DeleteOps
<1>4. state[Head(todo).fd] = "s_en"
  <2>1. 1 \in 1..Len(todo)
    BY <1>3
  <2> QED
    BY <1>1, <1>2, <1>3, <2>1 DEF DeleteOps
<1>5. clash' \in BOOLEAN
  BY <1>2 DEF ProcInv, LifeInv
<1>6. CASE heap[reg.ptr].sockfd # Head(todo).fd
  <2>1. todo' = d
    <3>1. todo' = (<<>> \o d) \o <<>>
      BY <1>2, <1>3, <1>6
    <3> QED
      BY <1>3, <3>1, ConcatEmptySeq
  <2>2. /\ ListInv(heap, first, allocs, reg', d, List)
        /\ \A st : DeleteInv(heap, List, reg, todo, st) => DeleteInv(heap, List, reg', d, st)
    BY <1>1, <1>2, <1>6, DeleteSkipList DEF d
  <2>3. \A k \in 1..Len(d) : d[k].op \in DeleteOps => state[d[k].fd] = "s_en"
    <3>1. \A k \in 1..Len(d) : k = 1
      BY <1>3
    <3> QED
      BY <1>3, <1>4, <3>1
  <2> QED
    BY <1>1, <1>2, <1>3, <1>5, <2>1, <2>2, <2>3, ListStep DEF G
<1>7. CASE heap[reg.ptr].sockfd = Head(todo).fd
  <2> DEFINE u == queue_remove(id) \o d
  <2>1. id \in Id
    <3>1. reg.ptr \in DOMAIN heap /\ heap[reg.ptr] \in ItemType
      BY <1>1, <1>2, ChainFacts DEF ListInv, PtrInv, InList
    <3> QED
      BY <3>1 DEF ItemType, id
  <2>2. todo' = u
    <3>1. queue_remove(id) \in Seq(StmtType(G))
      BY <2>1 DEF queue_remove, Stmt, StmtType
    <3>2. todo' = (queue_remove(id) \o d) \o Tail(todo)
      BY <1>2, <1>7
    <3>3. todo' = u \o <<>>
      BY <1>3, <3>2
    <3>4. u \in Seq(StmtType(G))
      BY <1>3, <3>1, ConcatProperties
    <3> HIDE DEF u
    <3> QED
      BY <3>3, <3>4, ConcatEmptySeq
  <2>3. Pc(d) \notin Conts \cup {"remove_read"}
    BY <1>3 DEF Conts
  <2>4. /\ TodoInv(u, G)
        /\ Pc(u) = "remove_read" /\ Head(u).arg = id
        /\ \A st : StopInv(d, st) => StopInv(u, st)
        /\ Len(u) = Len(d) + 3
        /\ \A i \in 1..Len(d) : u[i + 3] = d[i]
        /\ \A i \in 1..3 : u[i].op \in RemoveOps
    BY <1>3, <2>1, <2>3, RemovePushed
  <2> HIDE DEF u
  <2>5. Len(u) = 4 /\ u[4] = d[1] /\ 4 \in 1..Len(u)
    <3>1. Len(u) = 4 /\ 1 \in 1..Len(d) /\ 1 + 3 = 4 /\ 4 \in 1..4
      BY <1>3, <2>4
    <3>2. u[1 + 3] = d[1]
      BY <2>4, <3>1
    <3> QED
      BY <3>1, <3>2
  <2>6. \E i \in 1..Len(u) : u[i].op = "delete_next"
    BY <1>3, <2>5
  <2>7. \A i \in 1..Len(u) : u[i].op \in DeleteOps => u[i].fd = Head(todo).fd
    <3> SUFFICES ASSUME NEW i \in 1..Len(u), u[i].op \in DeleteOps
                 PROVE  u[i].fd = Head(todo).fd
      OBVIOUS
    <3>1. i \notin 1..3
      BY <2>4 DEF RemoveOps, DeleteOps
    <3>2. i = 4
      BY <2>5, <3>1
    <3> QED
      BY <1>3, <2>5, <3>2
  <2>8. /\ ListInv(heap, first, allocs, reg', u, List)
        /\ \A st : DeleteInv(heap, List, reg, todo, st) => DeleteInv(heap, List, reg', u, st)
    <3>1. TodoInv(u, G) /\ Pc(u) = "remove_read" /\ Head(u).arg = heap[reg.ptr].id
      BY <2>4 DEF id
    <3>2. TodoInv(todo, G) /\ todo # <<>> /\ ListInv(heap, first, allocs, reg, todo, List)
      BY <1>1
    <3>3. /\ Head(todo).op = "delete_next" /\ reg.ptr # NULL
          /\ reg' = [reg EXCEPT !.ptr = heap[reg.ptr].next]
      BY <1>2
    <3> QED
      BY <2>6, <2>7, <3>1, <3>2, <3>3, DeleteOwnList
  <2>9. \A k \in 1..Len(u) : u[k].op \in DeleteOps => state[u[k].fd] = "s_en"
    BY <1>4, <2>7
  <2>10. \A st : StopInv(todo, st) => StopInv(u, st)
    BY <1>3, <2>4
  <2> QED
    BY <1>1, <1>2, <1>5, <2>2, <2>4, <2>8, <2>9, <2>10, ListStep DEF G
<1> QED
  BY <1>6, <1>7

(* A client taken out of the list of clients. *)
Without(c, f, r) ==
  /\ r \in Seq(Fd) /\ IsInjective(r)
  /\ \A g \in Fd : (\E i \in 1..Len(r) : r[i] = g) <=> g # f /\ \E i \in 1..Len(c) : c[i] = g

LEMMA RemoveFirstIs ==
  ASSUME NEW c \in Seq(Fd), IsInjective(c), NEW f, \E i \in 1..Len(c) : c[i] = f
  PROVE  Without(c, f, RemoveFirst(c, f))
<1> DEFINE I == {i \in 1..Len(c) : c[i] = f}
           p == Min(I)
           u == SubSeq(c, 1, p - 1)
           v == SubSeq(c, p + 1, Len(c))
           r == u \o v
<1>1. RemoveFirst(c, f) = RemoveAt(c, p)
  <2>1. I # {}
    OBVIOUS
  <2>2. SelectInSeq(c, LAMBDA x : x = f) = IF I # {} THEN Min(I) ELSE 0
    BY DEF SelectInSeq
  <2>3. SelectInSeq(c, LAMBDA x : x = f) = p
    BY <2>1, <2>2
  <2> QED
    BY <2>3 DEF RemoveFirst
<1>2. RemoveAt(c, p) = r
  BY DEF RemoveAt
<1>3. p \in 1..Len(c) /\ c[p] = f
  <2>1. I \in SUBSET Nat /\ I # {}
    OBVIOUS
  <2> HIDE DEF I
  <2>2. Min(I) \in I
    BY <2>1, LeastNat
  <2> QED
    BY <2>2 DEF I
<1>4. Len(c) \in Nat /\ \A i \in 1..Len(c) : c[i] \in Fd
  OBVIOUS
<1> HIDE DEF p
<1>5. u \in Seq(Fd) /\ Len(u) = p - 1 /\ \A i \in 1..(p - 1) : u[i] = c[i]
  <2>1. 1 \in Int /\ p - 1 \in Int /\ \A i \in 1..(p - 1) : c[i] \in Fd
    BY <1>3, <1>4
  <2>2. /\ u \in Seq(Fd) /\ Len(u) = IF 1 <= p - 1 THEN (p - 1) - 1 + 1 ELSE 0
        /\ \A i \in 1..((p - 1) - 1 + 1) : u[i] = c[1 + i - 1]
    BY <2>1, SubSeqProperties
  <2> HIDE DEF u
  <2>3. Len(u) = p - 1 /\ (p - 1) - 1 + 1 = p - 1 /\ \A i \in 1..(p - 1) : 1 + i - 1 = i
    BY <1>3, <1>4, <2>2
  <2> QED
    BY <2>2, <2>3
<1>6. /\ v \in Seq(Fd) /\ Len(v) = Len(c) - p
      /\ \A i \in 1..(Len(c) - p) : v[i] = c[p + i]
  <2>1. p + 1 \in Int /\ Len(c) \in Int /\ \A i \in (p + 1)..Len(c) : c[i] \in Fd
    BY <1>3, <1>4
  <2>2. /\ v \in Seq(Fd) /\ Len(v) = IF p + 1 <= Len(c) THEN Len(c) - (p + 1) + 1 ELSE 0
        /\ \A i \in 1..(Len(c) - (p + 1) + 1) : v[i] = c[(p + 1) + i - 1]
    BY <2>1, SubSeqProperties
  <2> HIDE DEF v
  <2>3. /\ Len(v) = Len(c) - p /\ Len(c) - (p + 1) + 1 = Len(c) - p
        /\ \A i \in 1..(Len(c) - p) : (p + 1) + i - 1 = p + i
    BY <1>3, <1>4, <2>2
  <2> QED
    BY <2>2, <2>3
<1> HIDE DEF u, v
<1>7. /\ r \in Seq(Fd) /\ Len(r) = Len(u) + Len(v)
      /\ \A i \in 1..(Len(u) + Len(v)) : r[i] = IF i <= Len(u) THEN u[i] ELSE v[i - Len(u)]
  BY <1>5, <1>6, ConcatProperties
<1> HIDE DEF r
<1>8. Len(r) = Len(c) - 1
  BY <1>3, <1>4, <1>5, <1>6, <1>7
<1> DEFINE old(i) == IF i < p THEN i ELSE i + 1
<1>9. \A i \in 1..Len(r) : old(i) \in 1..Len(c) /\ old(i) # p /\ r[i] = c[old(i)]
  <2> SUFFICES ASSUME NEW i \in 1..Len(r)
               PROVE  old(i) \in 1..Len(c) /\ old(i) # p /\ r[i] = c[old(i)]
    OBVIOUS
  <2>1. old(i) \in 1..Len(c) /\ old(i) # p
    BY <1>3, <1>4, <1>8
  <2>2. CASE i < p
    <3>1. i \in 1..(p - 1) /\ i <= Len(u) /\ i \in 1..(Len(u) + Len(v))
      BY <1>3, <1>4, <1>5, <1>6, <1>8, <2>2
    <3> QED
      BY <1>5, <1>7, <2>1, <2>2, <3>1
  <2>3. CASE ~(i < p)
    <3>1. /\ i - Len(u) \in 1..(Len(c) - p) /\ ~(i <= Len(u)) /\ i \in 1..(Len(u) + Len(v))
          /\ p + (i - Len(u)) = i + 1
      BY <1>3, <1>4, <1>5, <1>6, <1>8, <2>3
    <3>2. r[i] = v[i - Len(u)] /\ v[i - Len(u)] = c[p + (i - Len(u))]
      BY <1>6, <1>7, <3>1
    <3> QED
      BY <2>1, <2>3, <3>1, <3>2
  <2> QED
    BY <2>2, <2>3
<1>10. \A j \in 1..Len(c) : j # p => \E i \in 1..Len(r) : old(i) = j
  <2> SUFFICES ASSUME NEW j \in 1..Len(c), j # p
               PROVE  \E i \in 1..Len(r) : old(i) = j
    OBVIOUS
  <2>1. CASE j < p
    <3>1. j \in 1..Len(r) /\ old(j) = j
      BY <1>3, <1>4, <1>8, <2>1
    <3> QED
      BY <3>1
  <2>2. CASE ~(j < p)
    <3>1. j - 1 \in 1..Len(r) /\ old(j - 1) = j
      BY <1>3, <1>4, <1>8, <2>2
    <3> QED
      BY <3>1
  <2> QED
    BY <2>1, <2>2
<1>11. \A i \in 1..Len(r) : \A j \in 1..Len(r) : old(i) = old(j) => i = j
  BY <1>3, <1>4, <1>8
<1> HIDE DEF old
<1>12. \A i \in 1..Len(c) : \A j \in 1..Len(c) : c[i] = c[j] => i = j
  BY <1>4 DEF IsInjective
<1>13. IsInjective(r)
  <2>1. \A i \in 1..Len(r) : \A j \in 1..Len(r) : r[i] = r[j] => i = j
    BY <1>9, <1>11, <1>12
  <2> QED
    BY <1>7, <2>1 DEF IsInjective
<1>14. \A g \in Fd : (\E i \in 1..Len(r) : r[i] = g) <=> g # f /\ \E i \in 1..Len(c) : c[i] = g
  <2> TAKE g \in Fd
  <2>1. ASSUME NEW i \in 1..Len(r), r[i] = g
        PROVE  g # f /\ \E j \in 1..Len(c) : c[j] = g
    BY <1>3, <1>9, <1>12, <2>1
  <2>2. ASSUME g # f, NEW j \in 1..Len(c), c[j] = g
        PROVE  \E i \in 1..Len(r) : r[i] = g
    <3>1. j # p
      BY <1>3, <2>2
    <3>2. PICK i \in 1..Len(r) : old(i) = j
      BY <1>10, <3>1
    <3> QED
      BY <1>9, <2>2, <3>2
  <2> QED
    BY <2>1, <2>2
<1> QED
  BY <1>1, <1>2, <1>7, <1>13, <1>14 DEF Without

LEMMA DeleteEndStep ==
  ASSUME ProcInv, delete_end
  PROVE  ProcInv'
<1> DEFINE G == Live(state)
           f == Head(todo).fd
<1>1. /\ TodoInv(todo, G) /\ todo # <<>> /\ ClientInv(clients, state) /\ LifeInv
      /\ ListInv(heap, first, allocs, reg, todo, List) /\ msg_cnt \in Id
      /\ ~clash => DeleteInv(heap, List, reg, todo, state)
      /\ stop_flag => StopInv(todo, state)
  BY DEF ProcInv, delete_end, At
<1>2. /\ Steady /\ UNCHANGED <<msg_cnt, clash, heap, first, allocs, reg, stop_flag>>
      /\ Head(todo).op = "delete_next" /\ reg.ptr = NULL
      /\ todo' = <<>> \o Tail(todo)
      /\ clients' = RemoveFirst(clients, f)
      /\ state' = [state EXCEPT ![f] = "none"]
  BY DEF delete_end, At, Steady, life_vars, list_vars, Then, Cur
<1>3. todo' = <<>>
  <2>1. Tail(todo) = <<>>
    BY <1>1, <1>2, DeleteTodo DEF DeleteOps
  <2>2. <<>> \o Tail(todo) = Tail(todo)
    BY <1>1, TailTodo
  <2> QED
    BY <1>2, <2>1, <2>2
<1>4. f \in Fd /\ state[f] # "none"
  BY <1>1, <1>2, HeadTyped DEF HeadFacts, DeleteOps, Live
<1> HIDE DEF f
<1>5. ClientInv(clients', state')
  <2>1. /\ clients \in Seq(Fd) /\ IsInjective(clients) /\ state \in [Fd -> States]
        /\ \A g \in Fd : state[g] # "none" <=> \E i \in 1..Len(clients) : clients[i] = g
    BY <1>1 DEF ClientInv
  <2>2. Without(clients, f, clients')
    BY <1>2, <1>4, <2>1, RemoveFirstIs
  <2>3. state' \in [Fd -> States]
    BY <1>2, <2>1 DEF States
  <2>4. \A g \in Fd : state'[g] # "none" <=> g # f /\ state[g] # "none"
    BY <1>2, <2>1
  <2> QED
    BY <2>1, <2>2, <2>3, <2>4 DEF ClientInv, Without
<1>6. TodoInv(todo', Live(state')) /\ Len(todo') = 0
  <2>1. Block(<<>>, Live(state'), {f}, FALSE)
    BY EmptyBlock
  <2>2. TodoInv(<<>>, Live(state'))
    BY <2>1, BlockIsTodo
  <2> QED
    BY <1>3, <2>2
<1>7. \A k \in 1..Len(todo') : FALSE
  BY <1>6
<1>8. stop_flag' => StopInv(todo', state')
  <2>1. \A g \in Fd : state'[g] = "s_op" => state[g] = "s_op"
    BY <1>1, <1>2 DEF ClientInv
  <2> QED
    BY <1>1, <1>2, <1>7, <2>1 DEF StopInv
<1>9. /\ ListInv(heap, first, allocs, reg, <<>>, List)
      /\ \A st : DeleteInv(heap, List, reg, todo, st) /\ st \in [Fd -> States] =>
           DeleteInv(heap, List, reg, <<>>, [st EXCEPT ![f] = "none"])
  BY <1>1, <1>2, DeleteEndList DEF f
<1>10. ~clash' => DeleteInv(heap', List, reg', todo', state')
  BY <1>1, <1>2, <1>3, <1>9 DEF ClientInv
<1>11. LifeInv'
  BY <1>1, <1>2, SteadyLife DEF LifeInv
<1> QED
  BY <1>1, <1>2, <1>3, <1>5, <1>6, <1>7, <1>8, <1>9, <1>10, <1>11, InvNext

-----------------------------------------------------------------------------
(* Every event keeps the invariant *)

LEMMA RunStep ==
  ASSUME ProcInv, NEW u, Run(u), NEW f \in Live(state'), Block(u, Live(state'), {f}, FALSE),
         ClientInv(clients', state'),
         \A g : state[g] # "none" => state'[g] # "none",
         \A g \in Fd : state'[g] = "s_op" => state[g] = "s_op"
  PROVE  ProcInv'
<1>1. /\ TodoInv(todo, Live(state)) /\ LifeInv /\ msg_cnt \in Id
      /\ ListInv(heap, first, allocs, reg, todo, List)
      /\ ~clash => DeleteInv(heap, List, reg, todo, state)
      /\ stop_flag => StopInv(todo, state)
  BY DEF ProcInv
<1>2. /\ stage = "loop" /\ todo = <<>> /\ todo' = u
      /\ UNCHANGED <<stage, queues, stop_flag, heap, first, allocs, msg_cnt, reg, clash>>
  BY DEF Run, Idle, life_vars, list_vars
<1>3. /\ TodoInv(u, Live(state'))
      /\ Pc(u) \notin Conts \cup {"remove_read"}
      /\ \A i \in 1..Len(u) : u[i].op \notin DeleteOps
      /\ \A st : StopInv(<<>>, st) => StopInv(u, st)
  BY Started
<1>4. Pc(todo) = "idle" /\ Pc(todo) \notin Conts \cup RemoveOps \cup {"delete_next"}
  BY <1>2 DEF Pc, Conts, RemoveOps
<1>5. reg.ptr = NULL
  BY <1>1, <1>4, PtrNull DEF ListInv
<1>6. ListInv(heap, first, allocs, reg, u, List)
  <2>1. reg \in RegType /\ SameReg(reg, reg)
    BY <1>1 DEF ListInv, RegInv, SameReg
  <2> QED
    BY <1>1, <1>3, <1>4, <1>5, <2>1, QuietList
<1>7. ~clash => DeleteInv(heap, List, reg, u, state')
  BY <1>1, <1>3, QuietDelete
<1>8. stop_flag => StopInv(u, state')
  <2> SUFFICES ASSUME stop_flag
               PROVE  StopInv(u, state')
    OBVIOUS
  <2>1. \A i \in 1..Len(<<>>) : FALSE
    OBVIOUS
  <2>2. StopInv(<<>>, state')
    BY <1>1, <1>2, <2>1 DEF StopInv
  <2> QED
    BY <1>3, <2>2
<1>9. LifeInv'
  BY <1>1, <1>2 DEF LifeInv
<1> QED
  BY <1>1, <1>2, <1>3, <1>6, <1>7, <1>8, <1>9, InvNext

LEMMA PollingStep ==
  ASSUME ProcInv, NEW f \in Fd, NEW type \in InType, udp_polling(f, type)
  PROVE  ProcInv'
<1> DEFINE u == send_confirm(f) \o Stmt("process_msg", f, type)
           G == Live(state')
<1>1. /\ Run(u) /\ state[f] = "none" /\ clients' = Append(clients, f)
      /\ state' = [state EXCEPT ![f] = "s_ac"]
  BY DEF udp_polling
<1>2. /\ clients \in Seq(Fd) /\ IsInjective(clients) /\ state \in [Fd -> States]
      /\ \A g \in Fd : state[g] # "none" <=> \E i \in 1..Len(clients) : clients[i] = g
  BY DEF ProcInv, ClientInv
<1>3. state' \in [Fd -> States] /\ f \in G
  BY <1>1, <1>2 DEF States, Live
<1>4. /\ \A g : state[g] # "none" => state'[g] # "none"
      /\ \A g \in Fd : state'[g] # "none" <=> g = f \/ state[g] # "none"
      /\ \A g \in Fd : state'[g] = "s_op" => state[g] = "s_op"
  BY <1>1, <1>2
<1>5. /\ clients' \in Seq(Fd) /\ Len(clients) \in Nat /\ Len(clients') = Len(clients) + 1
      /\ clients'[Len(clients) + 1] = f
      /\ \A i \in 1..Len(clients) : clients'[i] = clients[i] /\ clients[i] # f
  BY <1>1, <1>2
<1>6. \A i \in 1..Len(clients') : i \in 1..Len(clients) \/ i = Len(clients) + 1
  BY <1>5
<1>7. IsInjective(clients')
  <2>1. \A i \in 1..Len(clients) : \A j \in 1..Len(clients) : clients[i] = clients[j] => i = j
    BY <1>2 DEF IsInjective
  <2>2. \A i \in 1..Len(clients') : \A j \in 1..Len(clients') : clients'[i] = clients'[j] => i = j
    BY <1>5, <1>6, <2>1
  <2> QED
    BY <1>5, <2>2 DEF IsInjective
<1>8. \A g \in Fd : (\E i \in 1..Len(clients') : clients'[i] = g)
                      <=> g = f \/ \E i \in 1..Len(clients) : clients[i] = g
  <2>1. Len(clients) + 1 \in 1..Len(clients') /\ \A i \in 1..Len(clients) : i \in 1..Len(clients')
    BY <1>5
  <2> QED
    BY <1>5, <1>6, <2>1
<1>9. ClientInv(clients', state')
  BY <1>2, <1>3, <1>4, <1>5, <1>7, <1>8 DEF ClientInv
<1> HIDE DEF G
<1>10. Block(u, G, {f}, FALSE)
  <2>1. Block(send_confirm(f), G, {f}, FALSE) /\ Block(Stmt("process_msg", f, type), G, {f}, FALSE)
    BY <1>3, ConfirmBlock, ActBlock
  <2> QED
    BY <2>1, BlockConcat
<1> HIDE DEF u
<1> QED
  BY <1>1, <1>3, <1>4, <1>9, <1>10, RunStep DEF G

LEMMA SockStep ==
  ASSUME ProcInv, NEW f \in Fd, NEW type \in InType, process_msg_sock(f, type)
  PROVE  ProcInv'
<1> DEFINE u == send_confirm(f) \o Stmt("process_msg", f, type)
<1>1. Run(u) /\ state[f] # "none" /\ UNCHANGED <<clients, state>>
  BY DEF process_msg_sock, session_vars
<1>2. f \in Live(state') /\ ClientInv(clients', state')
  BY <1>1 DEF Live, ProcInv
<1>3. Block(u, Live(state'), {f}, FALSE)
  <2>1. /\ Block(send_confirm(f), Live(state'), {f}, FALSE)
        /\ Block(Stmt("process_msg", f, type), Live(state'), {f}, FALSE)
    BY <1>2, ConfirmBlock, ActBlock
  <2> QED
    BY <2>1, BlockConcat
<1> HIDE DEF u
<1> QED
  BY <1>1, <1>2, <1>3, RunStep

LEMMA RecvConfirmStep ==
  ASSUME ProcInv, NEW f \in Fd, NEW id \in 0..WIDTH - 1, recv_confirm(f, id)
  PROVE  ProcInv'
<1> DEFINE u == Stmt("confirm", f, id)
<1>1. Run(u) /\ state[f] # "none" /\ UNCHANGED <<clients, state>>
  BY DEF recv_confirm, session_vars
<1>2. f \in Live(state') /\ ClientInv(clients', state')
  BY <1>1 DEF Live, ProcInv
<1>3. Block(u, Live(state'), {f}, FALSE)
  <2>1. [op |-> "confirm", fd |-> f, arg |-> id] \in StmtType(Live(state'))
    BY <1>2 DEF StmtType, Id
  <2>2. ~Reopens([op |-> "confirm", fd |-> f, arg |-> id])
    BY DEF Reopens
  <2>3. "confirm" \notin Conts \cup Openers \cup DeleteOps
    BY DEF Conts, Openers, DeleteOps
  <2> QED
    BY <2>1, <2>2, <2>3, StmtBlock
<1> HIDE DEF u
<1> QED
  BY <1>1, <1>2, <1>3, RunStep

(* udp_timeout starts to delete a client that has ended. *)
LEMMA DeleteStarts ==
  ASSUME ProcInv, NEW f \in Fd, state[f] = "s_en", Run(Stmt("delete", f, NULL)),
         UNCHANGED <<clients, state>>
  PROVE  ProcInv'
<1> DEFINE x == [op |-> "delete", fd |-> f, arg |-> NULL]
           u == <<x>>
           G == Live(state)
<1>1. /\ TodoInv(todo, G) /\ LifeInv /\ msg_cnt \in Id /\ ClientInv(clients, state)
      /\ ListInv(heap, first, allocs, reg, todo, List)
      /\ ~clash => DeleteInv(heap, List, reg, todo, state)
      /\ stop_flag => StopInv(todo, state)
  BY DEF ProcInv
<1>2. /\ stage = "loop" /\ todo = <<>> /\ todo' = u
      /\ UNCHANGED <<stage, queues, stop_flag, heap, first, allocs, msg_cnt, reg, clash>>
  BY DEF Run, Idle, life_vars, list_vars, Stmt
<1>3. x \in StmtType(G) /\ x.op = "delete" /\ x.fd = f
  BY DEF StmtType, Live, G
<1> HIDE DEF x, G
<1>4. u \in Seq(StmtType(G)) /\ Len(u) = 1 /\ u # <<>> /\ u[1] = x /\ Head(u) = x
  BY <1>3
<1>5. Pc(u) = "delete"
  BY <1>3, <1>4 DEF Pc
<1> HIDE DEF u
<1>6. \A i \in 1..Len(u) : i = 1
  BY <1>4
<1>7. TodoInv(u, G)
  <2>1. "delete" \notin Openers /\ "delete" \notin Acts
    BY DEF Openers, Acts
  <2>2. Grammar(u)
    <3>1. \A i \in 1..Len(u) : ~(i < Len(u))
      BY <1>4
    <3> QED
      BY <1>3, <1>4, <1>6, <2>1, <3>1 DEF Grammar
  <2>3. DeletesAlone(u)
    <3>1. \A i \in 1..Len(u) : i = Len(u) /\ \A j \in 1..Len(u) : ~(j < i)
      BY <1>4
    <3> QED
      BY <3>1 DEF DeletesAlone
  <2>4. OneClient(u)
    BY <1>6 DEF OneClient
  <2> QED
    BY <1>4, <2>2, <2>3, <2>4 DEF TodoInv
<1>8. Pc(todo) = "idle" /\ Pc(todo) \notin Conts \cup RemoveOps \cup {"delete_next"}
  BY <1>2 DEF Pc, Conts, RemoveOps
<1>9. reg.ptr = NULL
  BY <1>1, <1>8, PtrNull DEF ListInv
<1>10. Pc(u) \notin Conts
  BY <1>5 DEF Conts
<1>11. ListInv(heap, first, allocs, reg, u, List)
  <2>1. reg \in RegType /\ SameReg(reg, reg)
    BY <1>1 DEF ListInv, RegInv, SameReg
  <2> QED
    BY <1>1, <1>8, <1>9, <1>10, <2>1, QuietList
<1>12. ~clash => DeleteInv(heap, List, reg, u, state)
  <2> SUFFICES ASSUME DeleteInv(heap, List, reg, todo, state)
               PROVE  DeleteInv(heap, List, reg, u, state)
    BY <1>1
  <2>1. \A i \in 1..Len(List) : Ahead(heap, List, reg, u, i)
    BY <1>3, <1>4 DEF Ahead
  <2>2. Pc(u) \notin {"add_walk", "add_link"}
    BY <1>5
  <2> QED
    BY <2>1, <2>2 DEF DeleteInv
<1>13. stop_flag => StopInv(u, state)
  <2>1. ~Reopens(x)
    BY <1>3 DEF Reopens
  <2> QED
    BY <1>1, <1>4, <1>6, <2>1 DEF StopInv
<1>14. \A k \in 1..Len(u) : u[k].op \in DeleteOps => state[u[k].fd] = "s_en"
  BY <1>3, <1>4, <1>6
<1>15. LifeInv'
  BY <1>1, <1>2 DEF LifeInv
<1> QED
  BY <1>1, <1>2, <1>7, <1>11, <1>12, <1>13, <1>14, <1>15, InvNext DEF G

LEMMA TimeoutStep ==
  ASSUME ProcInv, NEW f \in Fd, udp_timeout(f)
  PROVE  ProcInv'
<1> DEFINE u == close_client(f) \o forward_msg_channel(f)
<1>1. state[f] # "none" /\ UNCHANGED <<clients, state>>
  BY DEF udp_timeout, session_vars
<1>2. \/ state[f] = "s_en" /\ Run(Stmt("delete", f, NULL))
      \/ Run(u)
  BY DEF udp_timeout
<1>3. f \in Live(state) /\ ClientInv(clients, state)
  BY <1>1 DEF Live, ProcInv
<1>4. clients \in Seq(Live(state))
  <2>1. clients \in Seq(Fd) /\ \A i \in 1..Len(clients) : clients[i] \in Live(state)
    BY <1>3 DEF ClientInv, Live
  <2> QED
    BY <2>1
<1>5. Block(u, Live(state), {f}, FALSE)
  <2>1. Block(close_client(f), Live(state), {f}, FALSE)
    BY <1>3, CloseBlock
  <2>2. Block(forward_msg_channel(f), Live(state), {f}, FALSE)
    BY <1>3, <1>4, ChannelBlock
  <2> QED
    BY <2>1, <2>2, BlockConcat
<1> HIDE DEF u
<1>6. CASE state[f] = "s_en" /\ Run(Stmt("delete", f, NULL))
  BY <1>1, <1>6, DeleteStarts
<1>7. CASE Run(u)
  BY <1>1, <1>3, <1>5, <1>7, RunStep
<1> QED
  BY <1>2, <1>6, <1>7

-----------------------------------------------------------------------------
(* SIGINT keeps the invariant *)

(* What sigint_handler does to the messages of clients. *)
LEMMA EndedDelete ==
  ASSUME NEW a, NEW s, NEW r, NEW t, NEW c, NEW n, NEW b, NEW s2, NEW f, NEW l,
         ListInv(a.heap, f, l, r, t, s), DeleteInv(a.heap, s, r, t, a.state),
         Ending(a, s, r, t, c, n, b, s2),
         \A m \in DOMAIN b.heap \ DOMAIN a.heap : Alone(b.heap, s2, m),
         \A k \in 1..Len(t) : t[k].op \in DeleteOps => a.state[t[k].fd] = "s_en"
  PROVE  DeleteInv(b.heap, s2, r, t, b.state)
<1> DEFINE h == a.heap
           h2 == b.heap
           st == a.state
           st2 == b.state
<1>1. /\ ListInv(h2, b.first, b.allocs, r, t, s2)
      /\ \A g \in Fd : st2[g] = IF \E j \in 1..n : c[j] = g THEN "s_en" ELSE st[g]
      /\ Len(s) <= Len(s2) /\ \A k \in 1..Len(s) : s2[k] = s[k]
      /\ \A m \in DOMAIN h : SameItem(h2[m], h[m])
      /\ \A k \in (Len(s) + 1)..Len(s2) :
           s2[k] \notin DOMAIN h /\ st[h2[s2[k]].sockfd] \notin {"none", "s_en"}
  BY DEF Ending
<1>2. /\ Len(s) \in Nat /\ \A i \in 1..Len(s) : s[i] \in DOMAIN h
      /\ \A m \in DOMAIN h : h[m] \in ItemType
  BY ChainFacts DEF ListInv
<1>3. /\ Len(s2) \in Nat /\ \A i \in 1..Len(s2) : s2[i] \in DOMAIN h2
      /\ \A m \in DOMAIN h2 : h2[m] \in ItemType
      /\ \A i \in 1..Len(s2) : \A j \in 1..Len(s2) : s2[i] = s2[j] => i = j
  BY <1>1, ChainFacts DEF ListInv
<1>4. \A k \in 1..Len(t) : t[k].op \in DeleteOps => st[t[k].fd] = "s_en"
  OBVIOUS
<1>5. \A m \in DOMAIN h2 \ DOMAIN h : Alone(h2, s2, m)
  OBVIOUS
<1>6. /\ Distinct(h, s) /\ \A i \in 1..Len(s) : st[h[s[i]].sockfd] # "none"
      /\ Pc(t) \in {"add_walk", "add_link"} => st[h[r.item].sockfd] # "none"
      /\ \A k \in 1..Len(t) : t[k].op \in DeleteOps =>
           \A i \in 1..Len(s) : h[s[i]].sockfd = t[k].fd => Ahead(h, s, r, t, i)
  BY DEF DeleteInv
<1>7. RegInv(h, s, r, Pc(t))
  BY DEF ListInv
<1> HIDE DEF h, h2, st, st2
<1>8. \A g \in Fd : st[g] # "none" => st2[g] # "none"
  BY <1>1
<1>9. \A i \in 1..Len(s2) : i \in 1..Len(s) \/ i \in (Len(s) + 1)..Len(s2)
  BY <1>1, <1>2, <1>3
<1>10. \A i \in 1..Len(s) : i \in 1..Len(s2) /\ s2[i] = s[i] /\ SameItem(h2[s2[i]], h[s[i]])
  BY <1>1, <1>2, <1>3
<1>11. \A i \in (Len(s) + 1)..Len(s2) : i \in 1..Len(s2) /\ s2[i] \in DOMAIN h2 \ DOMAIN h
  <2>1. \A i \in (Len(s) + 1)..Len(s2) : i \in 1..Len(s2)
    BY <1>2, <1>3
  <2> QED
    BY <1>1, <1>3, <2>1
<1>12. Distinct(h2, s2)
  <2> SUFFICES ASSUME NEW i \in 1..Len(s2), NEW j \in 1..Len(s2), h2[s2[i]].id = h2[s2[j]].id
               PROVE  i = j
    BY DEF Distinct
  <2>1. CASE i \in (Len(s) + 1)..Len(s2)
    <3>1. Alone(h2, s2, s2[i])
      BY <1>5, <1>11, <2>1
    <3>2. s2[j] = s2[i]
      BY <3>1 DEF Alone
    <3> QED
      BY <1>3, <3>2
  <2>2. CASE j \in (Len(s) + 1)..Len(s2)
    <3>1. Alone(h2, s2, s2[j])
      BY <1>5, <1>11, <2>2
    <3>2. s2[i] = s2[j]
      BY <3>1 DEF Alone
    <3> QED
      BY <1>3, <3>2
  <2>3. CASE i \in 1..Len(s) /\ j \in 1..Len(s)
    <3>1. h[s[i]].id = h[s[j]].id
      BY <1>10, <2>3 DEF SameItem
    <3> QED
      BY <1>6, <2>3, <3>1 DEF Distinct
  <2> QED
    BY <1>9, <2>1, <2>2, <2>3
<1>13. \A i \in 1..Len(s2) : st2[h2[s2[i]].sockfd] # "none"
  <2> SUFFICES ASSUME NEW i \in 1..Len(s2)
               PROVE  st2[h2[s2[i]].sockfd] # "none"
    OBVIOUS
  <2>1. h2[s2[i]].sockfd \in Fd
    BY <1>3 DEF ItemType
  <2>2. st[h2[s2[i]].sockfd] # "none"
    <3>1. CASE i \in 1..Len(s)
      BY <1>6, <1>10, <3>1 DEF SameItem
    <3>2. CASE i \in (Len(s) + 1)..Len(s2)
      BY <1>1, <3>2 DEF st, h2
    <3> QED
      BY <1>9, <3>1, <3>2
  <2> QED
    BY <1>8, <2>1, <2>2
<1>14. Pc(t) \in {"add_walk", "add_link"} => st2[h2[r.item].sockfd] # "none"
  <2> SUFFICES ASSUME Pc(t) \in {"add_walk", "add_link"}
               PROVE  st2[h2[r.item].sockfd] # "none"
    OBVIOUS
  <2>1. r.item \in DOMAIN h
    BY <1>7 DEF RegInv, Fresh
  <2>2. h2[r.item].sockfd = h[r.item].sockfd /\ h[r.item].sockfd \in Fd
    BY <1>1, <1>2, <2>1 DEF SameItem, ItemType, h, h2
  <2> QED
    BY <1>6, <1>8, <2>2
<1>15. ASSUME NEW k \in 1..Len(t), t[k].op \in DeleteOps,
              NEW i \in 1..Len(s2), h2[s2[i]].sockfd = t[k].fd
       PROVE  Ahead(h2, s2, r, t, i)
  <2>1. i \notin (Len(s) + 1)..Len(s2)
    BY <1>1, <1>4, <1>15 DEF st, h2
  <2>2. i \in 1..Len(s)
    BY <1>9, <2>1
  <2>3. s2[i] = s[i] /\ h2[s2[i]].sockfd = h[s[i]].sockfd /\ h2[s2[i]].id = h[s[i]].id
    BY <1>10, <2>2 DEF SameItem
  <2>4. Ahead(h, s, r, t, i)
    BY <1>6, <1>15, <2>2, <2>3
  <2>5. \A q \in 1..i : s2[q] = s[q]
    <3>1. \A q \in 1..i : q \in 1..Len(s)
      BY <1>2, <2>2
    <3> QED
      BY <1>10, <3>1
  <2> QED
    BY <2>3, <2>4, <2>5 DEF Ahead
<1> QED
  BY <1>12, <1>13, <1>14, <1>15 DEF DeleteInv, h2, st2

LEMMA SigintStep ==
  ASSUME ProcInv, sigint_handler
  PROVE  ProcInv'
<1> DEFINE b == AllEnded
           G == Live(state)
<1>1. /\ TodoInv(todo, G) /\ LifeInv /\ msg_cnt \in Id /\ ClientInv(clients, state)
      /\ ListInv(heap, first, allocs, reg, todo, List)
      /\ ~clash => DeleteInv(heap, List, reg, todo, state)
      /\ \A k \in 1..Len(todo) : todo[k].op \in DeleteOps => state[todo[k].fd] = "s_en"
  BY DEF ProcInv
<1>2. /\ state' = b.state /\ msg_cnt' = b.msg_cnt /\ heap' = b.heap
      /\ allocs' = b.allocs /\ first' = b.first /\ stop_flag' = TRUE
      /\ clash' = (clash \/ \E n \in DOMAIN heap' \ DOMAIN heap : Clashes(n))
      /\ UNCHANGED <<stage, queues, clients, todo, reg>>
  BY DEF sigint_handler
<1>3. PICK s : Ending(Now, List, reg, todo, clients, Len(clients), b, s)
  BY <1>1, AllEndedDoes
<1> HIDE DEF b
<1>4. /\ Now.state = state /\ Now.heap = heap
  BY DEF Now
<1>5. /\ msg_cnt' \in Id /\ state' \in [Fd -> States]
      /\ ListInv(heap', first', allocs', reg, todo, s)
      /\ \A g \in Fd : state'[g] =
           IF \E j \in 1..Len(clients) : clients[j] = g THEN "s_en" ELSE state[g]
  BY <1>2, <1>3, <1>4 DEF Ending
<1>6. \A g \in Fd : state'[g] = IF state[g] # "none" THEN "s_en" ELSE "none"
  BY <1>1, <1>5 DEF ClientInv
<1>7. ClientInv(clients', state') /\ Live(state') = G
  BY <1>1, <1>2, <1>5, <1>6 DEF ClientInv, Live
<1>8. \A k \in 1..Len(todo') : todo'[k].op \in DeleteOps => state'[todo'[k].fd] = "s_en"
  <2> SUFFICES ASSUME NEW k \in 1..Len(todo), todo[k].op \in DeleteOps
               PROVE  state'[todo[k].fd] = "s_en"
    BY <1>2
  <2>1. todo[k] \in StmtType(G)
    BY <1>1 DEF TodoInv
  <2>2. todo[k].fd \in G
    BY <2>1 DEF StmtType, DeleteOps
  <2> QED
    BY <1>6, <2>2 DEF Live
<1>9. StopInv(todo', state')
  BY <1>6 DEF StopInv
<1>10. LifeInv'
  BY <1>1, <1>2 DEF LifeInv, Clashes
<1>11. ASSUME ~clash'
       PROVE  DeleteInv(heap', s, reg', todo', state')
  <2>1. ~clash /\ \A n \in DOMAIN heap' \ DOMAIN heap : ~Clashes(n)
    BY <1>2, <1>11
  <2>2. Items(heap', first') = s /\ s \in Seq(DOMAIN heap')
    BY <1>5, ListIs DEF ListInv, Chain
  <2>3. \A i \in 1..Len(s) : s[i] \in Range(s)
    BY <2>2 DEF Range
  <2>4. \A n \in DOMAIN heap' \ DOMAIN heap : Alone(heap', s, n)
    BY <2>1, <2>2, <2>3 DEF Clashes, Alone
  <2>5. DeleteInv(heap, List, reg, todo, state)
    BY <1>1, <2>1
  <2>6. DeleteInv(b.heap, s, reg, todo, b.state)
    <3>1. /\ ListInv(Now.heap, first, allocs, reg, todo, List)
          /\ DeleteInv(Now.heap, List, reg, todo, Now.state)
          /\ \A n \in DOMAIN b.heap \ DOMAIN Now.heap : Alone(b.heap, s, n)
          /\ \A k \in 1..Len(todo) : todo[k].op \in DeleteOps => Now.state[todo[k].fd] = "s_en"
      BY <1>1, <1>2, <1>4, <2>4, <2>5
    <3> HIDE DEF Now
    <3> QED
      BY <1>3, <3>1, EndedDelete
  <2> QED
    BY <1>2, <2>6
<1> QED
  BY <1>1, <1>2, <1>5, <1>7, <1>8, <1>9, <1>10, <1>11, InvNext

(* A step that leaves everything but the life of the process alone. *)
LEMMA StillStep ==
  ASSUME ProcInv, LifeInv',
         UNCHANGED <<clients, state, heap, first, allocs, msg_cnt, todo, reg, clash>>,
         stop_flag' => stop_flag \/ \A f \in Fd : state[f] # "s_op"
  PROVE  ProcInv'
<1>1. /\ TodoInv(todo, Live(state)) /\ msg_cnt \in Id /\ ClientInv(clients, state)
      /\ ListInv(heap, first, allocs, reg, todo, List)
      /\ ~clash => DeleteInv(heap, List, reg, todo, state)
      /\ \A k \in 1..Len(todo) : todo[k].op \in DeleteOps => state[todo[k].fd] = "s_en"
      /\ stop_flag => StopInv(todo, state)
  BY DEF ProcInv
<1>2. stop_flag' => StopInv(todo', state')
  BY <1>1 DEF StopInv
<1> QED
  BY <1>1, <1>2, InvNext

LEMMA SigintOtherStep ==
  ASSUME ProcInv, sigint_wild \/ sigint_default
  PROVE  ProcInv'
<1>1. UNCHANGED <<clients, state, heap, first, allocs, msg_cnt, todo, reg, clash, queues>>
  BY DEF sigint_wild, sigint_default, session_vars, list_vars
<1>2. LifeInv
  BY DEF ProcInv
<1>3. CASE sigint_wild
  <2>1. /\ ~stop_flag /\ queues.clients # "created"
        /\ \/ stage' = "crashed" /\ UNCHANGED stop_flag
           \/ stop_flag' = TRUE /\ UNCHANGED stage
    BY <1>3 DEF sigint_wild
  <2>2. stage \notin {"msg_out_buf", "server_open", "loop"}
    BY <1>2, <2>1 DEF LifeInv
  <2>3. \A f \in Fd : state[f] = "none"
    BY <1>2, <2>1, <2>2 DEF LifeInv
  <2>4. stage # "killed" => todo = <<>>
    BY <1>2, <2>2 DEF LifeInv
  <2>5. stage # "killed"
    BY <1>3 DEF sigint_wild, Over
  <2>6. LifeInv'
    BY <1>1, <1>2, <2>1, <2>2, <2>3, <2>4, <2>5 DEF LifeInv, Stages
  <2>7. \A f \in Fd : state[f] # "s_op"
    BY <2>3
  <2> QED
    BY <1>1, <2>6, <2>7, StillStep
<1>4. CASE sigint_default
  <2>1. stop_flag /\ UNCHANGED stop_flag /\ stage' = "killed"
    BY <1>4 DEF sigint_default
  <2>2. LifeInv'
    BY <1>1, <1>2, <2>1 DEF LifeInv, Stages
  <2> QED
    BY <1>1, <2>1, <2>2, StillStep
<1> QED
  BY <1>3, <1>4

-----------------------------------------------------------------------------
(* Start-up and stop keep the invariant *)

LEMMA LifeStep ==
  ASSUME ProcInv, Life, ~stop_msg_out_buf
  PROVE  ProcInv'
<1>1. LifeInv
  BY DEF ProcInv
<1>2. UNCHANGED <<clients, state, heap, first, allocs, msg_cnt, stop_flag, todo, reg, clash>>
  BY DEF Life, main_argv, main_pollfd, main_queue, main_server_open, main_stop, stop_clients,
         Go, list_vars, session_vars
<1>3. \/ /\ UNCHANGED queues
         /\ \/ stage = "argv" /\ stage' \in {"exited", "pollfd"}
            \/ stage = "pollfd" /\ stage' \in {"clients", "crashed"}
            \/ stage \in {"clients", "msg_out_buf"} /\ stage' = "stop"
            \/ stage = "server_open" /\ stage' \in {"loop", "stop"}
            \/ stage = "loop" /\ stage' = "stop" /\ stop_flag /\ todo = <<>>
      \/ stage = "clients" /\ stage' = "msg_out_buf" /\ queues' = [queues EXCEPT !["clients"] = "created"]
      \/ /\ stage = "msg_out_buf" /\ stage' = "server_open"
         /\ queues' = [queues EXCEPT !["msg_out_buf"] = "created"]
      \/ stage = "stop" /\ stage' = "stop_msg_out_buf" /\ queues' = Freed("clients")
  <2>1. CASE main_argv
    BY <2>1 DEF main_argv, Go
  <2>2. CASE main_pollfd
    BY <2>2 DEF main_pollfd, Go
  <2>3. CASE main_queue("clients", "msg_out_buf")
    BY <2>3 DEF main_queue, Go
  <2>4. CASE main_queue("msg_out_buf", "server_open")
    BY <2>4 DEF main_queue, Go
  <2>5. CASE main_server_open
    BY <2>5 DEF main_server_open, Go
  <2>6. CASE main_stop
    BY <2>6 DEF main_stop, Go, Idle
  <2>7. CASE stop_clients
    BY <2>7 DEF stop_clients, Go
  <2> QED
    BY <2>1, <2>2, <2>3, <2>4, <2>5, <2>6, <2>7 DEF Life
<1>4. LifeInv'
  <2>1. /\ stage' \in Stages
        /\ stage' \notin {"loop", "killed"} => todo' = <<>>
        /\ stage' # "loop" /\ ~stop_flag' => \A f \in Fd : state'[f] = "none"
        /\ stop_flag' \in BOOLEAN /\ clash' \in BOOLEAN
    BY <1>1, <1>2, <1>3 DEF LifeInv, Stages
  <2>2. /\ queues' \in [{"clients", "msg_out_buf"} -> {"null", "created", "freed"}]
        /\ stage' \in {"msg_out_buf", "server_open", "loop"} => queues'.clients = "created"
    <3> DEFINE Q == [{"clients", "msg_out_buf"} -> {"null", "created", "freed"}]
    <3>1. CASE UNCHANGED queues /\ stage' \notin {"msg_out_buf", "server_open"}
      BY <1>1, <1>3, <3>1 DEF LifeInv
    <3>2. CASE stage' = "msg_out_buf" /\ queues' = [queues EXCEPT !["clients"] = "created"]
      BY <1>1, <3>2 DEF LifeInv
    <3>3. CASE /\ stage = "msg_out_buf" /\ stage' = "server_open"
               /\ queues' = [queues EXCEPT !["msg_out_buf"] = "created"]
      BY <1>1, <3>3 DEF LifeInv
    <3>4. CASE stage' = "stop_msg_out_buf" /\ queues' = Freed("clients")
      BY <1>1, <3>4 DEF LifeInv, Freed
    <3> QED
      BY <1>3, <3>1, <3>2, <3>3, <3>4
  <2> QED
    BY <2>1, <2>2 DEF LifeInv
<1> QED
  BY <1>2, <1>4, StillStep

LEMMA FreeStep ==
  ASSUME ProcInv, stop_msg_out_buf
  PROVE  ProcInv'
<1>1. /\ TodoInv(todo, Live(state)) /\ LifeInv /\ msg_cnt \in Id /\ ClientInv(clients, state)
      /\ ListInv(heap, first, allocs, reg, todo, List)
      /\ ~clash => DeleteInv(heap, List, reg, todo, state)
      /\ \A k \in 1..Len(todo) : todo[k].op \in DeleteOps => state[todo[k].fd] = "s_en"
      /\ stop_flag => StopInv(todo, state)
  BY DEF ProcInv
<1>2. /\ UNCHANGED <<clients, state, allocs, msg_cnt, stop_flag, todo, reg, clash>>
      /\ stage = "stop_msg_out_buf" /\ stage' = "exited" /\ queues' = Freed("msg_out_buf")
      /\ heap' = [n \in DOMAIN heap \ Listed |-> heap[n]] /\ first' = NULL
  BY DEF stop_msg_out_buf, Go, session_vars
<1>3. todo = <<>> /\ Pc(todo) = "idle"
  BY <1>1, <1>2 DEF LifeInv, Pc
<1>4. LifeInv'
  BY <1>1, <1>2, <1>3 DEF LifeInv, Stages, Freed
<1>5. HeapType(heap', allocs) /\ Chain(heap', NULL, <<>>)
  <2>1. HeapType(heap, allocs)
    BY <1>1 DEF ListInv
  <2>2. Chain(heap, NULL, <<>>)
    <3>1. \A i \in 1..Len(<<>>) : FALSE
      OBVIOUS
    <3>2. <<>> \in Seq(DOMAIN heap) /\ IsInjective(<<>>)
      BY DEF IsInjective
    <3> QED
      BY <3>1, <3>2 DEF Chain
  <2>3. \A i \in 1..Len(<<>>) : <<>>[i] \notin Listed
    OBVIOUS
  <2> QED
    BY <1>2, <2>1, <2>2, <2>3, FreeKeeps
<1>6. reg.ptr = NULL
  <2>1. Pc(todo) \notin RemoveOps \cup {"delete_next"}
    BY <1>3 DEF RemoveOps
  <2> QED
    BY <1>1, <2>1, PtrNull DEF ListInv
<1>7. ListInv(heap', first', allocs', reg', todo', <<>>)
  <2>1. RegInv(heap', <<>>, reg, Pc(todo))
    BY <1>1, <1>3 DEF ListInv, RegInv, Conts
  <2>2. PtrInv(heap', <<>>, reg, todo)
    BY <1>6 DEF PtrInv
  <2>3. Kept(heap', <<>>, reg)
    <3> SUFFICES ASSUME NEW n \in DOMAIN heap'
                 PROVE  n = reg.item \/ heap'[n].by = "sigint"
      BY DEF Kept
    <3>1. n \in DOMAIN heap /\ n \notin Listed /\ heap'[n] = heap[n]
      BY <1>2
    <3>2. Listed = Range(List) /\ List \in Seq(DOMAIN heap)
      BY <1>1 DEF Listed, List, ListInv, Chain
    <3>3. \A i \in 1..Len(List) : List[i] # n
      BY <3>1, <3>2 DEF Range
    <3> QED
      BY <1>1, <3>1, <3>3 DEF ListInv, Kept
  <2> QED
    BY <1>2, <1>5, <2>1, <2>2, <2>3 DEF ListInv
<1>8. DeleteInv(heap', <<>>, reg', todo', state')
  <2>1. \A i \in 1..Len(<<>>) : FALSE
    OBVIOUS
  <2>2. Pc(todo') \notin {"add_walk", "add_link"}
    BY <1>2, <1>3
  <2> QED
    BY <2>1, <2>2 DEF DeleteInv, Distinct
<1> QED
  BY <1>1, <1>2, <1>4, <1>7, <1>8, InvNext

-----------------------------------------------------------------------------
(* The theorems *)

LEMMA InitInv ==
  ASSUME Init
  PROVE  ProcInv
<1> USE DEF NULL
<1>1. LifeInv
  <2>1. queues \in [{"clients", "msg_out_buf"} -> {"null", "created", "freed"}]
    BY DEF Init
  <2> QED
    BY <2>1 DEF Init, LifeInv, Stages
<1>2. ClientInv(clients, state)
  <2>1. clients = <<>> /\ Len(clients) = 0 /\ state = [f \in Fd |-> "none"]
    BY DEF Init
  <2>2. clients \in Seq(Fd) /\ IsInjective(clients)
    BY <2>1 DEF IsInjective
  <2>3. state \in [Fd -> States] /\ \A f \in Fd : state[f] = "none"
    BY <2>1 DEF States
  <2>4. \A i \in 1..Len(clients) : FALSE
    BY <2>1
  <2> QED
    BY <2>2, <2>3, <2>4 DEF ClientInv
<1>3. msg_cnt \in Id /\ 0 \in Id
  BY ProcessAssumption DEF Init, Id
<1>4. todo = <<>> /\ Pc(todo) = "idle"
  BY DEF Init, Pc
<1>5. TodoInv(todo, Live(state))
  <2>1. Block(<<>>, Live(state), {0}, FALSE)
    BY EmptyBlock
  <2>2. \A x \in {0} : \A y \in {0} : x = y
    OBVIOUS
  <2>3. TodoInv(<<>>, Live(state))
    BY <2>1, <2>2, BlockIsTodo
  <2> QED
    BY <1>4, <2>3
<1>6. \A i \in 1..Len(<<>>) : FALSE
  OBVIOUS
<1>7. ~stop_flag
  BY DEF Init
<1>8. HeapType(heap, allocs) /\ Chain(heap, first, <<>>) /\ \A n \in DOMAIN heap : FALSE
  <2>1. heap = <<>> /\ allocs = 0 /\ first = 0
    BY DEF Init
  <2>2. DOMAIN heap = {}
    BY <2>1
  <2>3. heap = [n \in DOMAIN heap |-> heap[n]]
    BY <2>1
  <2>4. HeapType(heap, allocs)
    BY <2>1, <2>2, <2>3 DEF HeapType
  <2>5. <<>> \in Seq(DOMAIN heap) /\ IsInjective(<<>>)
    BY DEF IsInjective
  <2>6. Chain(heap, first, <<>>)
    BY <1>6, <2>1, <2>5 DEF Chain
  <2> QED
    BY <2>2, <2>4, <2>6
<1>9. List = <<>>
  BY <1>8, ListIs DEF List
<1>10. ListInv(heap, first, allocs, reg, todo, <<>>)
  <2>1. reg \in RegType /\ Cleared(reg) /\ reg.ptr = 0
    BY <1>3 DEF Init, Unset, RegType, Cleared
  <2>2. RegInv(heap, <<>>, reg, Pc(todo))
    BY <1>4, <2>1 DEF RegInv, Conts
  <2>3. PtrInv(heap, <<>>, reg, todo) /\ Kept(heap, <<>>, reg)
    BY <1>8, <2>1 DEF PtrInv, Kept
  <2> QED
    BY <1>8, <2>2, <2>3 DEF ListInv
<1>11. DeleteInv(heap, <<>>, reg, todo, state)
  BY <1>4, <1>6 DEF DeleteInv, Distinct
<1> QED
  BY <1>1, <1>2, <1>3, <1>4, <1>5, <1>6, <1>7, <1>9, <1>10, <1>11 DEF ProcInv

LEMMA StatementInv ==
  ASSUME ProcInv, Statement
  PROVE  ProcInv'
BY CounterStep, AddCheckStep, AddWalkStep, AddLinkStep, RemoveReadStep, RemoveWriteStep,
   DestroyStep, ForwardStep, SetStep, CloseStep, ProcessStep, CheckStep, ExecuteStep,
   ConfirmStep, DeleteFirstStep, DeleteNextStep, DeleteEndStep DEF Statement

LEMMA StutterInv ==
  ASSUME ProcInv, UNCHANGED vars
  PROVE  ProcInv'
<1>1. UNCHANGED <<stage, queues, clients, state, heap, first, allocs, msg_cnt, stop_flag,
                  todo, reg, clash>>
  BY DEF vars
<1>2. LifeInv'
  BY <1>1 DEF ProcInv, LifeInv
<1> QED
  BY <1>1, <1>2, StillStep

LEMMA NextInv ==
  ASSUME ProcInv, [Next]_vars
  PROVE  ProcInv'
<1>1. CASE Life
  BY <1>1, LifeStep, FreeStep
<1>2. CASE Statement
  BY <1>2, StatementInv
<1>3. CASE sigint_handler
  BY <1>3, SigintStep
<1>4. CASE sigint_wild \/ sigint_default
  BY <1>4, SigintOtherStep
<1>5. CASE \E f \in Fd :
             \/ \E type \in InType : udp_polling(f, type) \/ process_msg_sock(f, type)
             \/ \E id \in 0..WIDTH - 1 : recv_confirm(f, id)
             \/ udp_timeout(f)
  BY <1>5, PollingStep, SockStep, RecvConfirmStep, TimeoutStep
<1>6. CASE poll_idle
  <2>1. UNCHANGED vars
    BY <1>6 DEF poll_idle, Run, Idle, vars, life_vars, list_vars, session_vars
  <2> QED
    BY <2>1, StutterInv
<1>7. CASE UNCHANGED vars
  BY <1>7, StutterInv
<1> QED
  BY <1>1, <1>2, <1>3, <1>4, <1>5, <1>6, <1>7 DEF Next

(* The process keeps its invariant, whenever SIGINT comes. *)
THEOREM ProcessInvariance == Spec => []ProcInv
<1>1. Init => ProcInv
  BY InitInv
<1>2. ProcInv /\ [Next]_vars => ProcInv'
  BY NextInv
<1> QED
  BY <1>1, <1>2, PTL DEF Spec

LEMMA RegSound ==
  ASSUME ProcInv
  PROVE  {reg.item, reg.last, reg.next, reg.ptr} \subseteq DOMAIN heap \cup {NULL}
<1> DEFINE pc == Pc(todo)
           D == DOMAIN heap \cup {NULL}
<1>1. ListInv(heap, first, allocs, reg, todo, List)
  BY DEF ProcInv
<1>2. RegInv(heap, List, reg, pc) /\ PtrInv(heap, List, reg, todo)
  BY <1>1 DEF ListInv
<1>3. Len(List) \in Nat /\ \A i \in 1..Len(List) : List[i] \in D
  BY <1>1, ChainFacts DEF ListInv
<1> HIDE DEF pc, D
<1>4. NULL \in D /\ \A n : InList(List, n) => n \in D
  BY <1>3 DEF InList, D
<1>5. reg.ptr \in D
  BY <1>2, <1>4 DEF PtrInv
<1>6. Cleared(reg) => reg.item \in D /\ reg.last \in D /\ reg.next \in D
  BY <1>4 DEF Cleared
<1>7. Fresh(heap, List, reg) => reg.item \in D
  BY DEF Fresh, D
<1>8. CASE pc \notin Conts
  BY <1>2, <1>5, <1>6, <1>8 DEF RegInv, D
<1>9. CASE pc = "add_walk"
  BY <1>2, <1>4, <1>5, <1>7, <1>9 DEF RegInv, D
<1>10. CASE pc = "add_link"
  <2>1. reg.last \in D
    <3>1. PICK p \in 0..Len(List) : reg.last = IF p = 0 THEN NULL ELSE List[p]
      BY <1>2, <1>10 DEF RegInv, FoundLast
    <3>2. p # 0 => p \in 1..Len(List)
      BY <1>3
    <3> QED
      BY <1>3, <1>4, <3>1, <3>2
  <2> QED
    BY <1>2, <1>4, <1>5, <1>7, <1>10, <2>1 DEF RegInv, D
<1>11. CASE pc = "remove_write"
  <2>1. FoundItem(heap, List, reg) => reg.item \in D /\ reg.last \in D /\ reg.next \in D
    <3> SUFFICES ASSUME FoundItem(heap, List, reg)
                 PROVE  reg.item \in D /\ reg.last \in D /\ reg.next \in D
      OBVIOUS
    <3>1. PICK p \in 1..Len(List) :
            /\ reg.item = List[p]
            /\ reg.last = IF p = 1 THEN NULL ELSE List[p - 1]
            /\ reg.next = (IF p < Len(List) THEN List[p + 1] ELSE NULL) \/ reg.next = NULL
      BY DEF FoundItem
    <3>2. (p # 1 => p - 1 \in 1..Len(List)) /\ (p < Len(List) => p + 1 \in 1..Len(List))
      BY <1>3
    <3> QED
      BY <1>3, <1>4, <3>1, <3>2
  <2> QED
    BY <1>2, <1>5, <1>6, <1>11, <2>1 DEF RegInv, D
<1>12. CASE pc = "destroy_item"
  <2>1. reg.item \in D
    BY <1>2, <1>4, <1>12 DEF RegInv, D
  <2> QED
    BY <1>2, <1>4, <1>5, <1>12, <2>1 DEF RegInv, D
<1> QED
  BY <1>8, <1>9, <1>10, <1>11, <1>12 DEF Conts

LEMMA ListedIs ==
  ASSUME ProcInv
  PROVE  /\ List \in Seq(DOMAIN heap) /\ Listed = Range(List)
         /\ \A n : n \in Listed <=> \E i \in 1..Len(List) : List[i] = n
<1>1. List \in Seq(DOMAIN heap)
  BY DEF ProcInv, ListInv, Chain
<1>2. Listed = Range(List)
  BY DEF Listed, List
<1> QED
  BY <1>1, <1>2 DEF Range

(* Whatever statement SIGINT interrupts, the list is a chain of allocated  *)
(* items without a cycle, and the pointers of queue_add, queue_remove and  *)
(* delete_client are to allocated items.                                   *)
THEOREM ListIsSound == Spec => []ListSound
<1>1. ASSUME ProcInv
      PROVE  ListSound
  <2>1. Listed \subseteq DOMAIN heap
    BY <1>1, ListedIs
  <2>2. IsInjective(Items(heap, first))
    BY <1>1 DEF ProcInv, ListInv, Chain, List
  <2> QED
    BY <1>1, <2>1, <2>2, RegSound DEF ListSound
<1> QED
  BY <1>1, ProcessInvariance, PTL

(* What main puts into msg_out_buf stays there until main removes it: only *)
(* BYEs that sigint_handler appended can be lost from the list.            *)
THEOREM SigintLosesOnly == Spec => []OnlySigintLoses
<1>1. ASSUME ProcInv
      PROVE  OnlySigintLoses
  <2>1. Kept(heap, List, reg)
    BY <1>1 DEF ProcInv, ListInv
  <2> QED
    BY <1>1, <2>1, ListedIs DEF OnlySigintLoses, Kept
<1> QED
  BY <1>1, ProcessInvariance, PTL

(* While no two buffered messages have shared an id, delete_client leaves  *)
(* no message of its client in msg_out_buf, SIGINT in between or not.      *)
THEOREM DeleteLeavesNothing == Spec => []DeletedLeavesNothing
<1>1. ASSUME ProcInv
      PROVE  DeletedLeavesNothing
  <2> SUFFICES ASSUME ~clash, NEW n \in Listed
               PROVE  state[heap[n].sockfd] # "none"
    BY DEF DeletedLeavesNothing, Orphans
  <2>1. PICK i \in 1..Len(List) : List[i] = n
    BY <1>1, ListedIs
  <2>2. DeleteInv(heap, List, reg, todo, state)
    BY <1>1 DEF ProcInv
  <2> QED
    BY <2>1, <2>2 DEF DeleteInv
<1> QED
  BY <1>1, ProcessInvariance, PTL

(* After sigint_handler at most one client is open: the one whose handler  *)
(* it interrupted between the check of its state and "state = s_op".       *)
THEOREM ReopensAtMostOne == Spec => []StopReopensAtMostOne
<1>1. ASSUME ProcInv
      PROVE  StopReopensAtMostOne
  <2> DEFINE S == {f \in Fd : state[f] = "s_op"}
  <2> SUFFICES ASSUME stop_flag
               PROVE  Cardinality(S) <= 1
    BY DEF StopReopensAtMostOne
  <2>1. \A f \in S : \A g \in S : f = g
    BY <1>1 DEF ProcInv, StopInv
  <2> HIDE DEF S
  <2>2. CASE S = {}
    BY <2>2, FS_EmptySet
  <2>3. CASE S # {}
    <3>1. PICK f : f \in S
      BY <2>3
    <3>2. S = {f}
      BY <2>1, <3>1
    <3>3. Cardinality({f}) = 1
      BY FS_Singleton
    <3> QED
      BY <3>2, <3>3
  <2> QED
    BY <2>2, <2>3 DEF S
<1> QED
  BY <1>1, ProcessInvariance, PTL

(* SIGINT ends the process by a wild pointer only before main has created  *)
(* the list of clients and in stop(), and malloc only in main's start-up.  *)
THEOREM NoCrash == Spec => NoCrashWhileServing
<1> DEFINE Early == {"argv", "pollfd", "clients", "stop", "stop_msg_out_buf"}
<1>1. ASSUME ProcInv, [Next]_vars
      PROVE  [stage' = "crashed" => stage \in Early]_vars
  <2> SUFFICES ASSUME Next, ~UNCHANGED vars, stage' = "crashed"
               PROVE  stage \in Early
    BY <1>1
  <2>1. LifeInv
    BY <1>1 DEF ProcInv
  <2>2. CASE Life
    BY <2>2 DEF Life, main_argv, main_pollfd, main_queue, main_server_open, main_stop,
                stop_clients, stop_msg_out_buf, Go
  <2>3. CASE Statement
    <3>1. stage = "loop" /\ UNCHANGED stage
      BY <2>3 DEF Statement, At, life_vars, read_cnt, write_cnt, add_check, add_walk, add_link,
                  remove_read, remove_write, destroy_item, forward, set_state, close,
                  process_msg, check_state_transition, execute_auth, execute_other, confirm,
                  delete_first, delete_next, delete_end
    <3> QED
      BY <3>1
  <2>4. CASE sigint_handler \/ sigint_default
    BY <2>4 DEF sigint_handler, sigint_default, Over
  <2>5. CASE sigint_wild
    <3>1. queues.clients # "created" /\ ~Over
      BY <2>5 DEF sigint_wild
    <3> QED
      BY <2>1, <3>1 DEF LifeInv, Stages, Over
  <2>6. CASE \/ poll_idle
             \/ \E f \in Fd :
                  \/ \E type \in InType : udp_polling(f, type) \/ process_msg_sock(f, type)
                  \/ \E id \in 0..WIDTH - 1 : recv_confirm(f, id)
                  \/ udp_timeout(f)
    <3>1. \E u : Run(u)
      BY <2>6 DEF poll_idle, udp_polling, process_msg_sock, recv_confirm, udp_timeout
    <3>2. stage = "loop" /\ UNCHANGED stage
      BY <3>1 DEF Run, Idle, life_vars
    <3> QED
      BY <3>2
  <2> QED
    BY <2>2, <2>3, <2>4, <2>5, <2>6 DEF Next
<1>2. ProcInv /\ [Next]_vars => [stage' = "crashed" => stage \in Early]_vars
  BY <1>1
<1> QED
  BY <1>2, ProcessInvariance, PTL DEF Spec, NoCrashWhileServing
=============================================================================
