-------------------------- MODULE TcpStreamProofs --------------------------
(***************************************************************************)
(* Proofs about TcpStream: although the stream of a TCP client is not      *)
(* framed, what is executed is what the client wrote or the client is told *)
(* ERR, for clients that write any number of messages, cut anywhere.       *)
(***************************************************************************)
EXTENDS TcpStream, WellFoundedInduction, SequenceTheorems, TLAPS

(* Induction: the set of the numbers a fact holds for is all of Nat. *)
LEMMA AllNat ==
  ASSUME NEW S, 0 \in S, \A n \in Nat : n \in S => n + 1 \in S
  PROVE  \A n \in Nat : n \in S
<1> SUFFICES ASSUME Nat \ S # {} PROVE FALSE
  OBVIOUS
<1>1. PICK m \in Nat \ S : \A k \in Nat \ S : ~(k < m)
  <2>1. \E m \in Nat \ S : \A k \in Nat \ S : ~(<<k, m>> \in OpToRel(<, Nat))
    BY NatLessThanWellFounded, WFMin
  <2> QED
    BY <2>1 DEF OpToRel
<1>2. m # 0 /\ m - 1 \in Nat /\ m - 1 < m
  BY <1>1
<1>3. m - 1 \in S
  BY <1>1, <1>2
<1> QED
  BY <1>1, <1>2, <1>3

-----------------------------------------------------------------------------
(* What FlattenSeq computes *)

(* The function FlattenSeq is defined by. *)
Flattens(f, s, n) ==
  f = [i \in 1..n |-> IF i = 1 THEN s[i] ELSE f[i - 1] \o s[i]]

LEMMA FlattensExists ==
  ASSUME NEW s, NEW n \in Nat
  PROVE  \E f : Flattens(f, s, n)
<1> DEFINE S == {k \in Nat : \E f : Flattens(f, s, k)}
<1>1. 0 \in S
  <2>1. Flattens([i \in 1..0 |-> 0], s, 0)
    BY DEF Flattens
  <2> QED
    BY <2>1
<1>2. ASSUME NEW k \in Nat, k \in S
      PROVE  k + 1 \in S
  <2>1. PICK f : Flattens(f, s, k)
    BY <1>2
  <2> DEFINE g == [i \in 1..(k + 1) |->
                     IF i <= k THEN f[i] ELSE IF i = 1 THEN s[i] ELSE f[i - 1] \o s[i]]
  <2>2. \A i \in 1..k : f[i] = IF i = 1 THEN s[i] ELSE f[i - 1] \o s[i]
    BY <2>1 DEF Flattens
  <2>3. \A i \in 1..(k + 1) : i # 1 => g[i - 1] = f[i - 1]
    OBVIOUS
  <2>4. \A i \in 1..(k + 1) : g[i] = IF i = 1 THEN s[i] ELSE g[i - 1] \o s[i]
    BY <2>2, <2>3
  <2>5. g = [i \in 1..(k + 1) |-> g[i]]
    OBVIOUS
  <2> HIDE DEF g
  <2>6. Flattens(g, s, k + 1)
    BY <2>4, <2>5 DEF Flattens
  <2> QED
    BY <2>6
<1> HIDE DEF S
<1>3. n \in S
  BY <1>1, <1>2, AllNat
<1> QED
  BY <1>3 DEF S

LEMMA FlattenSeqIs ==
  ASSUME NEW V, NEW s \in Seq(V), s # <<>>
  PROVE  \E f : Flattens(f, s, Len(s)) /\ FlattenSeq(s) = f[Len(s)]
<1>1. Len(s) \in Nat \ {0}
  OBVIOUS
<1>2. \E f : Flattens(f, s, Len(s))
  BY <1>1, FlattensExists
<1> DEFINE g == CHOOSE f : Flattens(f, s, Len(s))
<1>3. Flattens(g, s, Len(s))
  BY <1>2
<1>4. FlattenSeq(s) = g[Len(s)]
  BY <1>1 DEF FlattenSeq, Flattens
<1> QED
  BY <1>3, <1>4

(* Flattening a sequence that was appended to appends to what was          *)
(* flattened before.                                                       *)
LEMMA FlattenAppend ==
  ASSUME NEW V, NEW s \in Seq(Seq(V)), NEW e \in Seq(V)
  PROVE  FlattenSeq(Append(s, e)) = FlattenSeq(s) \o e
<1> DEFINE t == Append(s, e)
<1>0. /\ t \in Seq(Seq(V)) /\ t # <<>> /\ Len(t) = Len(s) + 1 /\ t[Len(t)] = e
      /\ \A i \in 1..Len(s) : t[i] = s[i]
  BY AppendProperties
<1> HIDE DEF t
<1>1. PICK g : Flattens(g, t, Len(t)) /\ FlattenSeq(t) = g[Len(t)]
  BY <1>0, FlattenSeqIs
<1>2. \A i \in 1..Len(t) : g[i] = IF i = 1 THEN t[i] ELSE g[i - 1] \o t[i]
  BY <1>1 DEF Flattens
<1>3. CASE s = <<>>
  <2>1. Len(t) = 1 /\ FlattenSeq(t) = e
    BY <1>0, <1>1, <1>2, <1>3
  <2>2. FlattenSeq(s) = <<>>
    BY <1>3 DEF FlattenSeq
  <2> QED
    BY <2>1, <2>2 DEF t
<1>4. CASE s # <<>>
  <2>1. PICK f : Flattens(f, s, Len(s)) /\ FlattenSeq(s) = f[Len(s)]
    BY <1>4, FlattenSeqIs
  <2>2. \A i \in 1..Len(s) : f[i] = IF i = 1 THEN s[i] ELSE f[i - 1] \o s[i]
    BY <2>1 DEF Flattens
  <2> DEFINE S == {k \in Nat : k \in 1..Len(s) => f[k] = g[k]}
  <2>3. 0 \in S
    OBVIOUS
  <2>4. ASSUME NEW k \in Nat, k \in S
        PROVE  k + 1 \in S
    <3> SUFFICES ASSUME k + 1 \in 1..Len(s) PROVE f[k + 1] = g[k + 1]
      OBVIOUS
    <3>1. /\ f[k + 1] = IF k + 1 = 1 THEN s[k + 1] ELSE f[k] \o s[k + 1]
          /\ g[k + 1] = IF k + 1 = 1 THEN s[k + 1] ELSE g[k] \o s[k + 1]
      BY <1>0, <1>2, <2>2
    <3> QED
      BY <2>4, <3>1
  <2> HIDE DEF S
  <2>5. Len(s) \in S
    <3>1. Len(s) \in Nat
      OBVIOUS
    <3> QED
      BY <2>3, <2>4, <3>1, AllNat
  <2>6. f[Len(s)] = g[Len(s)] /\ Len(s) >= 1
    BY <1>4, <2>5 DEF S
  <2>7. Len(t) \in 1..Len(t) /\ Len(t) # 1 /\ Len(t) - 1 = Len(s)
    BY <1>0, <2>6
  <2>8. g[Len(t)] = g[Len(s)] \o e
    BY <1>0, <1>2, <2>7
  <2> QED
    BY <1>1, <2>1, <2>6, <2>8 DEF t
<1> QED
  BY <1>3, <1>4

-----------------------------------------------------------------------------
(* What a client writes *)

Token == {"cr", "lf", "AUTH", "JOIN", "ERR", "REPLY", "BYE", "MSG"} \cup Word

Commands == {"AUTH", "JOIN", "ERR", "REPLY", "BYE"}

(* The first token of a message says how long it is. *)
LEMMA MessageIs ==
  ASSUME NEW x \in Message
  PROVE  /\ x \in Seq(Token) /\ Len(x) >= 1
         /\ Len(x) = IF x[1] = "MSG" THEN 4 ELSE 3
<1>1. DOMAIN Texts = {"e_auth", "e_join", "e_err", "e_reply", "e_bye", "e_msg"}
  BY DEF Texts
<1>2. PICK type \in DOMAIN Texts : x \in Texts[type]
  BY DEF Message
<1>3. EOL \in Seq(Token) /\ Len(EOL) = 2
  BY DEF EOL, Token
<1>4. CASE type = "e_msg"
  <2>1. PICK w \in Word : x = <<"MSG", w>> \o EOL
    BY <1>2, <1>4 DEF Texts, Msg
  <2> DEFINE y == <<"MSG", w>>
  <2>2. y \in Seq(Token) /\ Len(y) = 2 /\ y[1] = "MSG"
    BY DEF Token
  <2>3. x = y \o EOL
    BY <2>1
  <2> HIDE DEF y
  <2>4. x \in Seq(Token) /\ Len(x) = 4 /\ x[1] = y[1]
    <3>1. /\ y \o EOL \in Seq(Token) /\ Len(y \o EOL) = Len(y) + Len(EOL)
          /\ \A i \in 1..Len(y) + Len(EOL) :
               (y \o EOL)[i] = IF i <= Len(y) THEN y[i] ELSE EOL[i - Len(y)]
      BY <1>3, <2>2, ConcatProperties
    <3> QED
      BY <1>3, <2>2, <2>3, <3>1
  <2> QED
    BY <2>2, <2>4
<1>5. CASE type # "e_msg"
  <2>1. PICK c \in Commands : x = <<c>> \o EOL
    BY <1>1, <1>2, <1>5 DEF Texts, Commands, Line
  <2> DEFINE y == <<c>>
  <2>2. y \in Seq(Token) /\ Len(y) = 1 /\ y[1] = c
    BY DEF Token, Commands
  <2>3. x = y \o EOL
    BY <2>1
  <2> HIDE DEF y
  <2>4. x \in Seq(Token) /\ Len(x) = 3 /\ x[1] = y[1]
    <3>1. /\ y \o EOL \in Seq(Token) /\ Len(y \o EOL) = Len(y) + Len(EOL)
          /\ \A i \in 1..Len(y) + Len(EOL) :
               (y \o EOL)[i] = IF i <= Len(y) THEN y[i] ELSE EOL[i - Len(y)]
      BY <1>3, <2>2, ConcatProperties
    <3> QED
      BY <1>3, <2>2, <2>3, <3>1
  <2> QED
    BY <2>2, <2>4 DEF Commands
<1> QED
  BY <1>4, <1>5

LEMMA MessageType == \A x \in Message : x \in Seq(Token) /\ x # <<>>
BY MessageIs

(* No message is the beginning of another one: where a message begins is   *)
(* known, once it is known where the one in front of it did.               *)
LEMMA PrefixFree ==
  ASSUME NEW x \in Message, NEW y \in Message,
         NEW t \in Seq(Token), NEW u \in Seq(Token), x \o t = y \o u
  PROVE  x = y
<1> DEFINE z == x \o t
<1>1. ASSUME NEW m \in Message, NEW v \in Seq(Token), z = m \o v
      PROVE  /\ m \in Seq(Token)
             /\ Len(m) = IF z[1] = "MSG" THEN 4 ELSE 3
             /\ \A i \in 1..Len(m) : z[i] = m[i]
  <2> HIDE DEF z
  <2>1. /\ m \in Seq(Token) /\ Len(m) >= 1
        /\ Len(m) = IF m[1] = "MSG" THEN 4 ELSE 3
    BY MessageIs
  <2>2. \A i \in 1..Len(m) : z[i] = m[i]
    BY <1>1, <2>1
  <2> QED
    BY <2>1, <2>2
<1>2. /\ x \in Seq(Token) /\ y \in Seq(Token) /\ Len(x) = Len(y)
      /\ \A i \in 1..Len(x) : x[i] = y[i]
  BY <1>1
<1> QED
  BY <1>2, SeqEqual

(* The parser finds the type of a message, and takes nothing else for one  *)
(* (parse_tcp).                                                            *)
LEMMA ParsedIs ==
  ASSUME NEW buf, parse_tcp(buf) # "error"
  PROVE  /\ buf \in Message
         /\ parse_tcp(buf) = "e_bye" => buf = Line("BYE")
<1> DEFINE types == {type \in DOMAIN Texts : buf \in Texts[type]}
<1>1. types # {} /\ parse_tcp(buf) = CHOOSE type \in types : TRUE
  BY DEF parse_tcp
<1>2. parse_tcp(buf) \in types
  BY <1>1
<1> QED
  BY <1>2 DEF Message, Texts

-----------------------------------------------------------------------------
(* What a client has written *)

Firsts(s, k) == SubSeq(s, 1, k)

LEMMA FirstsIs ==
  ASSUME NEW s \in Seq(Message), NEW k \in 0..Len(s)
  PROVE  /\ Firsts(s, k) \in Seq(Message) /\ Len(Firsts(s, k)) = k
         /\ k < Len(s) => Firsts(s, k + 1) = Append(Firsts(s, k), s[k + 1])
<1>1. Firsts(s, k) \in Seq(Message) /\ Len(Firsts(s, k)) = k
  BY DEF Firsts
<1>2. ASSUME k < Len(s) PROVE Firsts(s, k + 1) = Append(Firsts(s, k), s[k + 1])
  BY <1>2 DEF Firsts
<1> QED
  BY <1>1, <1>2

LEMMA StreamType ==
  ASSUME NEW s \in Seq(Message)
  PROVE  Stream(s) \in Seq(Token)
<1> DEFINE S == {k \in Nat : k \in 0..Len(s) => Stream(Firsts(s, k)) \in Seq(Token)}
<1>1. 0 \in S
  <2>1. Firsts(s, 0) = <<>>
    BY DEF Firsts
  <2>2. Stream(<<>>) = <<>>
    BY DEF Stream, FlattenSeq
  <2>3. Stream(Firsts(s, 0)) \in Seq(Token)
    BY <2>1, <2>2, EmptySeq
  <2> QED
    BY <2>3
<1>2. ASSUME NEW k \in Nat, k \in S
      PROVE  k + 1 \in S
  <2> SUFFICES ASSUME k + 1 \in 0..Len(s)
               PROVE  Stream(Firsts(s, k + 1)) \in Seq(Token)
    OBVIOUS
  <2>1. Stream(Firsts(s, k)) \in Seq(Token) /\ k \in 0..Len(s) /\ k < Len(s)
    BY <1>2
  <2>2. s[k + 1] \in Seq(Token) /\ Firsts(s, k) \in Seq(Seq(Token))
    BY <2>1, FirstsIs, MessageType
  <2>3. Stream(Firsts(s, k + 1)) = Stream(Firsts(s, k)) \o s[k + 1]
    BY <2>1, <2>2, FirstsIs, FlattenAppend DEF Stream
  <2> HIDE DEF S
  <2> QED
    BY <2>1, <2>2, <2>3, ConcatProperties
<1> HIDE DEF S
<1>3. Len(s) \in S
  <2>1. Len(s) \in Nat
    OBVIOUS
  <2> QED
    BY <1>1, <1>2, <2>1, AllNat
<1>4. Firsts(s, Len(s)) = s
  BY DEF Firsts
<1> QED
  BY <1>3, <1>4 DEF S

(* The stream of k + 1 messages is that of k and another message. *)
LEMMA StreamAppend ==
  ASSUME NEW s \in Seq(Message), NEW x \in Message
  PROVE  Stream(Append(s, x)) = Stream(s) \o x
<1>1. s \in Seq(Seq(Token)) /\ x \in Seq(Token)
  BY MessageType
<1> QED
  BY <1>1, FlattenAppend DEF Stream

(* The stream of w messages begins with that of the first k of them, and   *)
(* goes on with the next message.                                          *)
LEMMA StreamSplit ==
  ASSUME NEW s \in Seq(Message), NEW w \in 0..Len(s), NEW k \in 0..w
  PROVE  \E t \in Seq(Token) :
           /\ Stream(Firsts(s, w)) = Stream(Firsts(s, k)) \o t
           /\ k < w => \E u \in Seq(Token) : t = s[k + 1] \o u
<1> DEFINE Split(n, t) ==
             /\ Stream(Firsts(s, n)) = Stream(Firsts(s, k)) \o t
             /\ k < n => \E u \in Seq(Token) : t = s[k + 1] \o u
           S == {n \in Nat : n \in k..Len(s) => \E t \in Seq(Token) : Split(n, t)}
<1>0. k \in Nat /\ w \in Nat /\ Stream(Firsts(s, k)) \in Seq(Token)
  BY FirstsIs, StreamType
<1>1. ASSUME k \in k..Len(s) PROVE Split(k, <<>>) /\ <<>> \in Seq(Token)
  BY <1>0
<1>2. 0 \in S
  <2> SUFFICES ASSUME 0 \in k..Len(s) PROVE \E t \in Seq(Token) : Split(0, t)
    OBVIOUS
  <2>1. k = 0
    BY <1>0
  <2> HIDE DEF Split
  <2> QED
    BY <1>1, <2>1
<1>3. ASSUME NEW n \in Nat, n \in S
      PROVE  n + 1 \in S
  <2> SUFFICES ASSUME n + 1 \in k..Len(s)
               PROVE  \E t \in Seq(Token) : Split(n + 1, t)
    <3> HIDE DEF Split
    <3> QED
      OBVIOUS
  <2>1. CASE n + 1 = k
    <3> HIDE DEF Split
    <3> QED
      BY <1>1, <2>1
  <2>2. CASE n + 1 # k
    <3>1. n \in k..Len(s) /\ n \in 0..Len(s) /\ n < Len(s)
      BY <1>0, <2>2
    <3>2. PICK t \in Seq(Token) : Split(n, t)
      BY <1>3, <3>1
    <3>3. s[n + 1] \in Seq(Token) /\ s[n + 1] \in Message
      BY <3>1, MessageType
    <3>4. Stream(Firsts(s, n + 1)) = Stream(Firsts(s, n)) \o s[n + 1]
      BY <3>1, <3>3, FirstsIs, StreamAppend
    <3>5. Stream(Firsts(s, n + 1)) = Stream(Firsts(s, k)) \o (t \o s[n + 1])
      <4>1. Stream(Firsts(s, n)) = Stream(Firsts(s, k)) \o t
        BY <3>2
      <4> DEFINE a == Stream(Firsts(s, k))
                 y == Stream(Firsts(s, n))
                 c == s[n + 1]
                 x == Stream(Firsts(s, n + 1))
      <4>2. a \in Seq(Token) /\ c \in Seq(Token)
        BY <1>0, <3>3
      <4>3. x = y \o c /\ y = a \o t
        BY <3>4, <4>1
      <4> HIDE DEF a, y, c, x, S, Split
      <4>4. (a \o t) \o c = a \o (t \o c)
        BY <4>2, ConcatAssociative
      <4>5. x = a \o (t \o c)
        BY <4>3, <4>4
      <4> QED
        BY <4>5 DEF a, c, x
    <3>6. \E u \in Seq(Token) : t \o s[n + 1] = s[k + 1] \o u
      <4>1. CASE k = n
        <5>1. Stream(Firsts(s, k)) = Stream(Firsts(s, k)) \o t
          BY <3>2, <4>1
        <5>2. t = <<>>
          BY <1>0, <5>1, ConcatEqualIffEmpty
        <5>3. t \o s[n + 1] = s[k + 1] \o <<>> /\ <<>> \in Seq(Token)
          BY <3>3, <4>1, <5>2, ConcatEmptySeq, EmptySeq
        <5> QED
          BY <5>3
      <4>2. CASE k < n
        <5>1. PICK u \in Seq(Token) : t = s[k + 1] \o u
          BY <3>2, <4>2
        <5>2. s[k + 1] \in Seq(Token)
          BY <1>0, <3>1, <4>2, MessageType
        <5>3. t \o s[n + 1] = s[k + 1] \o (u \o s[n + 1])
          <6> DEFINE a == s[k + 1]
                     c == s[n + 1]
          <6>1. a \in Seq(Token) /\ c \in Seq(Token) /\ t = a \o u
            BY <3>3, <5>1, <5>2
          <6> HIDE DEF a, c, S, Split
          <6>2. t \o c = a \o (u \o c)
            BY <6>1, ConcatAssociative
          <6> QED
            BY <6>2 DEF a, c
        <5>4. u \o s[n + 1] \in Seq(Token)
          BY <3>3
        <5> QED
          BY <5>3, <5>4
      <4>3. k = n \/ k < n
        BY <1>0, <3>1
      <4> QED
        BY <4>1, <4>2, <4>3
    <3>7. t \o s[n + 1] \in Seq(Token)
      BY <3>3
    <3>8. Split(n + 1, t \o s[n + 1])
      BY <3>5, <3>6
    <3> QED
      BY <3>7, <3>8
  <2> QED
    BY <2>1, <2>2
<1> HIDE DEF S
<1>4. w \in S
  BY <1>0, <1>2, <1>3, AllNat
<1>5. w \in k..Len(s)
  BY <1>0
<1>6. PICK t \in Seq(Token) : Split(w, t)
  <2> HIDE DEF Split
  <2> QED
    BY <1>4, <1>5 DEF S
<1> QED
  BY <1>6

-----------------------------------------------------------------------------
(* The invariant *)

(* What was executed is what the client wrote first, and what is unread is *)
(* the rest of what it wrote.                                              *)
Accounted ==
  /\ Len(executed) <= Len(script)
  /\ executed = Firsts(script, Len(executed))
  /\ (Stream(executed) \o socket) \o wire = Stream(Firsts(script, written))

StreamInv ==
  /\ script \in Seq(Message) /\ written \in 0..Len(script)
  /\ wire \in Seq(Token) /\ socket \in Seq(Token)
  /\ executed \in Seq(Message) /\ err \in BOOLEAN
  /\ fin = "arrived" => wire = <<>>
  /\ ~err => Accounted
  /\ DismissedAsAsked

LEMMA AccountedIs ==
  ASSUME script \in Seq(Message), executed \in Seq(Message), ~err
  PROVE  NothingLostSilently <=> Accounted
<1>1. SubSeq(executed, 1, Len(executed)) = executed
  OBVIOUS
<1> QED
  BY <1>1 DEF NothingLostSilently, Accounted, IsPrefix, Firsts

LEMMA ConcatCancel ==
  ASSUME NEW V, NEW a \in Seq(V), NEW b \in Seq(V), NEW c \in Seq(V),
         a \o b = a \o c
  PROVE  b = c
BY ConcatSimplifications

(* What is unread begins with the message after those executed, if the     *)
(* client has written that one, and is nothing otherwise.                  *)
LEMMA Pending ==
  ASSUME StreamInv, Accounted
  PROVE  /\ Len(executed) <= written
         /\ Len(executed) < written =>
              \E u \in Seq(Token) : socket \o wire = script[Len(executed) + 1] \o u
         /\ Len(executed) = written => socket \o wire = <<>>
<1> DEFINE k == Len(executed)
           done == Stream(executed)
           all == Stream(Firsts(script, written))
           rest == socket \o wire
<1>1. /\ k \in Nat /\ k <= Len(script) /\ written \in Nat /\ written <= Len(script)
      /\ script \in Seq(Message) /\ done = Stream(Firsts(script, k))
  BY DEF StreamInv, Accounted
<1>2. done \in Seq(Token) /\ all \in Seq(Token) /\ rest \in Seq(Token)
  BY StreamType, FirstsIs DEF StreamInv
<1>3. all = done \o rest
  <2>1. (done \o socket) \o wire = done \o (socket \o wire)
    <3>1. done \in Seq(Token) /\ socket \in Seq(Token) /\ wire \in Seq(Token)
      BY <1>2 DEF StreamInv
    <3> HIDE DEF done
    <3> QED
      BY <3>1, ConcatAssociative
  <2> QED
    BY <2>1 DEF Accounted
<1> HIDE DEF k, done, all, rest
<1>4. k <= written
  <2> SUFFICES ASSUME written < k PROVE FALSE
    BY <1>1
  <2>1. PICK t \in Seq(Token) :
          done = all \o t /\ \E u \in Seq(Token) : t = script[written + 1] \o u
    <3>1. k \in 0..Len(script) /\ written \in 0..k
      BY <1>1
    <3>2. \E t \in Seq(Token) :
            /\ Stream(Firsts(script, k)) = Stream(Firsts(script, written)) \o t
            /\ written < k => \E u \in Seq(Token) : t = script[written + 1] \o u
      BY <1>1, <3>1, StreamSplit
    <3> QED
      BY <1>1, <3>2 DEF all
  <2>2. script[written + 1] \in Message
    BY <1>1
  <2>3. Len(t) >= 1
    <3>1. script[written + 1] \in Seq(Token) /\ Len(script[written + 1]) >= 1
      BY <2>2, MessageIs
    <3> QED
      BY <2>1, <3>1
  <2>4. Len(done) = Len(all) + Len(t)
    BY <1>2, <2>1, ConcatProperties
  <2>5. Len(all) = Len(done) + Len(rest)
    BY <1>2, <1>3, ConcatProperties
  <2>6. Len(done) \in Nat /\ Len(all) \in Nat /\ Len(rest) \in Nat /\ Len(t) \in Nat
    BY <1>2
  <2> QED
    BY <2>3, <2>4, <2>5, <2>6
<1>5. PICK t \in Seq(Token) :
        /\ all = done \o t
        /\ k < written => \E u \in Seq(Token) : t = script[k + 1] \o u
  <2>1. written \in 0..Len(script) /\ k \in 0..written
    BY <1>1, <1>4
  <2>2. \E t \in Seq(Token) :
          /\ Stream(Firsts(script, written)) = Stream(Firsts(script, k)) \o t
          /\ k < written => \E u \in Seq(Token) : t = script[k + 1] \o u
    BY <1>1, <2>1, StreamSplit
  <2> QED
    BY <1>1, <2>2 DEF all
<1>6. rest = t
  <2>1. done \o rest = done \o t
    BY <1>3, <1>5
  <2> QED
    BY <1>2, <2>1, ConcatCancel
<1>7. ASSUME k = written PROVE rest = <<>>
  <2>1. all = done
    BY <1>1, <1>7 DEF all
  <2>2. done \o rest = done
    BY <1>3, <2>1
  <2> QED
    BY <1>2, <2>2, ConcatEqualIffEmpty
<1> QED
  BY <1>4, <1>5, <1>6, <1>7 DEF k, rest

(* recv takes something off the socket, and leaves the rest. *)
LEMMA PortionIs ==
  ASSUME StreamInv
  PROVE  LET buf == SubSeq(socket, 1, Portion)
             left == SubSeq(socket, Portion + 1, Len(socket))
         IN  buf \in Seq(Token) /\ left \in Seq(Token) /\ socket = buf \o left
<1> DEFINE n == Portion
<1>1. socket \in Seq(Token) /\ n \in 0..Len(socket)
  BY StreamAssumption DEF StreamInv, Portion
<1> HIDE DEF n
<1>2. SubSeq(socket, 1, n) \in Seq(Token) /\ SubSeq(socket, n + 1, Len(socket)) \in Seq(Token)
  BY <1>1
<1>3. socket = SubSeq(socket, 1, n) \o SubSeq(socket, n + 1, Len(socket))
  <2>1. /\ 1 \in 1..(Len(socket) + 1) /\ n \in (1 - 1)..Len(socket)
        /\ Len(socket) \in n..Len(socket)
    BY <1>1
  <2>2. SubSeq(socket, 1, n) \o SubSeq(socket, n + 1, Len(socket))
          = SubSeq(socket, 1, Len(socket))
    BY <1>1, <2>1, ConcatAdjacentSubSeq
  <2> QED
    BY <1>1, <2>2, SubSeqFull
<1> QED
  BY <1>2, <1>3 DEF n

(* Whatever the parser accepts is the next message of the client: a chunk  *)
(* that begins or ends elsewhere is not accepted, and nothing in front of  *)
(* it was skipped (read_msg, parse_tcp).                                   *)
LEMMA AcceptedIsNext ==
  ASSUME StreamInv, Accounted, read_msg, parse_tcp(SubSeq(socket, 1, Portion)) # "error"
  PROVE  /\ Len(executed) < written
         /\ SubSeq(socket, 1, Portion) = script[Len(executed) + 1]
<1> DEFINE buf == SubSeq(socket, 1, Portion)
           left == SubSeq(socket, Portion + 1, Len(socket))
           k == Len(executed)
<1>1. buf \in Seq(Token) /\ left \in Seq(Token) /\ socket = buf \o left
  BY PortionIs
<1>2. wire \in Seq(Token) /\ socket \in Seq(Token) /\ socket # <<>>
  BY DEF StreamInv, read_msg
<1>3. buf \in Message
  BY ParsedIs
<1> HIDE DEF buf, left
<1>4. socket \o wire = buf \o (left \o wire) /\ left \o wire \in Seq(Token)
  BY <1>1, <1>2, ConcatAssociative, ConcatProperties
<1>5. socket \o wire # <<>>
  BY <1>2, ConcatEqualIffEmpty
<1>6. k < written
  <2>1. k \in Nat /\ written \in Nat
    BY DEF StreamInv
  <2> QED
    BY <1>5, <2>1, Pending
<1>7. PICK u \in Seq(Token) : socket \o wire = script[k + 1] \o u
  BY <1>6, Pending
<1>8. script[k + 1] \in Message
  BY <1>6 DEF StreamInv
<1>9. buf = script[k + 1]
  <2> DEFINE y == script[k + 1]
             t == left \o wire
  <2>1. y \in Message /\ t \in Seq(Token) /\ buf \o t = y \o u
    BY <1>4, <1>7, <1>8
  <2> HIDE DEF y, t
  <2>2. buf = y
    BY <1>3, <2>1, PrefixFree
  <2> QED
    BY <2>2 DEF y
<1> QED
  BY <1>6, <1>9 DEF buf

LEMMA StreamInit == Init => StreamInv
<1> SUFFICES ASSUME Init PROVE StreamInv
  OBVIOUS
<1>1. script \in Seq(Message) /\ Len(script) \in Nat
  BY StreamAssumption DEF Init
<1>2. Firsts(script, 0) = <<>>
  BY <1>1 DEF Firsts
<1>3. Stream(<<>>) = <<>>
  BY DEF Stream, FlattenSeq
<1>4. (<<>> \o <<>>) \o <<>> = <<>>
  OBVIOUS
<1>5. Accounted
  BY <1>1, <1>2, <1>3, <1>4 DEF Accounted, Init
<1>6. /\ written = 0 /\ wire = <<>> /\ socket = <<>> /\ executed = <<>>
      /\ err = FALSE /\ fin = "no" /\ state = "s_ac"
  BY DEF Init
<1>7. written \in 0..Len(script) /\ <<>> \in Seq(Token) /\ <<>> \in Seq(Message)
  BY <1>1, <1>6
<1> QED
  BY <1>1, <1>5, <1>6, <1>7 DEF StreamInv, DismissedAsAsked

LEMMA WriteInv == StreamInv /\ Write => StreamInv'
<1> SUFFICES ASSUME StreamInv, Write PROVE StreamInv'
  OBVIOUS
<1> DEFINE x == script[written + 1]
<1>1. /\ written \in 0..Len(script) /\ written < Len(script) /\ written' = written + 1
      /\ script' = script /\ executed' = executed /\ socket' = socket /\ err' = err
      /\ fin' = fin /\ state' = state /\ fin = "no"
  BY DEF Write, StreamInv
<1>2. wire' = wire \o x
  BY <1>1 DEF Write
<1>3. x \in Message /\ x \in Seq(Token) /\ wire \in Seq(Token)
  BY <1>1, MessageType DEF StreamInv
<1> HIDE DEF x
<1>4. wire' \in Seq(Token)
  BY <1>2, <1>3, ConcatProperties
<1>5. ASSUME ~err PROVE Accounted'
  <2> DEFINE done == Stream(executed)
             front == done \o socket
  <2>1. done \in Seq(Token) /\ socket \in Seq(Token)
    BY StreamType DEF StreamInv
  <2> HIDE DEF done
  <2>2. front \in Seq(Token)
    BY <2>1, ConcatProperties
  <2> HIDE DEF front
  <2>3. front \o (wire \o x) = (front \o wire) \o x
    BY <1>3, <2>2, ConcatAssociative
  <2>4. front \o wire = Stream(Firsts(script, written))
    BY <1>5 DEF StreamInv, Accounted, front, done
  <2>5. Stream(Firsts(script, written + 1)) = Stream(Firsts(script, written)) \o x
    BY <1>1, <1>3, FirstsIs, StreamAppend DEF StreamInv, x
  <2>6. front \o wire' = Stream(Firsts(script, written'))
    BY <1>1, <1>2, <2>3, <2>4, <2>5
  <2> QED
    BY <1>1, <1>5, <2>6 DEF StreamInv, Accounted, front, done, Firsts, Stream
<1>6. DismissedAsAsked'
  BY <1>1 DEF StreamInv, DismissedAsAsked
<1> QED
  BY <1>1, <1>4, <1>5, <1>6 DEF StreamInv

LEMMA ArriveInv == \A n \in 1..Len(wire) : StreamInv /\ Arrive(n) => StreamInv'
<1> SUFFICES ASSUME NEW n \in 1..Len(wire), StreamInv, Arrive(n) PROVE StreamInv'
  OBVIOUS
<1> DEFINE got == SubSeq(wire, 1, n)
           left == SubSeq(wire, n + 1, Len(wire))
<1>1. got \in Seq(Token) /\ left \in Seq(Token) /\ wire = got \o left
  BY DEF StreamInv
<1>2. socket' = socket \o got /\ wire' = left
  BY DEF Arrive
<1>3. UNCHANGED <<script, written, fin, state, executed, err>>
  BY DEF Arrive
<1> HIDE DEF got, left
<1>4. socket \in Seq(Token) /\ socket' \in Seq(Token) /\ wire' \in Seq(Token)
  BY <1>1, <1>2, ConcatProperties DEF StreamInv
<1>5. wire # <<>>
  BY DEF StreamInv
<1>6. ASSUME ~err PROVE Accounted'
  <2> DEFINE done == Stream(executed)
  <2>1. done \in Seq(Token)
    BY StreamType DEF StreamInv
  <2> HIDE DEF done
  <2>2. /\ (done \o socket) \o (got \o left) = ((done \o socket) \o got) \o left
        /\ (done \o socket) \o got = done \o (socket \o got)
    <3> DEFINE front == done \o socket
    <3>1. front \in Seq(Token)
      BY <1>4, <2>1, ConcatProperties
    <3>2. got \in Seq(Token) /\ left \in Seq(Token) /\ socket \in Seq(Token)
      BY <1>1, <1>4
    <3>3. (done \o socket) \o got = done \o (socket \o got)
      BY <2>1, <3>2, ConcatAssociative
    <3> HIDE DEF front
    <3>4. (front \o got) \o left = front \o (got \o left)
      BY <3>1, <3>2, ConcatAssociative
    <3> QED
      BY <3>3, <3>4 DEF front
  <2>3. (done \o socket') \o wire' = (done \o socket) \o wire
    BY <1>1, <1>2, <2>2
  <2> QED
    BY <1>3, <1>6, <2>3 DEF StreamInv, Accounted, done, Firsts, Stream
<1>7. DismissedAsAsked'
  BY <1>3 DEF StreamInv, DismissedAsAsked
<1> QED
  BY <1>3, <1>4, <1>5, <1>6, <1>7 DEF StreamInv

LEMMA ReadInv == StreamInv /\ read_msg => StreamInv'
<1> SUFFICES ASSUME StreamInv, read_msg PROVE StreamInv'
  OBVIOUS
<1> DEFINE buf == SubSeq(socket, 1, Portion)
           left == SubSeq(socket, Portion + 1, Len(socket))
           k == Len(executed)
<1>1. buf \in Seq(Token) /\ left \in Seq(Token) /\ socket = buf \o left
  BY PortionIs
<1>2. socket' = left /\ UNCHANGED <<script, written, wire, fin>> /\ state # "gone"
  BY DEF read_msg
<1>3. CASE parse_tcp(buf) = "error"
  <2>1. err' = TRUE /\ executed' = executed
    BY <1>3 DEF read_msg
  <2> HIDE DEF buf, left
  <2> QED
    BY <1>1, <1>2, <2>1 DEF StreamInv, DismissedAsAsked
<1>4. CASE parse_tcp(buf) # "error"
  <2>1. executed' = Append(executed, buf) /\ process_msg(parse_tcp(buf))
    BY <1>4 DEF read_msg
  <2>2. buf \in Message /\ (parse_tcp(buf) = "e_bye" => buf = Line("BYE"))
    BY <1>4, ParsedIs
  <2>3. ~err /\ Accounted => k < written /\ buf = script[k + 1]
    BY <1>4, AcceptedIsNext
  <2> HIDE DEF buf, left
  <2>4. executed' \in Seq(Message) /\ executed' # <<>> /\ Last(executed') = buf
        /\ Len(executed') = k + 1
    BY <2>1, <2>2 DEF StreamInv, Last
  <2>5. err' \in BOOLEAN /\ (~err' => ~err)
    BY <2>1 DEF process_msg, StreamInv
  <2>6. ASSUME ~err' PROVE Accounted'
    <3>1. ~err /\ Accounted
      BY <2>5, <2>6 DEF StreamInv
    <3>2. k < written /\ buf = script[k + 1] /\ k \in Nat /\ k + 1 <= Len(script)
          /\ executed = Firsts(script, k) /\ k \in 0..Len(script)
      BY <2>3, <3>1 DEF StreamInv, Accounted
    <3>3. executed' = Firsts(script, k + 1)
      <4>1. script \in Seq(Message) /\ k < Len(script)
        BY <3>2 DEF StreamInv
      <4>2. Firsts(script, k + 1) = Append(Firsts(script, k), script[k + 1])
        BY <3>2, <4>1, FirstsIs
      <4> QED
        BY <2>1, <3>2, <4>2
    <3>4. Stream(executed') = Stream(executed) \o buf
      BY <2>1, <2>2, StreamAppend DEF StreamInv
    <3> DEFINE done == Stream(executed)
               more == Stream(executed')
    <3>5. done \in Seq(Token)
      BY StreamType DEF StreamInv
    <3> HIDE DEF done, more
    <3>6. (done \o buf) \o left = done \o (buf \o left)
      BY <1>1, <3>5, ConcatAssociative
    <3>7. more \o socket' = done \o socket
      BY <1>1, <1>2, <3>4, <3>6 DEF done, more
    <3>8. (done \o socket) \o wire = Stream(Firsts(script, written))
      BY <3>1 DEF Accounted, done
    <3>9. (Stream(executed') \o socket') \o wire' = Stream(Firsts(script', written'))
      BY <1>2, <3>7, <3>8 DEF more
    <3> QED
      BY <1>2, <2>4, <3>2, <3>3, <3>9 DEF Accounted, Firsts, Stream
  <2>7. DismissedAsAsked'
    <3> SUFFICES ASSUME state' = "gone", ~err'
                 PROVE  executed' # <<>> /\ Last(executed') = Line("BYE")
      BY DEF DismissedAsAsked
    <3>1. parse_tcp(buf) = "e_bye"
      BY <1>2, <2>1, <2>5 DEF process_msg
    <3> QED
      BY <2>2, <2>4, <3>1
  <2> QED
    BY <1>1, <1>2, <2>4, <2>5, <2>6, <2>7 DEF StreamInv
<1> QED
  BY <1>3, <1>4

LEMMA ReadFinInv == StreamInv /\ read_msg_fin => StreamInv'
<1> SUFFICES ASSUME StreamInv, read_msg_fin PROVE StreamInv'
  OBVIOUS
<1>1. /\ socket = <<>> /\ fin = "arrived" /\ wire = <<>>
      /\ UNCHANGED <<script, written, wire, socket, fin, executed, err>>
  BY DEF read_msg_fin, StreamInv
<1>2. ~err => Accounted'
  BY <1>1 DEF StreamInv, Accounted, Firsts, Stream
<1>3. ASSUME ~err PROVE Len(executed) = written
  <2>1. Accounted /\ Len(executed) \in Nat /\ written \in Nat /\ written <= Len(script)
    BY <1>3 DEF StreamInv
  <2>2. socket \o wire = <<>>
    BY <1>1
  <2> SUFFICES ASSUME Len(executed) < written PROVE FALSE
    BY <2>1, Pending
  <2>3. PICK u \in Seq(Token) : <<>> = script[Len(executed) + 1] \o u
    BY <2>1, <2>2, Pending
  <2>4. script[Len(executed) + 1] \in Seq(Token) /\ script[Len(executed) + 1] # <<>>
    BY <2>1, MessageType DEF StreamInv
  <2> DEFINE y == script[Len(executed) + 1]
  <2>5. y \in Seq(Token) /\ y # <<>> /\ y \o u = <<>>
    BY <2>3, <2>4
  <2> HIDE DEF y
  <2> QED
    BY <2>5, ConcatEqualIffEmpty
<1> QED
  BY <1>1, <1>2, <1>3 DEF StreamInv, DismissedAsAsked

LEMMA StreamNext == StreamInv /\ [Next]_vars => StreamInv'
<1> SUFFICES ASSUME StreamInv, [Next]_vars PROVE StreamInv'
  OBVIOUS
<1>1. ASSUME UNCHANGED <<script, written, wire, socket, state, executed, err>>,
             fin' = "arrived" => fin = "arrived" \/ wire = <<>>,
             fin = "arrived" => fin' = "arrived"
      PROVE  StreamInv'
  BY <1>1 DEF StreamInv, Accounted, DismissedAsAsked, Firsts, Stream
<1>2. CASE Shutdown
  BY <1>1, <1>2 DEF Shutdown
<1>3. CASE ArriveFin
  BY <1>1, <1>3 DEF ArriveFin
<1>4. CASE UNCHANGED vars
  BY <1>1, <1>4 DEF vars
<1> QED
  BY <1>2, <1>3, <1>4, WriteInv, ArriveInv, ReadInv, ReadFinInv
     DEF Next, Delivery, Polled

THEOREM StreamInvariance == Spec => []StreamInv
BY StreamInit, StreamNext, PTL DEF Spec

(* However the stream of a TCP client is cut, what is executed is what the *)
(* client wrote, message by message, and nothing of the rest is skipped,   *)
(* unless the client is told ERR (read_msg, parse_tcp).                    *)
THEOREM NothingIsLost == Spec => []NothingLostSilently
<1>1. StreamInv => NothingLostSilently
  BY AccountedIs DEF StreamInv, NothingLostSilently
<1> QED
  BY <1>1, StreamInvariance, PTL

(* A TCP client that was not told ERR is deleted only after its BYE or,    *)
(* once it closed its side, after all it wrote was executed (read_msg).    *)
THEOREM DismissedOnlyAsAsked == Spec => []DismissedAsAsked
<1>1. StreamInv => DismissedAsAsked
  BY DEF StreamInv
<1> QED
  BY <1>1, StreamInvariance, PTL
=============================================================================
