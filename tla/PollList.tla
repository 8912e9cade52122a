------------------------------ MODULE PollList ------------------------------
(***************************************************************************)
(* The array of descriptors given to poll() (src/src/utils.c, and its use  *)
(* in src/src/main.c).  The two welcome sockets in front are left out:     *)
(* pollfd_list[k] is the entry with index k + WELCOME_SOCK_COUNT - 1 in    *)
(* the code, 0 marks an unused entry and -1 one that was just deleted.     *)
(* poll() looks at the first cnt entries only, the window.                 *)
(***************************************************************************)
EXTENDS Integers, Sequences, SequencesExt

CONSTANTS
  Fd,           \* descriptors the process can open for clients
  INITIAL_SIZE, \* entries for clients allocated by main
  REALLOC_DELTA,\* entries added when the array is full
  MaxSize       \* bound: entries for clients

ASSUME FdAssumption == Fd \subseteq Nat \ {0}
ASSUME SizeAssumption ==
  /\ INITIAL_SIZE \in Nat /\ REALLOC_DELTA \in Nat \ {0}
  /\ MaxSize \in Nat /\ INITIAL_SIZE <= MaxSize

VARIABLES
  pollfd_list,
  cnt,
  live,         \* descriptors of the client records
  open          \* descriptors open in the kernel

vars == <<pollfd_list, cnt, live, open>>

Size == Len(pollfd_list)
Window == {pollfd_list[k] : k \in 1..cnt}
Entries == {pollfd_list[k] : k \in 1..Size}

-----------------------------------------------------------------------------
(* get_free_poll_fd and resize_poll_fd: the first unused entry, of the     *)
(* array or of the one grown by REALLOC_DELTA.                             *)
Grown ==
  IF 0 \in Entries THEN pollfd_list
  ELSE pollfd_list \o [k \in 1..REALLOC_DELTA |-> 0]

get_free_poll_fdLast(list) == Max({k \in 1..Len(list) : list[k] = 0})
get_free_poll_fdFirst(list) == 1
get_free_poll_fd(list) == Min({k \in 1..Len(list) : list[k] = 0})

add_poll_fd(fd) ==
  /\ Len(Grown) <= MaxSize
  /\ pollfd_list' = [Grown EXCEPT ![get_free_poll_fd(Grown)] = fd]
  /\ cnt' = cnt + 1

(* del_poll_fd: mark the entries of fd in the window ...                   *)
Mark(fd) ==
  [k \in 1..Size |-> IF k <= cnt /\ pollfd_list[k] = fd THEN -1
                     ELSE pollfd_list[k]]

(* ... and close the gaps: entry j takes the value offset entries further  *)
(* on, where offset grows by one with every gap that was closed.           *)
CompactStepKeepCnt(a, j) ==
  IF j <= a.cnt /\ a.list[j] = -1 /\ j + a.offset <= Len(a.list)
  THEN [a EXCEPT !.list[j] = a.list[j + a.offset], !.offset = @ + 1]
  ELSE a
CompactStep(a, j) ==
  IF j <= a.cnt /\ a.list[j] = -1
  THEN IF j + a.offset <= Len(a.list)
       THEN [list |-> [a.list EXCEPT ![j] = a.list[j + a.offset]],
             cnt |-> a.cnt - 1, offset |-> a.offset + 1]
       ELSE [a EXCEPT !.cnt = @ - 1]
  ELSE a

Compact(list) ==
  LET upto[j \in 0..Len(list)] ==
        IF j = 0 THEN [list |-> list, cnt |-> cnt, offset |-> 1]
        ELSE CompactStep(upto[j - 1], j)
  IN  upto[Len(list)]

del_poll_fd(fd) ==
  /\ pollfd_list' = Compact(Mark(fd)).list
  /\ cnt' = Compact(Mark(fd)).cnt
  /\ open' = IF fd \in Window THEN open \ {fd} ELSE open

-----------------------------------------------------------------------------
(* tcp_polling, udp_polling: a client is accepted. *)
Accept(fd) ==
  /\ fd \notin open
  /\ add_poll_fd(fd)
  /\ live' = live \cup {fd}
  /\ open' = open \cup {fd}

(* udp_polling, address in use: the new socket is neither polled nor closed. *)
AcceptInUse(fd) ==
  /\ fd \notin open
  /\ open' = open \cup {fd}
  /\ UNCHANGED <<pollfd_list, cnt, live>>

(* delete_client *)
Delete(fd) ==
  /\ fd \in live
  /\ del_poll_fd(fd)
  /\ live' = live \ {fd}

(* process_msg_sock on a polled socket that no client has. *)
Missing(fd) ==
  /\ fd \in (Window \cap open) \ live
  /\ del_poll_fd(fd)
  /\ UNCHANGED live

Init ==
  /\ pollfd_list = [k \in 1..INITIAL_SIZE |-> 0]
  /\ cnt = 0
  /\ live = {}
  /\ open = {}

Next ==
  \E fd \in Fd : Accept(fd) \/ AcceptInUse(fd) \/ Delete(fd) \/ Missing(fd)

Spec == Init /\ [][Next]_vars

-----------------------------------------------------------------------------
(* The window lies within the array, and an entry is a descriptor, unused, *)
(* or a gap left behind.                                                   *)
TypeOK ==
  /\ pollfd_list \in Seq(Fd \cup {0, -1}) /\ Size <= MaxSize
  /\ cnt \in 0..Size
  /\ live \subseteq open /\ open \subseteq Fd

(* A client's descriptor never gets lost from the array: whatever is moved *)
(* or overwritten, some entry still holds it.                              *)
LiveStored == live \subseteq Entries

(* poll() never looks at an unused entry, whose 0 is the descriptor of     *)
(* stdin, although the window counts additions and deletions and entries   *)
(* move independently of that count (add_poll_fd, del_poll_fd).            *)
NoUnusedInWindow == 0 \notin Window

-----------------------------------------------------------------------------
(* What the repository says of the program, and the code does not do *)

(* main.c, pollfd: "List of all fds which should be polled"; every client  *)
(* is in the window.                                                       *)
EveryClientPolled == live \subseteq Window
=============================================================================
