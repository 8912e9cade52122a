------------------------------ MODULE Process ------------------------------
(***************************************************************************)
(* The process statement by statement, with SIGINT between any two of      *)
(* them: start-up and stop() (src/src/main.c), the command line            *)
(* (src/src/argv.c), and the confirmation buffer as the linked list it is  *)
(* (src/src/queue.c).  The build does not optimise, so what a statement    *)
(* has read can be stale when it writes.  sigint_handler runs to its end   *)
(* on the same thread, unless a second SIGINT ends the process.  All       *)
(* clients are UDP clients in one channel; the list of clients is only     *)
(* appended to and searched, as a sequence.                                *)
(***************************************************************************)
EXTENDS Integers, FiniteSets, Sequences, SequencesExt

CONSTANTS
  Fd,           \* descriptors of clients
  MaxNodes,     \* bound: items ever allocated, each at an address of its own
  WIDTH,        \* number of message ids, 2^16 in the code
  CommandLines, \* argument vectors, sequences of strings
  atoi          \* the number a string stands for

ASSUME ProcessAssumption == MaxNodes \in Nat /\ WIDTH \in Nat \ {0}

VARIABLES
  stage,        \* where main is, "loop" in the event loop
  argv,         \* the parsed arguments
  queues,       \* the pointers clients and msg_out_buf
  clients,      \* the list of clients
  state,        \* the state of the client on each descriptor
  joined,       \* the clients that are on the channel
  heap,         \* the queue items allocated for messages
  allocs,       \* how many items were allocated so far
  first,        \* msg_out_buf->first
  msg_cnt,
  stop_flag,
  todo,         \* statements left of the handler that runs
  reg,          \* its local variables
  clash         \* history: two messages of one id were buffered together

vars == <<stage, argv, queues, clients, state, joined, heap, allocs,
          first, msg_cnt, stop_flag, todo, reg, clash>>
list_vars == <<heap, allocs, first>>
session_vars == <<clients, state, joined>>
life_vars == <<stage, argv, queues, stop_flag>>

NULL == 0
Unset == [cnt |-> 0, item |-> NULL, last |-> NULL, next |-> NULL, ptr |-> NULL]

-----------------------------------------------------------------------------
(* queue.c *)

Follow(h, n) == IF n \in DOMAIN h THEN h[n].next ELSE NULL

(* The items from item n on; a list that came to a cycle repeats them. *)
Items(h, n) ==
  LET nth[i \in 1..Cardinality(DOMAIN h) + 1] ==
        IF i = 1 THEN n ELSE Follow(h, nth[i - 1])
  IN  SubSeq(nth, 1, Cardinality({i \in DOMAIN nth : nth[i] # NULL}))

Listed == Range(Items(heap, first))

queue_last(h, n) == IF n = NULL THEN NULL ELSE Last(Items(h, n))

Linked(h, last, n) == [h EXCEPT ![last].next = n]

(* The position of the first item with this id, 0 if there is none. *)
Position(id) == SelectInSeq(Items(heap, first), LAMBDA n : heap[n].id = id)

queue_get(id) ==
  IF Position(id) = 0 THEN NULL ELSE Items(heap, first)[Position(id)]

(* The item in front of that one, NULL for queue->first. *)
Before(id) ==
  IF Position(id) <= 1 THEN NULL ELSE Items(heap, first)[Position(id) - 1]

(* queue_create_item *)
Item(id, f, type, by) ==
  [id |-> id, sockfd |-> f, type |-> type, by |-> by, next |-> NULL]

Allocated(h, n, item) == [m \in DOMAIN h \cup {n} |-> IF m = n THEN item ELSE h[m]]

-----------------------------------------------------------------------------
(* The statements a handler consists of *)

Stmt(op, f, arg) == <<[op |-> op, fd |-> f, arg |-> arg]>>

send_msg(f, type) ==
  Stmt("read_cnt", f, type) \o Stmt("write_cnt", f, type)
    \o Stmt("add_check", f, type) \o Stmt("add_walk", f, type)
    \o Stmt("add_link", f, type)

(* A CONFIRM takes an id too, and is not buffered. *)
send_confirm(f) ==
  Stmt("read_cnt", f, "e_confirm") \o Stmt("write_cnt", f, "e_confirm")

queue_remove(id) ==
  Stmt("remove_read", NULL, id) \o Stmt("remove_write", NULL, id)
    \o Stmt("destroy_item", NULL, id)

forward_msg_channel(f) ==
  FlattenSeq([i \in 1..Len(clients) |->
    IF clients[i] = f THEN <<>> ELSE Stmt("forward", clients[i], f)])

close_client(f) == Stmt("close", f, "e_bye")
set(f, s) == Stmt("set", f, s)
execute_msg(f, type) == Stmt("execute", f, type)

-----------------------------------------------------------------------------
(* One statement *)

At(op) == stage = "loop" /\ todo # <<>> /\ Head(todo).op = op
Cur == Head(todo)
Then(stmts) == todo' = stmts \o Tail(todo)

(* id = msg_cnt++ *)
read_cnt ==
  /\ At("read_cnt")
  /\ reg' = [reg EXCEPT !.cnt = msg_cnt]
  /\ Then(<<>>)
  /\ UNCHANGED <<life_vars, session_vars, list_vars, msg_cnt, clash>>

write_cnt ==
  /\ At("write_cnt")
  /\ msg_cnt' = (reg.cnt + 1) % WIDTH
  /\ reg' = IF Cur.arg = "e_confirm" THEN [reg EXCEPT !.cnt = 0] ELSE reg
  /\ Then(<<>>)
  /\ UNCHANGED <<life_vars, session_vars, list_vars, clash>>

(* The item is created; queue_add asks whether the list is empty ...       *)
add_check ==
  /\ At("add_check")
  /\ allocs' = allocs + 1
  /\ heap' = Allocated(heap, allocs', Item(reg.cnt, Cur.fd, Cur.arg, "main"))
  /\ reg' = [reg EXCEPT !.item = allocs', !.cnt = 0]
  /\ todo' = IF first = NULL THEN Tail(Tail(todo)) ELSE Tail(todo)
  /\ UNCHANGED <<life_vars, session_vars, first, msg_cnt, clash>>

(* ... looks for its last item otherwise ...                               *)
add_walk ==
  /\ At("add_walk")
  /\ reg' = [reg EXCEPT !.last = queue_last(heap, first)]
  /\ Then(<<>>)
  /\ UNCHANGED <<life_vars, session_vars, list_vars, msg_cnt, clash>>

Clashes(n) == \E m \in Range(Items(heap', first')) \ {n} :
                heap'[m].id = heap'[n].id

(* ... and writes the link.                                                *)
add_linkFirst ==
  /\ At("add_link")
  /\ first' = reg.item
  /\ reg' = [reg EXCEPT !.item = NULL, !.last = NULL]
  /\ Then(<<>>)
  /\ UNCHANGED <<life_vars, session_vars, heap, allocs, msg_cnt, clash>>
add_link ==
  /\ At("add_link")
  /\ IF reg.last = NULL
     THEN first' = reg.item /\ UNCHANGED heap
     ELSE heap' = Linked(heap, reg.last, reg.item) /\ UNCHANGED first
  /\ reg' = [reg EXCEPT !.item = NULL, !.last = NULL]
  /\ Then(<<>>)
  /\ clash' = (clash \/ Clashes(reg.item))
  /\ UNCHANGED <<life_vars, session_vars, allocs, msg_cnt>>

(* queue_remove finds the item and reads its next ...                      *)
remove_read ==
  /\ At("remove_read")
  /\ LET n == queue_get(Cur.arg)
     IN  reg' = [reg EXCEPT !.item = n, !.last = Before(Cur.arg),
                            !.next = Follow(heap, n)]
  /\ Then(<<>>)
  /\ UNCHANGED <<life_vars, session_vars, list_vars, msg_cnt, clash>>

(* ... writes it into the item in front ...                                *)
remove_write ==
  /\ At("remove_write")
  /\ CASE reg.item = NULL -> UNCHANGED <<heap, first>>
       [] reg.last = NULL /\ reg.item # NULL -> first' = reg.next /\ UNCHANGED heap
       [] reg.last # NULL -> /\ heap' = Linked(heap, reg.last, reg.next)
                             /\ UNCHANGED first
  /\ Then(<<>>)
  /\ UNCHANGED <<life_vars, session_vars, allocs, msg_cnt, reg, clash>>

(* ... and the item is freed.                                              *)
destroy_item ==
  /\ At("destroy_item")
  /\ heap' = [n \in DOMAIN heap \ {reg.item} |-> heap[n]]
  /\ reg' = [reg EXCEPT !.item = NULL, !.last = NULL, !.next = NULL]
  /\ Then(<<>>)
  /\ UNCHANGED <<life_vars, session_vars, allocs, first, msg_cnt, clash>>

(* forward_msg_channel, at one client of the list. *)
forward ==
  /\ At("forward")
  /\ LET same == Cur.fd \in joined <=> Cur.arg \in joined
     IN  Then(IF state[Cur.fd] # "s_en" /\ same THEN send_msg(Cur.fd, "e_msg")
              ELSE <<>>)
  /\ UNCHANGED <<life_vars, session_vars, list_vars, msg_cnt, reg, clash>>

set_state ==
  /\ At("set")
  /\ state' = [state EXCEPT ![Cur.fd] = Cur.arg]
  /\ Then(<<>>)
  /\ UNCHANGED <<life_vars, clients, joined, list_vars, msg_cnt, reg, clash>>

(* close_client of a UDP client *)
close ==
  /\ At("close")
  /\ Then(IF state[Cur.fd] # "s_en"
          THEN set(Cur.fd, "s_en") \o send_msg(Cur.fd, "e_bye") ELSE <<>>)
  /\ UNCHANGED <<life_vars, session_vars, list_vars, msg_cnt, reg, clash>>

(* process_msg: the early returns ... *)
process_msgStopping ==
  /\ At("process_msg")
  /\ Then(IF state[Cur.fd] = "s_en" /\ Cur.arg # "e_bye" THEN <<>>
          ELSE Stmt("check", Cur.fd, Cur.arg))
  /\ UNCHANGED <<life_vars, session_vars, list_vars, msg_cnt, reg, clash>>
process_msg ==
  /\ At("process_msg")
  /\ LET dropped == stop_flag \/ state[Cur.fd] = "s_en"
     IN  Then(IF dropped /\ Cur.arg # "e_bye" THEN <<>>
              ELSE Stmt("check", Cur.fd, Cur.arg))
  /\ UNCHANGED <<life_vars, session_vars, list_vars, msg_cnt, reg, clash>>

(* ... and what a message leads to that the state of the client forbids.   *)
check_state_transition ==
  /\ At("check")
  /\ LET f == Cur.fd
         error == IF state[f] = "s_ac" THEN send_msg(f, "e_err") ELSE <<>>
         forbidden == state[f] = "s_en" \/ (state[f] = "s_ac" /\ Cur.arg # "e_auth")
     IN  Then(CASE ~forbidden -> execute_msg(f, Cur.arg)
                [] forbidden /\ Cur.arg = "e_bye" -> error \o execute_msg(f, Cur.arg)
                [] forbidden /\ Cur.arg # "e_bye" ->
                     error \o set(f, "s_er") \o set(f, "s_en") \o close_client(f))
  /\ UNCHANGED <<life_vars, session_vars, list_vars, msg_cnt, reg, clash>>

execute_auth ==
  /\ At("execute") /\ Cur.arg = "e_auth"
  /\ LET f == Cur.fd
         reply == send_msg(f, "e_reply")
     IN  IF state[f] = "s_op" THEN Then(reply) /\ UNCHANGED joined
         ELSE /\ Then(forward_msg_channel(f) \o set(f, "s_op") \o reply)
              /\ joined' = joined \cup {f}
  /\ UNCHANGED <<life_vars, clients, state, list_vars, msg_cnt, reg, clash>>

execute_other ==
  /\ At("execute") /\ Cur.arg # "e_auth"
  /\ LET f == Cur.fd
         notify == forward_msg_channel(f)
     IN  Then(CASE Cur.arg = "e_join" ->
                     notify \o notify \o set(f, "s_op") \o send_msg(f, "e_reply")
                [] Cur.arg = "e_msg" -> notify \o set(f, "s_op")
                [] Cur.arg = "e_bye" -> notify \o set(f, "s_en") \o close_client(f))
  /\ UNCHANGED <<life_vars, session_vars, list_vars, msg_cnt, reg, clash>>

(* execute_msg, CONFIRM: confirming a BYE closes the client. *)
confirm ==
  /\ At("confirm")
  /\ LET n == queue_get(Cur.arg)
     IN  Then(CASE n = NULL -> <<>>
                [] n # NULL /\ heap[n].type = "e_bye" ->
                     queue_remove(Cur.arg) \o close_client(Cur.fd)
                [] n # NULL /\ heap[n].type # "e_bye" -> queue_remove(Cur.arg))
  /\ UNCHANGED <<life_vars, session_vars, list_vars, msg_cnt, reg, clash>>

(* delete_client: from the first item on ...                               *)
delete_first ==
  /\ At("delete")
  /\ reg' = [reg EXCEPT !.ptr = first]
  /\ Then(Stmt("delete_next", Cur.fd, NULL))
  /\ UNCHANGED <<life_vars, session_vars, list_vars, msg_cnt, clash>>

(* ... it passes over an item or, already past it, removes it by its id,   *)
delete_nextLate ==
  /\ At("delete_next") /\ reg.ptr # NULL
  /\ LET own == heap[reg.ptr].sockfd = Cur.fd
     IN  /\ Then((IF own THEN queue_remove(heap[reg.ptr].id) ELSE <<>>)
                   \o Stmt("delete_next", Cur.fd, NULL))
         /\ reg' = IF own THEN reg ELSE [reg EXCEPT !.ptr = heap[@].next]
  /\ UNCHANGED <<life_vars, session_vars, list_vars, msg_cnt, clash>>
delete_next ==
  /\ At("delete_next") /\ reg.ptr # NULL
  /\ Then((IF heap[reg.ptr].sockfd = Cur.fd
           THEN queue_remove(heap[reg.ptr].id) ELSE <<>>)
             \o Stmt("delete_next", Cur.fd, NULL))
  /\ reg' = [reg EXCEPT !.ptr = heap[@].next]
  /\ UNCHANGED <<life_vars, session_vars, list_vars, msg_cnt, clash>>

(* ... and at the end the client is removed.                               *)
delete_endEarly ==
  /\ At("delete_next")
  /\ clients' = RemoveFirst(clients, Cur.fd)
  /\ state' = [state EXCEPT ![Cur.fd] = "none"]
  /\ joined' = joined \ {Cur.fd}
  /\ Then(<<>>)
  /\ reg' = [reg EXCEPT !.ptr = NULL]
  /\ UNCHANGED <<life_vars, list_vars, msg_cnt, clash>>
delete_end ==
  /\ At("delete_next") /\ reg.ptr = NULL
  /\ clients' = RemoveFirst(clients, Cur.fd)
  /\ state' = [state EXCEPT ![Cur.fd] = "none"]
  /\ joined' = joined \ {Cur.fd}
  /\ Then(<<>>)
  /\ UNCHANGED <<life_vars, list_vars, msg_cnt, reg, clash>>

Statement ==
  \/ read_cnt \/ write_cnt \/ add_check \/ add_walk \/ add_link
  \/ remove_read \/ remove_write \/ destroy_item
  \/ forward \/ set_state \/ close
  \/ process_msg \/ check_state_transition \/ execute_auth \/ execute_other
  \/ confirm
  \/ delete_first \/ delete_next \/ delete_end

-----------------------------------------------------------------------------
(* Events of the loop.  Bound: a handler, and SIGINT, starts only with     *)
(* room for its messages and those of the handler it interrupts.           *)

MaxSends == 2 * Cardinality(Fd) - 1
Sends(op) == CASE op \in {"process_msg", "check", "execute"} -> MaxSends
               [] op \in {"add_check", "forward", "close"} -> 1
               [] OTHER -> 0
Room(n) == FoldLeft(LAMBDA k, stmt : k + Sends(stmt.op), allocs + n, todo) <= MaxNodes

Idle == stage = "loop" /\ todo = <<>>
Run(stmts) ==
  /\ Idle
  /\ todo' = stmts
  /\ UNCHANGED <<life_vars, list_vars, msg_cnt, reg, clash>>

udp_polling(f, type) ==
  /\ state[f] = "none"
  /\ Room(MaxSends)
  /\ clients' = Append(clients, f)
  /\ state' = [state EXCEPT ![f] = "s_ac"]
  /\ UNCHANGED joined
  /\ Run(send_confirm(f) \o Stmt("process_msg", f, type))

process_msg_sock(f, type) ==
  /\ state[f] # "none"
  /\ Room(MaxSends)
  /\ Run(send_confirm(f) \o Stmt("process_msg", f, type))
  /\ UNCHANGED session_vars

recv_confirm(f, id) ==
  /\ state[f] # "none"
  /\ Room(1)
  /\ Run(Stmt("confirm", f, id))
  /\ UNCHANGED session_vars

(* udp_timeout gives up a message of client f. *)
udp_timeout(f) ==
  /\ state[f] # "none"
  /\ \E n \in Listed : heap[n].sockfd = f
  /\ state[f] # "s_en" => Room(Cardinality(Fd))
  /\ Run(IF state[f] # "s_en" THEN close_client(f) \o forward_msg_channel(f)
         ELSE Stmt("delete", f, NULL))
  /\ UNCHANGED session_vars

(* poll() times out, and no message falls due. *)
poll_idle == Run(<<>>) /\ UNCHANGED session_vars

-----------------------------------------------------------------------------
(* SIGINT *)

Over == stage \in {"exited", "crashed", "killed"}

Ended(a, f) ==
  IF a.state[f] = "s_en" THEN a
  ELSE LET n == a.allocs + 1
           h == Allocated(a.heap, n, Item(a.msg_cnt, f, "e_bye", "sigint"))
           last == queue_last(a.heap, a.first)
       IN  [state   |-> [a.state EXCEPT ![f] = "s_en"],
            msg_cnt |-> (a.msg_cnt + 1) % WIDTH,
            heap    |-> IF last = NULL THEN h ELSE Linked(h, last, n),
            allocs  |-> n,
            first   |-> IF last = NULL THEN n ELSE a.first]

AllEnded ==
  LET upto[i \in 0..Len(clients)] ==
        IF i = 0 THEN [state |-> state, msg_cnt |-> msg_cnt, heap |-> heap,
                       allocs |-> allocs, first |-> first]
        ELSE Ended(upto[i - 1], clients[i])
  IN  upto[Len(clients)]

sigint_handler ==
  /\ ~Over /\ ~stop_flag
  /\ queues.clients = "created"
  /\ Room(Cardinality({f \in Fd : state[f] \notin {"none", "s_en"}}))
  /\ state' = AllEnded.state
  /\ msg_cnt' = AllEnded.msg_cnt
  /\ heap' = AllEnded.heap
  /\ allocs' = AllEnded.allocs
  /\ first' = AllEnded.first
  /\ stop_flag' = TRUE
  /\ clash' = (clash \/ \E n \in DOMAIN heap' \ DOMAIN heap : Clashes(n))
  /\ UNCHANGED <<stage, argv, queues, clients, joined, todo, reg>>

(* The queue does not exist yet, or was freed and reads as anything: the   *)
(* process dies or, at best, the handler finds no client.                  *)
sigint_wild ==
  /\ ~Over /\ ~stop_flag
  /\ queues.clients # "created"
  /\ \/ stage' = "crashed" /\ UNCHANGED stop_flag
     \/ queues.clients = "freed" /\ stop_flag' = TRUE /\ UNCHANGED stage
  /\ UNCHANGED <<argv, queues, session_vars, list_vars, msg_cnt, todo, reg, clash>>

(* signal() of this build, --std=c11, is that of System V: the handler is  *)
(* reset when it is called, and another SIGINT ends the process.           *)
sigint_default ==
  /\ ~Over /\ stop_flag
  /\ stage' = "killed"
  /\ UNCHANGED <<argv, queues, stop_flag, session_vars, list_vars, msg_cnt, todo,
                 reg, clash>>

-----------------------------------------------------------------------------
(* Start-up and stop *)

Defaults == [is_help |-> FALSE, ipv4 |-> "0.0.0.0", port |-> 4567,
             udp_timeout |-> 250, udp_retransmissions |-> 3]

SetOption(a, option, value) ==
  CASE option = "-l" -> [a EXCEPT !.ipv4 = value]
    [] option = "-p" -> [a EXCEPT !.port = atoi[value] % 65536]
    [] option = "-d" -> [a EXCEPT !.udp_timeout = atoi[value] % 65536]
    [] option = "-r" -> [a EXCEPT !.udp_retransmissions = atoi[value] % 256]

(* An option takes whatever follows as its value.  What follows a          *)
(* malformed argument is not read, and main goes on with what was.         *)
parse_argv(line) ==
  LET Read(a, i) ==
        CASE a.option = "malformed" -> a
          [] a.option \notin {"", "malformed"} ->
               [argv |-> SetOption(a.argv, a.option, line[i]), option |-> ""]
          [] a.option = "" /\ line[i] = "-h" -> [a EXCEPT !.argv.is_help = TRUE]
          [] a.option = "" /\ line[i] # "-h" ->
               [a EXCEPT !.option =
                  IF line[i] \in {"-l", "-p", "-d", "-r"} /\ i < Len(line)
                  THEN line[i] ELSE "malformed"]
  IN  FoldLeftDomain(Read, [argv |-> Defaults, option |-> ""], line).argv

Go(from, to) ==
  /\ stage = from
  /\ stage' = to
  /\ UNCHANGED <<session_vars, msg_cnt, stop_flag, todo, reg, clash>>

main_argv ==
  \E line \in CommandLines :
    /\ argv' = parse_argv(line)
    /\ Go("argv", IF argv'.is_help THEN "exited" ELSE "pollfd")
    /\ UNCHANGED <<queues, list_vars>>

(* The array is cleared before malloc's result is looked at. *)
main_pollfd ==
  /\ \/ Go("pollfd", "clients")
     \/ Go("pollfd", "crashed")
  /\ UNCHANGED <<argv, queues, list_vars>>

(* queue_create *)
main_queueUnchecked(q, next) ==
  /\ Go(q, next)
  /\ queues' \in {queues, [queues EXCEPT ![q] = "created"]}
  /\ UNCHANGED <<argv, list_vars>>
main_queue(q, next) ==
  /\ \/ Go(q, next) /\ queues' = [queues EXCEPT ![q] = "created"]
     \/ Go(q, "stop") /\ UNCHANGED queues
  /\ UNCHANGED <<argv, list_vars>>

main_server_open ==
  /\ \/ Go("server_open", "loop")
     \/ Go("server_open", "stop")
  /\ UNCHANGED <<argv, queues, list_vars>>

main_stop ==
  /\ Idle /\ stop_flag /\ first = NULL
  /\ Go("loop", "stop")
  /\ UNCHANGED <<argv, queues, list_vars>>

Freed(q) == [queues EXCEPT ![q] = IF @ = "created" THEN "freed" ELSE @]

(* stop: queue_destroy of either queue, then the sockets. *)
stop_clients ==
  /\ Go("stop", "stop_msg_out_buf")
  /\ queues' = Freed("clients")
  /\ UNCHANGED <<argv, list_vars>>

stop_msg_out_buf ==
  /\ Go("stop_msg_out_buf", "exited")
  /\ queues' = Freed("msg_out_buf")
  /\ heap' = [n \in DOMAIN heap \ Listed |-> heap[n]]
  /\ first' = NULL
  /\ UNCHANGED <<argv, allocs>>

Life ==
  \/ main_argv \/ main_pollfd
  \/ main_queue("clients", "msg_out_buf")
  \/ main_queue("msg_out_buf", "server_open")
  \/ main_server_open \/ main_stop \/ stop_clients \/ stop_msg_out_buf

Init ==
  /\ stage = "argv"
  /\ argv = Defaults
  /\ queues = [clients |-> "null", msg_out_buf |-> "null"]
  /\ clients = <<>>
  /\ state = [f \in Fd |-> "none"]
  /\ joined = {}
  /\ heap = <<>>
  /\ allocs = 0
  /\ first = NULL
  /\ msg_cnt = 0
  /\ stop_flag = FALSE
  /\ todo = <<>>
  /\ reg = Unset
  /\ clash = FALSE

InType == {"e_auth", "e_join", "e_msg", "e_bye"}

Next ==
  \/ Life
  \/ Statement
  \/ sigint_handler
  \/ sigint_wild
  \/ sigint_default
  \/ \E f \in Fd :
       \/ \E type \in InType : udp_polling(f, type) \/ process_msg_sock(f, type)
       \/ \E id \in 0..WIDTH - 1 : recv_confirm(f, id)
       \/ udp_timeout(f)
  \/ poll_idle
  \/ Over /\ UNCHANGED vars

Spec == Init /\ [][Next]_vars

-----------------------------------------------------------------------------
Orphans == {n \in Listed : state[heap[n].sockfd] = "none"}

(* Whenever SIGINT comes, the list is a chain of allocated items without a *)
(* cycle, and every pointer main still uses is to an allocated item        *)
(* (queue_add, queue_remove, delete_client).                               *)
ListSound ==
  /\ Listed \subseteq DOMAIN heap
  /\ IsInjective(Items(heap, first))
  /\ {reg.item, reg.last, reg.next, reg.ptr} \subseteq DOMAIN heap \cup {NULL}

(* The only messages that can get lost from the list are BYEs of SIGINT:   *)
(* what main puts into it stays there until main removes it.               *)
OnlySigintLoses ==
  \A n \in DOMAIN heap \ Listed : n = reg.item \/ heap[n].by = "sigint"

(* While no two buffered messages have shared an id, delete_client leaves  *)
(* no message of its client behind.                                        *)
DeletedLeavesNothing == ~clash => Orphans = {}

(* SIGINT ends every client but at most one: the one whose handler it      *)
(* interrupted, between the check of its state and "state = s_op"          *)
(* (process_msg, execute_msg).                                             *)
StopReopensAtMostOne ==
  stop_flag /\ Idle => Cardinality({f \in Fd : state[f] = "s_op"}) <= 1

(* SIGINT is fatal only before main has created the list of clients and    *)
(* in stop(): whatever fails in between, the process is not lost to it.    *)
NoCrashWhileServing ==
  [][stage' = "crashed" => stage \in {"argv", "pollfd", "clients",
                                      "stop", "stop_msg_out_buf"}]_vars
=============================================================================
