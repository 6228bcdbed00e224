---------------------------- MODULE MCEpollServer ----------------------------
(***************************************************************************)
(* EpollServer with two kinds of clients in one run.  "polite" ones, who   *)
(* leave the server time, beside two threads; and "busy" ones, who connect *)
(* and leave at any time and send more than a read takes, at a server of   *)
(* one thread and a queue of one, with more descriptors than clilist has   *)
(* entries.                                                                *)
(***************************************************************************)
EXTENDS EpollServer

CONSTANTS
    BusyConnect,        \* entries of clilist
    BusyDescriptors     \* connections a server of the busy clients can accept

\* In op_epoll.h the queue has as many entries as there may be connections.
\* A polite client's message fits in line and leaves it terminated.
ASSUME ClientsAssumption ==
    /\ BusyConnect \in Nat \ {0} /\ BusyDescriptors \in Nat \ {0}
    /\ Polite /\ QUEUE >= MAX_CONNECT /\ MaxData < LINE

VARIABLE clients        \* the kind

Busy == INSTANCE EpollServer WITH
          MAX_CONNECT <- BusyConnect, Descriptors <- BusyDescriptors, QUEUE <- 1,
          Polite <- FALSE, LINE <- 1, MaxData <- 2,
          Threads <- {CHOOSE t \in Threads : TRUE}

ServerInit ==
    \/ clients = "polite" /\ Init
    \/ clients = "busy" /\ Busy!Init

ServerNext ==
    /\ \/ clients = "polite" /\ Next
       \/ clients = "busy" /\ Busy!Next
    /\ UNCHANGED clients

\* With polite clients the process is scheduled.
ServerSpec ==
    /\ ServerInit /\ [][ServerNext]_<<clients, vars>>
    /\ WF_<<clients, vars>>(clients = "polite" /\ StartServer /\ UNCHANGED clients)
    /\ \A t \in Threads :
          WF_<<clients, vars>>(clients = "polite" /\ handle(t) /\ UNCHANGED clients)

\* The listening socket never has an event without a connection to accept.
\* With polite clients moreover the server neither exits nor writes outside
\* clilist, and when it is idle, clilist, epollfd and the open connections are
\* the same.  (With busy ones del_clilist takes tailindex below zero, a client
\* who leaves behind a long message stays in the list, and add_clilist writes
\* outside it.)
ListsAgree == AcceptFinds /\ (clients = "polite" => TypeOK /\ ListMatches)

\* Polite clients, whose messages are shorter than a line: what a client sends is
\* read by some task.
PoliteAnswered ==
    \A f \in Conns :
       clients = "polite" /\ conn[f].data > 0 ~> clients = "polite" /\ conn[f].data = 0
==============================================================================
