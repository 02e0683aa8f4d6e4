----------------------------- MODULE HttpServer ------------------------------
(***************************************************************************)
(* The language server's connection handling: serve_forever and respond of *)
(* compiler/httpd/httpd.c. One process accepts connections and forks a     *)
(* responder for each. They share clients, an array with a descriptor per  *)
(* slot, -1 when the slot is free: the server takes a free slot, and only  *)
(* the responder gives it back. Descriptors are numbers in the table of    *)
(* one process; fork copies the table.                                     *)
(***************************************************************************)
EXTENDS Integers, FiniteSets, Functions

CONSTANTS
  MaxConnections,  (* MAX_CONNECTIONS                                      *)
  Conns,           (* the connections clients open, each of them once      *)
  FdLimit,         (* descriptors the server's table has for connections   *)
  Requests,        (* what may become of a request                         *)
  ForkMayFail,     (* whether fork may return -1                           *)
  NoConn           (* no connection                                        *)

(* A request arrives whole and route returns; the client is gone before it *)
(* sent anything; the request has no Content-Length; its body is never     *)
(* completed; route exits the process (a lexer error); route never returns.*)
(* A client that sends nothing, or not the rest, is not among them: its    *)
(* responder stays where it is, and nothing obliges a client to act.       *)
RequestKinds == {"whole", "gone", "noLength", "cutShort", "exits", "hangs"}

ASSUME HttpServerAssumption ==
  /\ MaxConnections \in Nat \ {0}
  /\ FdLimit \in Nat \ {0}
  /\ Requests \subseteq RequestKinds
  /\ ForkMayFail \in BOOLEAN
  /\ NoConn \notin Conns

Slots == 0 .. MaxConnections - 1
Fds == 1 .. FdLimit
Free == -1

VARIABLES
  clients,   (* slot -> descriptor, or -1; memory shared by all processes  *)
  slot,      (* the server's slot                                          *)
  pc,        (* where the server is in serve_forever                       *)
  open,      (* the server's table: descriptor -> connection               *)
  resp       (* connection -> its responder process                        *)

vars == <<clients, slot, pc, open, resp>>

ServerSteps == {"accept", "fork", "close", "scan", "exited"}
Active == {"recv", "body", "dup", "route", "close", "clear"}
ResponderSteps == Active \cup {"none", "refused", "lost", "stuck", "exited"}

NoTable == [f \in {} |-> NoConn]

(* A responder: its program counter, slot and table, the request it serves *)
(* and the connection its standard output goes to.                         *)
NoResponder ==
  [pc |-> "none", slot |-> 0, fds |-> NoTable,
   req |-> "gone", out |-> NoConn, answered |-> FALSE]

Init ==
  /\ clients = [s \in Slots |-> Free]
  /\ slot = 0
  /\ pc = "accept"
  /\ open = NoTable
  /\ resp = [c \in Conns |-> NoResponder]

Without(table, f) == [g \in DOMAIN table \ {f} |-> table[g]]

(***************************************************************************)
(* The server.                                                             *)
(***************************************************************************)

(* accept returns the lowest descriptor that is not in use.                *)
LowestFree(f) == f \notin DOMAIN open /\ \A g \in Fds : g < f => g \in DOMAIN open

Accept(c) ==
  /\ pc = "accept"
  /\ resp[c].pc = "none"
  /\ \E f \in Fds :
       /\ LowestFree(f)
       /\ open' = [g \in DOMAIN open \cup {f} |-> IF g = f THEN c ELSE open[g]]
       /\ clients' = [clients EXCEPT ![slot] = f]
  /\ pc' = "fork"
  /\ UNCHANGED <<slot, resp>>

(* accept fails when the table is full; the server exits.                  *)
AcceptFails ==
  /\ pc = "accept"
  /\ Fds \subseteq DOMAIN open
  /\ clients' = [clients EXCEPT ![slot] = -1]
  /\ open' = NoTable
  /\ pc' = "exited"
  /\ UNCHANGED <<slot, resp>>

(* The responder starts with a copy of the server's table.                 *)
Fork ==
  /\ pc = "fork"
  /\ resp' = [resp EXCEPT ![open[clients[slot]]] =
                [NoResponder EXCEPT !.pc = "recv", !.slot = slot, !.fds = open]]
  /\ pc' = "close"
  /\ UNCHANGED <<clients, slot, open>>

(* fork returns -1: the server goes on as if there were a responder.       *)
ForkFails ==
  /\ pc = "fork"
  /\ ForkMayFail
  /\ resp' = [resp EXCEPT ![open[clients[slot]]] =
                [NoResponder EXCEPT !.pc = "refused", !.slot = slot]]
  /\ pc' = "close"
  /\ UNCHANGED <<clients, slot, open>>

(* close(clients[slot]): the slot may already read -1.                     *)
CloseNothing ==                        \* a slip: left to the responder
  /\ pc = "close"
  /\ pc' = "scan"
  /\ UNCHANGED <<clients, slot, open, resp>>
CloseConn ==
  /\ pc = "close"
  /\ open' = Without(open, clients[slot])
  /\ pc' = "scan"
  /\ UNCHANGED <<clients, slot, resp>>

(* One turn of the loop that looks for a free slot.                        *)
ScanOnce ==                            \* a slip: looks at one slot only
  /\ pc = "scan"
  /\ slot' = (slot + 1) % MaxConnections
  /\ pc' = "accept"
  /\ UNCHANGED <<clients, open, resp>>
ScanPastEnd ==                         \* a slip: no remainder
  /\ pc = "scan"
  /\ IF clients[slot] /= -1
     THEN slot' = slot + 1 /\ UNCHANGED pc
     ELSE pc' = "accept" /\ UNCHANGED slot
  /\ UNCHANGED <<clients, open, resp>>
ScanNoWrap ==                          \* a slip: stops at the last slot
  /\ pc = "scan"
  /\ IF clients[slot] /= -1
     THEN slot + 1 < MaxConnections /\ slot' = slot + 1 /\ UNCHANGED pc
     ELSE pc' = "accept" /\ UNCHANGED slot
  /\ UNCHANGED <<clients, open, resp>>
Scan ==
  /\ pc = "scan"
  /\ IF clients[slot] /= -1
     THEN slot' = (slot + 1) % MaxConnections /\ UNCHANGED pc
     ELSE pc' = "accept" /\ UNCHANGED slot
  /\ UNCHANGED <<clients, open, resp>>

Server ==
  \/ \E c \in Conns : Accept(c)
  \/ AcceptFails
  \/ Fork
  \/ ForkFails
  \/ CloseConn
  \/ Scan

(***************************************************************************)
(* The responder of connection c.                                          *)
(***************************************************************************)
Goto(c, step) == resp' = [resp EXCEPT ![c].pc = step]

(* The descriptor it finds in its slot, each time it looks.                *)
Fd(c) == clients[resp[c].slot]

(* The first recv, which waits until the client sends something or closes  *)
(* the connection. Without a Content-Length header atoi is given a null    *)
(* pointer and the process dies.                                           *)
Recv(c) ==
  /\ resp[c].pc = "recv"
  /\ \E r \in Requests :
       resp' = [resp EXCEPT ![c].req = r,
                            ![c].pc = CASE r = "gone"     -> "close"
                                        [] r = "noLength" -> "lost"
                                        [] OTHER          -> "body"]
  /\ UNCHANGED <<clients, slot, pc, open>>

(* The loop that receives the body, which waits for the client too. One    *)
(* that closes the connection makes recv return 0, and so does a buffer    *)
(* that is full: for ever.                                                 *)
BodyGivesBack(c) ==                    \* a slip: the slot given back too early
  /\ resp[c].pc = "body"
  /\ Goto(c, IF resp[c].req = "cutShort" THEN "stuck" ELSE "dup")
  /\ clients' = [clients EXCEPT ![resp[c].slot] = -1]
  /\ UNCHANGED <<slot, pc, open>>
Body(c) ==
  /\ resp[c].pc = "body"
  /\ Goto(c, IF resp[c].req = "cutShort" THEN "stuck" ELSE "dup")
  /\ UNCHANGED <<clients, slot, pc, open>>

(* dup2(clientfd, STDOUT_FILENO); close(clientfd). A number that is not in *)
(* the table leaves the standard output of the server.                     *)
Dup(c) ==
  /\ resp[c].pc = "dup"
  /\ resp' = [resp EXCEPT ![c].pc = "route",
                          ![c].out = IF Fd(c) \in DOMAIN resp[c].fds
                                     THEN resp[c].fds[Fd(c)] ELSE NoConn,
                          ![c].fds = Without(resp[c].fds, Fd(c))]
  /\ UNCHANGED <<clients, slot, pc, open>>

(* route, and the shutdown of the connection after it.                     *)
Route(c) ==
  /\ resp[c].pc = "route"
  /\ IF resp[c].req = "whole"
     THEN resp' = [resp EXCEPT ![c].pc = "close", ![c].answered = TRUE]
     ELSE Goto(c, IF resp[c].req = "exits" THEN "lost" ELSE "stuck")
  /\ UNCHANGED <<clients, slot, pc, open>>

(* close(clients[slot]), a second time after dup2.                         *)
CloseOwn(c) ==
  /\ resp[c].pc = "close"
  /\ resp' = [resp EXCEPT ![c].pc = "clear",
                          ![c].fds = Without(resp[c].fds, Fd(c))]
  /\ UNCHANGED <<clients, slot, pc, open>>

(* clients[slot] = -1; exit(0).                                            *)
ClearNothing(c) ==                     \* a slip: the slot is not given back
  /\ resp[c].pc = "clear"
  /\ Goto(c, "exited")
  /\ UNCHANGED <<clients, slot, pc, open>>
Clear(c) ==
  /\ resp[c].pc = "clear"
  /\ clients' = [clients EXCEPT ![resp[c].slot] = -1]
  /\ Goto(c, "exited")
  /\ UNCHANGED <<slot, pc, open>>

Responder(c) ==
  Recv(c) \/ Body(c) \/ Dup(c) \/ Route(c) \/ CloseOwn(c) \/ Clear(c)

Next == Server \/ \E c \in Conns : Responder(c)

Spec == Init /\ [][Next]_vars

(* The steps of a responder that do not wait for its client.               *)
OnItsOwn(c) == Dup(c) \/ Route(c) \/ CloseOwn(c) \/ Clear(c)

(* The kernel schedules every process that can run, and accept takes a     *)
(* connection while there is one. Once it is taken nothing is assumed of   *)
(* its client: recv has no timeout, and its step may never come.           *)
FairSpec ==
  /\ Spec
  /\ WF_vars(Server)
  /\ \A c \in Conns : WF_vars(OnItsOwn(c))

(***************************************************************************)
(* Properties.                                                             *)
(***************************************************************************)
Tables == UNION {[D -> Conns] : D \in SUBSET Fds}

(* Type correctness of the server, the shared slots and the responders.    *)
TypeOK ==
  /\ clients \in [Slots -> Fds \cup {Free}]
  /\ slot \in Slots
  /\ pc \in ServerSteps
  /\ open \in Tables
  /\ resp \in [Conns -> [pc : ResponderSteps, slot : Slots, fds : Tables,
                         req : RequestKinds, out : Conns \cup {NoConn},
                         answered : BOOLEAN]]

Running(c) == resp[c].pc \in Active

(* Two running responders never have the same slot, although nothing but   *)
(* the value -1 in shared memory tells the server that a slot is free.     *)
OneResponderPerSlot ==
  \A c, d \in Conns :
    Running(c) /\ Running(d) /\ resp[c].slot = resp[d].slot => c = d

(* A responder writes its answer to the connection whose request it read,  *)
(* although it looks the descriptor up in shared memory again each time    *)
(* while the server accepts other connections.                             *)
AnswersItsClient ==
  \A c \in Conns : resp[c].pc = "route" \/ resp[c].answered => resp[c].out = c

(* The server keeps a connection open, once it has looked for the next     *)
(* slot, only if the responder had already given the slot back: a running  *)
(* responder, or one that died, leaves no descriptor behind in the server. *)
KeepsOnlyFinished ==
  \A f \in DOMAIN open :
    \/ resp[open[f]].pc = "exited"
    \/ pc \in {"fork", "close"} /\ clients[slot] = f

(* A responder waits in recv for as long as its client likes; one that is  *)
(* lost will never give its slot back.                                     *)
Waits(c) == resp[c].pc \in {"recv", "body"}
IsLost(c) == resp[c].pc \in {"lost", "stuck", "refused"}

(* A slot that no step of the server or of a responder on its own frees.   *)
Held(s) == \E c \in Conns : resp[c].slot = s /\ (IsLost(c) \/ Waits(c))

(* The server stops accepting for good only when every slot is held for    *)
(* good, by a responder that died, hangs, was never started or waits for a *)
(* client that stays silent. One free slot, however late, is found.        *)
SpinsOnlyWhenAllHeld ==
  (<>[](pc = "scan")) => <>[](\A s \in Slots : Held(s))

(* Every client that does its part is served, whatever becomes of the      *)
(* others, or else all slots are held for good or the server ran out of    *)
(* descriptors before it came to the client. It may have its own responder *)
(* to blame, or its own silence, and nothing else.                         *)
EveryClientServed ==
  \A c \in Conns :
    \/ <>(resp[c].pc = "exited" \/ IsLost(c))
    \/ <>[]Waits(c)
    \/ <>[](\A s \in Slots : Held(s))
    \/ <>(pc = "exited" /\ resp[c].pc = "none")

==============================================================================
