-------------------------- MODULE HttpServerProofs ---------------------------
(***************************************************************************)
(* Machine-checked proofs about HttpServer, for any number of slots,       *)
(* clients and descriptors: slots are exclusive, answers reach the client  *)
(* that asked, and the server keeps no connection of a responder that has  *)
(* not finished.                                                           *)
(***************************************************************************)
EXTENDS HttpServer, TLAPS

(* The invariant. A slot that is not free belongs to the connection being  *)
(* accepted or to one responder; until dup2 the responder finds its own    *)
(* connection under the number in its slot. While the server still has to  *)
(* close a connection, a responder that runs in its slot is the one of     *)
(* that connection.                                                        *)
SlotInv ==
  /\ TypeOK
  /\ pc = "accept" => clients[slot] = Free
  /\ pc = "fork" =>
       /\ clients[slot] \in DOMAIN open
       /\ resp[open[clients[slot]]].pc = "none"
       /\ \A c \in Conns : Running(c) => resp[c].slot /= slot
  /\ pc = "close" =>
       \A c \in Conns : Running(c) /\ resp[c].slot = slot =>
         clients[slot] \in DOMAIN open /\ open[clients[slot]] = c
  /\ \A c \in Conns : Running(c) => Fd(c) /= Free
  /\ \A c \in Conns : resp[c].pc \in {"recv", "body", "dup"} =>
       Fd(c) \in DOMAIN resp[c].fds /\ resp[c].fds[Fd(c)] = c
  /\ OneResponderPerSlot
  /\ AnswersItsClient
  /\ KeepsOnlyFinished

(* A descriptor table is a function from descriptors to connections.       *)
LEMMA TableFacts ==
  /\ NoTable \in Tables /\ DOMAIN NoTable = {}
  /\ \A t \in Tables : /\ DOMAIN t \subseteq Fds
                       /\ \A f \in DOMAIN t : t[f] \in Conns
                       /\ \A f : Without(t, f) \in Tables
  /\ \A t \in Tables, f \in Fds, c \in Conns :
       [g \in DOMAIN t \cup {f} |-> IF g = f THEN c ELSE t[g]] \in Tables
<1>1. NoTable \in Tables /\ DOMAIN NoTable = {}
  <2>1. NoTable \in [{} -> Conns]
    BY DEF NoTable
  <2> QED BY <2>1 DEF Tables, NoTable
<1>2. ASSUME NEW t \in Tables
      PROVE  \E D \in SUBSET Fds : t \in [D -> Conns]
  BY DEF Tables
<1>3. ASSUME NEW D \in SUBSET Fds, NEW t, t \in [D -> Conns]
      PROVE  t \in Tables
  BY <1>3 DEF Tables
<1>4. ASSUME NEW t \in Tables
      PROVE  DOMAIN t \subseteq Fds /\ \A f \in DOMAIN t : t[f] \in Conns
  BY <1>2
<1>5. ASSUME NEW t \in Tables, NEW f
      PROVE  Without(t, f) \in Tables
  <2>1. DOMAIN t \ {f} \in SUBSET Fds
    BY <1>4
  <2>2. Without(t, f) \in [DOMAIN t \ {f} -> Conns]
    BY <1>4 DEF Without
  <2> QED BY <1>3, <2>1, <2>2
<1>6. ASSUME NEW t \in Tables, NEW f \in Fds, NEW c \in Conns
      PROVE  [g \in DOMAIN t \cup {f} |-> IF g = f THEN c ELSE t[g]] \in Tables
  <2>1. DOMAIN t \cup {f} \in SUBSET Fds
    BY <1>4
  <2>2. [g \in DOMAIN t \cup {f} |-> IF g = f THEN c ELSE t[g]]
          \in [DOMAIN t \cup {f} -> Conns]
    BY <1>4
  <2> QED BY <1>3, <2>1, <2>2
<1> QED BY <1>1, <1>4, <1>5, <1>6

(* What the assumption on the constants says of slots and descriptors.     *)
LEMMA SlotFacts ==
  /\ 0 \in Slots
  /\ \A s \in Slots : (s + 1) % MaxConnections \in Slots
  /\ Free \notin Fds
  /\ RequestKinds = {"whole", "gone", "noLength", "cutShort", "exits", "hangs"}
  /\ Requests \subseteq RequestKinds
BY HttpServerAssumption DEF Slots, Free, Fds, RequestKinds

Responders ==
  [pc : ResponderSteps, slot : Slots, fds : Tables, req : RequestKinds,
   out : Conns \cup {NoConn}, answered : BOOLEAN]

(* A connection nobody serves yet is one of the responders' states.        *)
LEMMA NoResponderType == NoResponder \in Responders
BY TableFacts, SlotFacts DEF NoResponder, Responders, ResponderSteps

(* The server starts with all slots free.                                  *)
THEOREM SlotInit == Init => SlotInv
<1> SUFFICES ASSUME Init PROVE SlotInv
  OBVIOUS
<1>1. TypeOK
  <2>1. clients \in [Slots -> Fds \cup {Free}] /\ slot \in Slots /\ pc \in ServerSteps
    BY SlotFacts DEF Init, ServerSteps
  <2>2. open \in Tables
    BY TableFacts DEF Init
  <2>3. resp \in [Conns -> Responders]
    BY NoResponderType DEF Init
  <2> QED BY <2>1, <2>2, <2>3 DEF TypeOK, Responders
<1>2. \A c \in Conns : resp[c].pc = "none" /\ resp[c].answered = FALSE
  BY DEF Init, NoResponder
<1>3. pc = "accept" /\ clients[slot] = Free /\ DOMAIN open = {}
  BY SlotFacts, TableFacts DEF Init
<1> QED
  BY <1>1, <1>2, <1>3 DEF SlotInv, Running, Active, OneResponderPerSlot,
     AnswersItsClient, KeepsOnlyFinished

(* A responder that goes on in its slot, or ends, disturbs nothing.        *)
LEMMA ResponderGoesOn ==
  ASSUME SlotInv, NEW c \in Conns, NEW r \in Responders,
         Running(c),
         resp' = [resp EXCEPT ![c] = r],
         UNCHANGED <<clients, slot, pc, open>>,
         r.slot = resp[c].slot,
         r.pc /= "none",
         r.pc \in {"recv", "body", "dup"} =>
           resp[c].pc \in {"recv", "body", "dup"} /\ r.fds = resp[c].fds,
         r.pc = "route" \/ r.answered => r.out = c
  PROVE  SlotInv'
<1>1. TypeOK /\ resp \in [Conns -> Responders]
  BY DEF SlotInv, TypeOK, Responders
<1>2. TypeOK'
  BY <1>1 DEF TypeOK, Responders
<1>3. resp'[c] = r /\ \A d \in Conns : d /= c => resp'[d] = resp[d]
  BY <1>1
<1>4. \A d \in Conns : Running(d)' => Running(d) /\ resp'[d].slot = resp[d].slot
  BY <1>3 DEF Running
<1>5. resp[c].pc \notin {"none", "exited"}
  BY DEF Running, Active
<1>6. (pc = "accept" => clients[slot] = Free)'
  BY DEF SlotInv
<1>7. (pc = "fork" => /\ clients[slot] \in DOMAIN open
                      /\ resp[open[clients[slot]]].pc = "none"
                      /\ \A d \in Conns : Running(d) => resp[d].slot /= slot)'
  <2> SUFFICES ASSUME pc = "fork"
               PROVE  /\ clients[slot] \in DOMAIN open
                      /\ resp'[open[clients[slot]]].pc = "none"
                      /\ \A d \in Conns : Running(d)' => resp'[d].slot /= slot
    BY DEF Running
  <2>1. /\ clients[slot] \in DOMAIN open
        /\ resp[open[clients[slot]]].pc = "none"
        /\ \A d \in Conns : Running(d) => resp[d].slot /= slot
    BY DEF SlotInv
  <2>2. open[clients[slot]] \in Conns
    BY <1>1, <2>1, TableFacts DEF TypeOK
  <2> QED BY <2>1, <2>2, <1>3, <1>4, <1>5
<1>8. (\A d \in Conns : Running(d) => Fd(d) /= Free)'
  <2>1. \A d \in Conns : Running(d) => clients[resp[d].slot] /= Free
    BY DEF SlotInv, Fd
  <2>2. \A d \in Conns : Running(d)' => clients[resp'[d].slot] /= Free
    BY <2>1, <1>4
  <2> QED BY <2>2 DEF Fd
<1>9. (\A d \in Conns : resp[d].pc \in {"recv", "body", "dup"} =>
         Fd(d) \in DOMAIN resp[d].fds /\ resp[d].fds[Fd(d)] = d)'
  <2>1. \A d \in Conns : resp[d].pc \in {"recv", "body", "dup"} =>
          /\ clients[resp[d].slot] \in DOMAIN resp[d].fds
          /\ resp[d].fds[clients[resp[d].slot]] = d
    BY DEF SlotInv, Fd
  <2>2. \A d \in Conns : resp'[d].pc \in {"recv", "body", "dup"} =>
          /\ resp[d].pc \in {"recv", "body", "dup"}
          /\ resp'[d].fds = resp[d].fds
          /\ resp'[d].slot = resp[d].slot
    BY <1>3
  <2>3. \A d \in Conns : resp'[d].pc \in {"recv", "body", "dup"} =>
          /\ clients[resp'[d].slot] \in DOMAIN resp'[d].fds
          /\ resp'[d].fds[clients[resp'[d].slot]] = d
    BY <2>1, <2>2
  <2> QED BY <2>3 DEF Fd
<1>10. OneResponderPerSlot'
  <2>1. \A d, e \in Conns :
          Running(d) /\ Running(e) /\ resp[d].slot = resp[e].slot => d = e
    BY DEF SlotInv, OneResponderPerSlot
  <2>2. \A d, e \in Conns :
          Running(d)' /\ Running(e)' /\ resp'[d].slot = resp'[e].slot => d = e
    BY <2>1, <1>4
  <2> QED BY <2>2 DEF OneResponderPerSlot
<1>11. AnswersItsClient'
  BY <1>3 DEF SlotInv, AnswersItsClient
<1>12. KeepsOnlyFinished'
  <2> SUFFICES ASSUME NEW f \in DOMAIN open
               PROVE  \/ resp'[open[f]].pc = "exited"
                      \/ pc \in {"fork", "close"} /\ clients[slot] = f
    BY DEF KeepsOnlyFinished
  <2>1. open[f] \in Conns
    BY <1>1, TableFacts DEF TypeOK
  <2>2. \/ resp[open[f]].pc = "exited"
        \/ pc \in {"fork", "close"} /\ clients[slot] = f
    BY DEF SlotInv, KeepsOnlyFinished
  <2> QED BY <2>1, <2>2, <1>3, <1>5
<1>13. (pc = "close" => \A d \in Conns : Running(d) /\ resp[d].slot = slot =>
                         clients[slot] \in DOMAIN open /\ open[clients[slot]] = d)'
  <2>1. pc = "close" => \A d \in Conns : Running(d) /\ resp[d].slot = slot =>
                          clients[slot] \in DOMAIN open /\ open[clients[slot]] = d
    BY DEF SlotInv
  <2>2. pc = "close" => \A d \in Conns : Running(d)' /\ resp'[d].slot = slot =>
                          clients[slot] \in DOMAIN open /\ open[clients[slot]] = d
    BY <2>1, <1>4
  <2> QED BY <2>2
<1> QED
  BY <1>2, <1>6, <1>7, <1>8, <1>9, <1>10, <1>11, <1>12, <1>13 DEF SlotInv

(* Each step of a responder, up to the one that gives its slot back.       *)
LEMMA ResponderStep ==
  ASSUME SlotInv, NEW c \in Conns,
         Recv(c) \/ Body(c) \/ Dup(c) \/ Route(c) \/ CloseOwn(c)
  PROVE  SlotInv'
<1>1. /\ resp \in [Conns -> Responders]
      /\ resp[c] \in Responders
      /\ resp[c].slot \in Slots /\ resp[c].fds \in Tables
      /\ resp[c].out \in Conns \cup {NoConn}
  BY DEF SlotInv, TypeOK, Responders
<1>2. resp[c].pc = "route" \/ resp[c].answered => resp[c].out = c
  BY DEF SlotInv, AnswersItsClient
<1>3. CASE Recv(c)
  <2>1. PICK q \in Requests :
          resp' = [resp EXCEPT ![c].req = q,
                               ![c].pc = CASE q = "gone"     -> "close"
                                           [] q = "noLength" -> "lost"
                                           [] OTHER          -> "body"]
    BY <1>3 DEF Recv
  <2> DEFINE step == CASE q = "gone"     -> "close"
                       [] q = "noLength" -> "lost"
                       [] OTHER          -> "body"
             r    == [resp[c] EXCEPT !.req = q, !.pc = step]
  <2>2. step \in {"close", "lost", "body"}
    OBVIOUS
  <2>3. resp' = [resp EXCEPT ![c] = r]
    BY <2>1, <1>1 DEF Responders
  <2> HIDE DEF step
  <2>4. r \in Responders
    BY <2>2, <1>1, SlotFacts DEF Responders, ResponderSteps, Active
  <2>5. /\ r.slot = resp[c].slot /\ r.fds = resp[c].fds /\ r.pc = step
        /\ r.answered = resp[c].answered /\ r.out = resp[c].out
    BY <1>1 DEF Responders
  <2>6. Running(c) /\ resp[c].pc = "recv" /\ UNCHANGED <<clients, slot, pc, open>>
    BY <1>3 DEF Recv, Running, Active
  <2> HIDE DEF r
  <2> QED BY <2>2, <2>3, <2>4, <2>5, <2>6, <1>2, ResponderGoesOn
<1>4. CASE Body(c)
  <2> DEFINE step == IF resp[c].req = "cutShort" THEN "stuck" ELSE "dup"
             r    == [resp[c] EXCEPT !.pc = step]
  <2>2. step \in {"stuck", "dup"}
    OBVIOUS
  <2>3. resp' = [resp EXCEPT ![c] = r]
    BY <1>4, <1>1 DEF Body, Goto, Responders
  <2> HIDE DEF step
  <2>4. r \in Responders
    BY <2>2, <1>1 DEF Responders, ResponderSteps, Active
  <2>5. /\ r.slot = resp[c].slot /\ r.fds = resp[c].fds /\ r.pc = step
        /\ r.answered = resp[c].answered /\ r.out = resp[c].out
    BY <1>1 DEF Responders
  <2>6. Running(c) /\ resp[c].pc = "body" /\ UNCHANGED <<clients, slot, pc, open>>
    BY <1>4 DEF Body, Running, Active
  <2> HIDE DEF r
  <2> QED BY <2>2, <2>3, <2>4, <2>5, <2>6, <1>2, ResponderGoesOn
<1>5. CASE Dup(c)
  <2>1. Fd(c) \in DOMAIN resp[c].fds /\ resp[c].fds[Fd(c)] = c
    BY <1>5 DEF SlotInv, Dup
  <2> DEFINE r == [resp[c] EXCEPT !.pc = "route", !.out = c,
                                  !.fds = Without(resp[c].fds, Fd(c))]
  <2>2. Without(resp[c].fds, Fd(c)) \in Tables
    BY <1>1, TableFacts
  <2>3. resp' = [resp EXCEPT ![c] = r]
    BY <1>5, <2>1, <1>1 DEF Dup, Responders
  <2>4. r \in Responders
    BY <2>2, <1>1 DEF Responders, ResponderSteps, Active
  <2>5. r.slot = resp[c].slot /\ r.pc = "route" /\ r.out = c
    BY <1>1 DEF Responders
  <2>6. Running(c) /\ UNCHANGED <<clients, slot, pc, open>>
    BY <1>5 DEF Dup, Running, Active
  <2> HIDE DEF r
  <2> QED BY <2>3, <2>4, <2>5, <2>6, ResponderGoesOn
<1>6. CASE Route(c)
  <2>1. resp[c].pc = "route" /\ resp[c].out = c
    BY <1>6, <1>2 DEF Route
  <2> DEFINE step == IF resp[c].req = "whole" THEN "close"
                     ELSE IF resp[c].req = "exits" THEN "lost" ELSE "stuck"
             done == resp[c].answered \/ resp[c].req = "whole"
             r    == [resp[c] EXCEPT !.pc = step, !.answered = done]
  <2>2. step \in {"close", "lost", "stuck"} /\ done \in BOOLEAN
    OBVIOUS
  <2>3. resp' = [resp EXCEPT ![c] = r]
    <3>1. resp[c].answered \in BOOLEAN
      BY <1>1 DEF Responders
    <3>2. CASE resp[c].req = "whole"
      <4>1. done = TRUE /\ step = "close"
        BY <3>2
      <4>2. resp' = [resp EXCEPT ![c].pc = "close", ![c].answered = TRUE]
        BY <1>6, <3>2 DEF Route
      <4> HIDE DEF step, done
      <4> QED BY <4>1, <4>2, <1>1 DEF Responders
    <3>3. CASE resp[c].req /= "whole"
      <4>1. done = resp[c].answered
        BY <3>1, <3>3
      <4>2. resp' = [resp EXCEPT ![c].pc = step]
        BY <1>6, <3>3 DEF Route, Goto
      <4> HIDE DEF step, done
      <4> QED BY <4>1, <4>2, <1>1 DEF Responders
    <3> QED BY <3>2, <3>3
  <2> HIDE DEF step, done
  <2>4. r \in Responders
    BY <2>2, <1>1 DEF Responders, ResponderSteps, Active
  <2>5. r.slot = resp[c].slot /\ r.pc = step /\ r.out = c
    BY <2>1, <1>1 DEF Responders
  <2>6. Running(c) /\ UNCHANGED <<clients, slot, pc, open>>
    BY <1>6 DEF Route, Goto, Running, Active
  <2> HIDE DEF r
  <2> QED BY <2>2, <2>3, <2>4, <2>5, <2>6, ResponderGoesOn
<1>7. CASE CloseOwn(c)
  <2> DEFINE r == [resp[c] EXCEPT !.pc = "clear",
                                  !.fds = Without(resp[c].fds, Fd(c))]
  <2>2. Without(resp[c].fds, Fd(c)) \in Tables
    BY <1>1, TableFacts
  <2>3. resp' = [resp EXCEPT ![c] = r]
    BY <1>7, <1>1 DEF CloseOwn, Responders
  <2>4. r \in Responders
    BY <2>2, <1>1 DEF Responders, ResponderSteps, Active
  <2>5. /\ r.slot = resp[c].slot /\ r.pc = "clear"
        /\ r.answered = resp[c].answered /\ r.out = resp[c].out
    BY <1>1 DEF Responders
  <2>6. Running(c) /\ UNCHANGED <<clients, slot, pc, open>>
    BY <1>7 DEF CloseOwn, Running, Active
  <2> HIDE DEF r
  <2> QED BY <2>3, <2>4, <2>5, <2>6, <1>2, ResponderGoesOn
<1> QED BY <1>3, <1>4, <1>5, <1>6, <1>7

(* A responder gives back a slot that only it has.                         *)
LEMMA ClearStep ==
  ASSUME SlotInv, NEW c \in Conns, Clear(c)
  PROVE  SlotInv'
<1> DEFINE r == [resp[c] EXCEPT !.pc = "exited"]
<1>1. /\ TypeOK /\ resp \in [Conns -> Responders] /\ resp[c] \in Responders
      /\ resp[c].slot \in Slots
  BY DEF SlotInv, TypeOK, Responders
<1>2. resp[c].pc = "clear" /\ Running(c)
  BY DEF Clear, Running, Active
<1>3. /\ resp' = [resp EXCEPT ![c] = r]
      /\ clients' = [clients EXCEPT ![resp[c].slot] = Free]
      /\ UNCHANGED <<slot, pc, open>>
  BY <1>1 DEF Clear, Goto, Responders, Free
<1>4. r \in Responders
  BY <1>1 DEF Responders, ResponderSteps
<1>5. r.pc = "exited" /\ r.answered = resp[c].answered /\ r.out = resp[c].out
  BY <1>1 DEF Responders
<1> HIDE DEF r
<1>6. TypeOK'
  <2>1. clients' \in [Slots -> Fds \cup {Free}]
    BY <1>1, <1>3 DEF TypeOK
  <2>2. resp' \in [Conns -> Responders]
    BY <1>1, <1>3, <1>4
  <2> QED BY <2>1, <2>2, <1>1, <1>3 DEF TypeOK, Responders
<1>7. resp'[c] = r /\ \A d \in Conns : d /= c => resp'[d] = resp[d]
  BY <1>1, <1>3
<1>8. \A d \in Conns : Running(d)' => d /= c /\ Running(d) /\ resp'[d] = resp[d]
  BY <1>5, <1>7 DEF Running, Active
<1>9. \A s \in Slots : s /= resp[c].slot => clients'[s] = clients[s]
  BY <1>1, <1>3 DEF TypeOK
<1>10. clients'[resp[c].slot] = Free
  BY <1>1, <1>3 DEF TypeOK
<1>11. \A d \in Conns : Running(d) /\ d /= c =>
         resp[d].slot /= resp[c].slot /\ clients'[resp[d].slot] = clients[resp[d].slot]
  <2>1. \A d \in Conns : Running(d) /\ d /= c => resp[d].slot /= resp[c].slot
    BY <1>2 DEF SlotInv, OneResponderPerSlot
  <2>2. \A d \in Conns : resp[d].slot \in Slots
    BY <1>1 DEF Responders
  <2> QED BY <2>1, <2>2, <1>9
<1>12. (pc = "accept" => clients[slot] = Free)'
  <2> SUFFICES ASSUME pc = "accept" PROVE clients'[slot] = Free
    BY <1>3
  <2>1. clients[slot] = Free /\ slot \in Slots
    BY <1>1 DEF SlotInv, TypeOK
  <2> QED BY <2>1, <1>9, <1>10
<1>13. (pc = "fork" => /\ clients[slot] \in DOMAIN open
                       /\ resp[open[clients[slot]]].pc = "none"
                       /\ \A d \in Conns : Running(d) => resp[d].slot /= slot)'
  <2> SUFFICES ASSUME pc = "fork"
               PROVE  /\ clients'[slot] \in DOMAIN open
                      /\ resp'[open[clients'[slot]]].pc = "none"
                      /\ \A d \in Conns : Running(d)' => resp'[d].slot /= slot
    BY <1>3 DEF Running
  <2>1. /\ clients[slot] \in DOMAIN open
        /\ resp[open[clients[slot]]].pc = "none"
        /\ \A d \in Conns : Running(d) => resp[d].slot /= slot
    BY DEF SlotInv
  <2>2. slot \in Slots /\ slot /= resp[c].slot
    BY <1>1, <1>2, <2>1 DEF TypeOK
  <2>3. clients'[slot] = clients[slot]
    BY <2>2, <1>9
  <2>4. open[clients[slot]] \in Conns
    BY <1>1, <2>1, TableFacts DEF TypeOK
  <2> QED BY <2>1, <2>3, <2>4, <1>2, <1>7, <1>8
<1>14. (\A d \in Conns : Running(d) => Fd(d) /= Free)'
  <2>1. \A d \in Conns : Running(d) => clients[resp[d].slot] /= Free
    BY DEF SlotInv, Fd
  <2>2. \A d \in Conns : Running(d)' => clients'[resp'[d].slot] /= Free
    BY <2>1, <1>8, <1>11
  <2> QED BY <2>2 DEF Fd
<1>15. (\A d \in Conns : resp[d].pc \in {"recv", "body", "dup"} =>
          Fd(d) \in DOMAIN resp[d].fds /\ resp[d].fds[Fd(d)] = d)'
  <2>1. \A d \in Conns : resp[d].pc \in {"recv", "body", "dup"} =>
          /\ clients[resp[d].slot] \in DOMAIN resp[d].fds
          /\ resp[d].fds[clients[resp[d].slot]] = d
    BY DEF SlotInv, Fd
  <2>2. \A d \in Conns : resp'[d].pc \in {"recv", "body", "dup"} => Running(d)'
    BY DEF Running, Active
  <2>3. \A d \in Conns : resp'[d].pc \in {"recv", "body", "dup"} =>
          /\ clients'[resp'[d].slot] \in DOMAIN resp'[d].fds
          /\ resp'[d].fds[clients'[resp'[d].slot]] = d
    BY <2>1, <2>2, <1>8, <1>11
  <2> QED BY <2>3 DEF Fd
<1>16. OneResponderPerSlot'
  <2>1. \A d, e \in Conns :
          Running(d) /\ Running(e) /\ resp[d].slot = resp[e].slot => d = e
    BY DEF SlotInv, OneResponderPerSlot
  <2>2. \A d, e \in Conns :
          Running(d)' /\ Running(e)' /\ resp'[d].slot = resp'[e].slot => d = e
    BY <2>1, <1>8
  <2> QED BY <2>2 DEF OneResponderPerSlot
<1>17. AnswersItsClient'
  BY <1>5, <1>7 DEF SlotInv, AnswersItsClient
<1>18. KeepsOnlyFinished'
  <2> SUFFICES ASSUME NEW f \in DOMAIN open
               PROVE  \/ resp'[open[f]].pc = "exited"
                      \/ pc \in {"fork", "close"} /\ clients'[slot] = f
    BY <1>3 DEF KeepsOnlyFinished
  <2>1. open[f] \in Conns
    BY <1>1, TableFacts DEF TypeOK
  <2>2. CASE resp[open[f]].pc = "exited"
    BY <2>1, <2>2, <1>5, <1>7
  <2>3. CASE resp[open[f]].pc /= "exited"
    <3>1. pc \in {"fork", "close"} /\ clients[slot] = f
      BY <2>3 DEF SlotInv, KeepsOnlyFinished
    <3>2. CASE slot = resp[c].slot
      <4>1. pc = "close"
        BY <3>1, <3>2, <1>2 DEF SlotInv
      <4>2. open[f] = c
        BY <3>1, <3>2, <4>1, <1>2 DEF SlotInv
      <4> QED BY <4>2, <1>5, <1>7
    <3>3. CASE slot /= resp[c].slot
      <4>1. clients'[slot] = clients[slot]
        BY <3>3, <1>1, <1>9 DEF TypeOK
      <4> QED BY <3>1, <4>1
    <3> QED BY <3>2, <3>3
  <2> QED BY <2>2, <2>3
<1>19. (pc = "close" => \A d \in Conns : Running(d) /\ resp[d].slot = slot =>
                         clients[slot] \in DOMAIN open /\ open[clients[slot]] = d)'
  <2>1. pc = "close" => \A d \in Conns : Running(d) /\ resp[d].slot = slot =>
                          clients[slot] \in DOMAIN open /\ open[clients[slot]] = d
    BY DEF SlotInv
  <2>2. pc = "close" => \A d \in Conns : Running(d)' /\ resp'[d].slot = slot =>
                          clients'[slot] \in DOMAIN open /\ open[clients'[slot]] = d
    BY <2>1, <1>8, <1>11
  <2> QED BY <2>2, <1>3
<1> QED
  BY <1>6, <1>12, <1>13, <1>14, <1>15, <1>16, <1>17, <1>18, <1>19 DEF SlotInv

(* accept: the connection goes into a slot that is free.                   *)
LEMMA AcceptStep ==
  ASSUME SlotInv, NEW c \in Conns, Accept(c)
  PROVE  SlotInv'
<1>1. /\ TypeOK /\ resp \in [Conns -> Responders] /\ slot \in Slots
      /\ pc = "accept" /\ clients[slot] = Free /\ resp[c].pc = "none"
  BY DEF SlotInv, TypeOK, Responders, Accept
<1>2. PICK f \in Fds :
        /\ LowestFree(f)
        /\ open' = [g \in DOMAIN open \cup {f} |-> IF g = f THEN c ELSE open[g]]
        /\ clients' = [clients EXCEPT ![slot] = f]
  BY DEF Accept
<1>3. pc' = "fork" /\ slot' = slot /\ resp' = resp
  BY DEF Accept
<1>4. /\ open' \in Tables
      /\ DOMAIN open' = DOMAIN open \cup {f}
      /\ open'[f] = c
      /\ \A g \in DOMAIN open : g /= f => open'[g] = open[g]
      /\ f \notin DOMAIN open
  <2>1. open \in Tables
    BY <1>1 DEF TypeOK
  <2>2. open' \in Tables
    BY <1>2, <2>1, TableFacts
  <2>3. f \notin DOMAIN open
    BY <1>2 DEF LowestFree
  <2> QED BY <1>2, <2>2, <2>3
<1>5. /\ clients' \in [Slots -> Fds \cup {Free}]
      /\ clients'[slot] = f
      /\ \A s \in Slots : s /= slot => clients'[s] = clients[s]
  BY <1>1, <1>2 DEF TypeOK
<1>6. TypeOK'
  BY <1>1, <1>3, <1>4, <1>5 DEF TypeOK, ServerSteps
<1>7. \A d \in Conns : Running(d)' = Running(d) /\ resp[d].slot \in Slots
  BY <1>1, <1>3 DEF Running, Responders
<1>8. \A d \in Conns : Running(d) =>
        resp[d].slot /= slot /\ clients'[resp[d].slot] = clients[resp[d].slot]
  <2>1. \A d \in Conns : Running(d) => clients[resp[d].slot] /= Free
    BY DEF SlotInv, Fd
  <2> QED BY <2>1, <1>1, <1>5, <1>7
<1>9. (pc = "fork" => /\ clients[slot] \in DOMAIN open
                      /\ resp[open[clients[slot]]].pc = "none"
                      /\ \A d \in Conns : Running(d) => resp[d].slot /= slot)'
  <2>1. clients'[slot'] \in DOMAIN open' /\ resp'[open'[clients'[slot']]].pc = "none"
    BY <1>1, <1>3, <1>4, <1>5
  <2>2. \A d \in Conns : Running(d)' => resp'[d].slot /= slot'
    BY <1>3, <1>7, <1>8
  <2> QED BY <2>1, <2>2
<1>10. (\A d \in Conns : Running(d) => Fd(d) /= Free)'
  <2>1. \A d \in Conns : Running(d) => clients[resp[d].slot] /= Free
    BY DEF SlotInv, Fd
  <2>2. \A d \in Conns : Running(d)' => clients'[resp'[d].slot] /= Free
    BY <2>1, <1>3, <1>7, <1>8
  <2> QED BY <2>2 DEF Fd
<1>11. (\A d \in Conns : resp[d].pc \in {"recv", "body", "dup"} =>
          Fd(d) \in DOMAIN resp[d].fds /\ resp[d].fds[Fd(d)] = d)'
  <2>1. \A d \in Conns : resp[d].pc \in {"recv", "body", "dup"} =>
          /\ clients[resp[d].slot] \in DOMAIN resp[d].fds
          /\ resp[d].fds[clients[resp[d].slot]] = d
    BY DEF SlotInv, Fd
  <2>2. \A d \in Conns : resp[d].pc \in {"recv", "body", "dup"} => Running(d)
    BY DEF Running, Active
  <2>3. \A d \in Conns : resp'[d].pc \in {"recv", "body", "dup"} =>
          /\ clients'[resp'[d].slot] \in DOMAIN resp'[d].fds
          /\ resp'[d].fds[clients'[resp'[d].slot]] = d
    BY <2>1, <2>2, <1>3, <1>8
  <2> QED BY <2>3 DEF Fd
<1>12. OneResponderPerSlot' /\ AnswersItsClient'
  BY <1>3, <1>7 DEF SlotInv, OneResponderPerSlot, AnswersItsClient
<1>13. KeepsOnlyFinished'
  <2> SUFFICES ASSUME NEW g \in DOMAIN open'
               PROVE  resp[open'[g]].pc = "exited" \/ f = g
    BY <1>3, <1>5 DEF KeepsOnlyFinished
  <2>1. \A h \in DOMAIN open : resp[open[h]].pc = "exited"
    BY <1>1 DEF SlotInv, KeepsOnlyFinished
  <2> QED BY <2>1, <1>4
<1>14. /\ (pc = "accept" => clients[slot] = Free)'
       /\ (pc = "close" => \A d \in Conns : Running(d) /\ resp[d].slot = slot =>
             clients[slot] \in DOMAIN open /\ open[clients[slot]] = d)'
  BY <1>3
<1> QED
  BY <1>6, <1>9, <1>10, <1>11, <1>12, <1>13, <1>14 DEF SlotInv

(* fork starts a responder in the slot that was just taken, or fails.      *)
LEMMA ForkStep ==
  ASSUME SlotInv, Fork \/ ForkFails
  PROVE  SlotInv'
<1> DEFINE c == open[clients[slot]]
<1>1. /\ TypeOK /\ resp \in [Conns -> Responders] /\ slot \in Slots
      /\ open \in Tables /\ pc = "fork"
      /\ clients[slot] \in DOMAIN open /\ resp[c].pc = "none"
      /\ \A d \in Conns : Running(d) => resp[d].slot /= slot
  BY DEF SlotInv, TypeOK, Responders, Fork, ForkFails
<1>2. c \in Conns /\ clients[slot] \in Fds /\ clients[slot] /= Free
  BY <1>1, TableFacts, SlotFacts
<1>3. PICK r \in Responders :
        /\ resp' = [resp EXCEPT ![c] = r]
        /\ r.slot = slot /\ r.fds \in {open, NoTable} /\ r.answered = FALSE
        /\ (r.pc = "recv" /\ r.fds = open) \/ r.pc = "refused"
  <2>1. CASE Fork
    <3> DEFINE q == [NoResponder EXCEPT !.pc = "recv", !.slot = slot, !.fds = open]
    <3>1. q \in Responders
      BY <1>1, NoResponderType DEF Responders, ResponderSteps, Active
    <3>2. q.slot = slot /\ q.fds = open /\ q.answered = FALSE /\ q.pc = "recv"
      BY DEF NoResponder
    <3> QED BY <2>1, <3>1, <3>2 DEF Fork
  <2>2. CASE ForkFails
    <3> DEFINE q == [NoResponder EXCEPT !.pc = "refused", !.slot = slot]
    <3>1. q \in Responders
      BY <1>1, NoResponderType DEF Responders, ResponderSteps
    <3>2. q.slot = slot /\ q.fds = NoTable /\ q.answered = FALSE /\ q.pc = "refused"
      BY DEF NoResponder
    <3> QED BY <2>2, <3>1, <3>2 DEF ForkFails
  <2> QED BY <2>1, <2>2
<1>4. pc' = "close" /\ clients' = clients /\ slot' = slot /\ open' = open
  BY DEF Fork, ForkFails
<1> HIDE DEF c
<1>5. resp'[c] = r /\ \A d \in Conns : d /= c => resp'[d] = resp[d]
  BY <1>1, <1>2, <1>3
<1>6. TypeOK'
  BY <1>1, <1>3, <1>4 DEF TypeOK, Responders, ServerSteps
<1>7. \A d \in Conns : Running(d)' /\ d /= c =>
        Running(d) /\ resp'[d].slot = resp[d].slot /\ resp[d].slot /= slot
  BY <1>1, <1>5 DEF Running
<1>8. (pc = "close" => \A d \in Conns : Running(d) /\ resp[d].slot = slot =>
                         clients[slot] \in DOMAIN open /\ open[clients[slot]] = d)'
  <2>1. \A d \in Conns : Running(d)' /\ resp'[d].slot = slot => d = c
    BY <1>7
  <2> QED BY <2>1, <1>1, <1>4 DEF c
<1>9. (\A d \in Conns : Running(d) => Fd(d) /= Free)'
  <2>1. \A d \in Conns : Running(d) => clients[resp[d].slot] /= Free
    BY DEF SlotInv, Fd
  <2>2. \A d \in Conns : Running(d)' => clients[resp'[d].slot] /= Free
    BY <2>1, <1>2, <1>3, <1>5, <1>7
  <2> QED BY <2>2, <1>4 DEF Fd
<1>10. (\A d \in Conns : resp[d].pc \in {"recv", "body", "dup"} =>
          Fd(d) \in DOMAIN resp[d].fds /\ resp[d].fds[Fd(d)] = d)'
  <2>1. \A d \in Conns : resp[d].pc \in {"recv", "body", "dup"} =>
          /\ clients[resp[d].slot] \in DOMAIN resp[d].fds
          /\ resp[d].fds[clients[resp[d].slot]] = d
    BY DEF SlotInv, Fd
  <2>2. r.pc \in {"recv", "body", "dup"} =>
          clients[r.slot] \in DOMAIN r.fds /\ r.fds[clients[r.slot]] = c
    BY <1>1, <1>3 DEF c
  <2>3. \A d \in Conns : resp'[d].pc \in {"recv", "body", "dup"} =>
          /\ clients[resp'[d].slot] \in DOMAIN resp'[d].fds
          /\ resp'[d].fds[clients[resp'[d].slot]] = d
    BY <2>1, <2>2, <1>5
  <2> QED BY <2>3, <1>4 DEF Fd
<1>11. OneResponderPerSlot'
  <2>1. \A d, e \in Conns :
          Running(d) /\ Running(e) /\ resp[d].slot = resp[e].slot => d = e
    BY DEF SlotInv, OneResponderPerSlot
  <2>2. \A d, e \in Conns :
          Running(d)' /\ Running(e)' /\ resp'[d].slot = resp'[e].slot => d = e
    BY <2>1, <1>3, <1>5, <1>7
  <2> QED BY <2>2 DEF OneResponderPerSlot
<1>12. AnswersItsClient'
  BY <1>3, <1>5 DEF SlotInv, AnswersItsClient
<1>13. KeepsOnlyFinished'
  <2> SUFFICES ASSUME NEW f \in DOMAIN open, clients[slot] /= f
               PROVE  resp'[open[f]].pc = "exited"
    BY <1>4 DEF KeepsOnlyFinished
  <2>1. resp[open[f]].pc = "exited" /\ open[f] \in Conns
    BY <1>1, TableFacts DEF SlotInv, KeepsOnlyFinished
  <2>2. open[f] /= c
    BY <2>1, <1>1
  <2> QED BY <2>1, <2>2, <1>5
<1> QED
  BY <1>4, <1>6, <1>8, <1>9, <1>10, <1>11, <1>12, <1>13 DEF SlotInv

(* The steps of the server that start nothing: a close, a look at a slot,  *)
(* or the end on a failed accept.                                          *)
LEMMA ServerStep ==
  ASSUME SlotInv, CloseConn \/ Scan \/ AcceptFails
  PROVE  SlotInv'
<1>1. /\ TypeOK /\ open \in Tables /\ slot \in Slots /\ resp' = resp
      /\ clients \in [Slots -> Fds \cup {Free}]
      /\ \A d \in Conns : resp[d].slot \in Slots
  BY DEF SlotInv, TypeOK, CloseConn, Scan, AcceptFails
<1>2. clients' = clients
  <2>1. CASE CloseConn \/ Scan
    BY <2>1 DEF CloseConn, Scan
  <2>2. CASE AcceptFails
    BY <2>2, <1>1 DEF SlotInv, AcceptFails, Free
  <2> QED BY <2>1, <2>2
<1>3. /\ slot' \in Slots /\ pc' \in ServerSteps /\ pc' \notin {"fork", "close"}
      /\ open' \in Tables
      /\ \A f \in DOMAIN open' : f \in DOMAIN open /\ open'[f] = open[f]
      /\ (pc = "close" => clients[slot] \notin DOMAIN open')
      /\ (pc' = "accept" => clients[slot'] = Free)
  <2>1. CASE CloseConn
    <3>1. open' = Without(open, clients[slot]) /\ pc' = "scan" /\ slot' = slot
      BY <2>1 DEF CloseConn
    <3>2. /\ open' \in Tables
          /\ \A f \in DOMAIN open' : f \in DOMAIN open /\ open'[f] = open[f]
          /\ clients[slot] \notin DOMAIN open'
      BY <3>1, <1>1, TableFacts DEF Without
    <3> QED BY <3>1, <3>2, <1>1 DEF ServerSteps
  <2>2. CASE Scan
    <3>1. open' = open /\ pc = "scan"
      BY <2>2 DEF Scan
    <3>2. CASE clients[slot] /= -1
      BY <2>2, <3>1, <3>2, <1>1, SlotFacts DEF Scan, ServerSteps
    <3>3. CASE clients[slot] = -1
      BY <2>2, <3>1, <3>3, <1>1 DEF Scan, ServerSteps, Free
    <3> QED BY <3>2, <3>3
  <2>3. CASE AcceptFails
    <3>1. open' = NoTable /\ pc' = "exited" /\ slot' = slot /\ pc = "accept"
      BY <2>3 DEF AcceptFails
    <3> QED BY <3>1, <1>1, TableFacts DEF ServerSteps
  <2> QED BY <2>1, <2>2, <2>3
<1>4. TypeOK'
  BY <1>1, <1>2, <1>3 DEF TypeOK
<1>5. OneResponderPerSlot' /\ AnswersItsClient'
  BY <1>1 DEF SlotInv, OneResponderPerSlot, AnswersItsClient, Running
<1>6. (\A d \in Conns : Running(d) => Fd(d) /= Free)'
  BY <1>1, <1>2 DEF SlotInv, Running, Fd
<1>7. (\A d \in Conns : resp[d].pc \in {"recv", "body", "dup"} =>
         Fd(d) \in DOMAIN resp[d].fds /\ resp[d].fds[Fd(d)] = d)'
  BY <1>1, <1>2 DEF SlotInv, Fd
<1>8. KeepsOnlyFinished'
  <2> SUFFICES ASSUME NEW f \in DOMAIN open'
               PROVE  resp[open'[f]].pc = "exited"
    BY <1>1 DEF KeepsOnlyFinished
  <2>1. f \in DOMAIN open /\ open'[f] = open[f]
    BY <1>3
  <2>2. pc /= "fork"
    BY DEF CloseConn, Scan, AcceptFails
  <2>3. ~(pc = "close" /\ clients[slot] = f)
    BY <1>3
  <2> QED BY <2>1, <2>2, <2>3 DEF SlotInv, KeepsOnlyFinished
<1> QED
  BY <1>2, <1>3, <1>4, <1>5, <1>6, <1>7, <1>8 DEF SlotInv

(* Every step of the server and of the responders preserves the invariant. *)
THEOREM SlotStep == SlotInv /\ [Next]_vars => SlotInv'
<1> SUFFICES ASSUME SlotInv, [Next]_vars PROVE SlotInv'
  OBVIOUS
<1>1. CASE UNCHANGED vars
  BY <1>1 DEF vars, SlotInv, TypeOK, Running, Fd, OneResponderPerSlot,
     AnswersItsClient, KeepsOnlyFinished
<1>2. CASE Server
  BY <1>2, AcceptStep, ForkStep, ServerStep DEF Server
<1>3. ASSUME NEW c \in Conns, Responder(c) PROVE SlotInv'
  BY <1>3, ResponderStep, ClearStep DEF Responder
<1> QED BY <1>1, <1>2, <1>3 DEF Next

(* The invariant holds in every reachable state.                           *)
THEOREM SlotInvariance == Spec => []SlotInv
BY SlotInit, SlotStep, PTL DEF Spec

(* Slots, tables and responders stay well typed.                           *)
THEOREM ServerTypes == Spec => []TypeOK
<1>1. SlotInv => TypeOK
  BY DEF SlotInv
<1> QED BY <1>1, SlotInvariance, PTL

(* Whatever the interleaving, no slot has two running responders.          *)
THEOREM SlotsAreExclusive == Spec => []OneResponderPerSlot
<1>1. SlotInv => OneResponderPerSlot
  BY DEF SlotInv
<1> QED BY <1>1, SlotInvariance, PTL

(* An answer goes to the connection whose request was read.                *)
THEOREM AnswersGoHome == Spec => []AnswersItsClient
<1>1. SlotInv => AnswersItsClient
  BY DEF SlotInv
<1> QED BY <1>1, SlotInvariance, PTL

(* What the server leaks are connections whose responder had finished.     *)
THEOREM LeaksAreFinished == Spec => []KeepsOnlyFinished
<1>1. SlotInv => KeepsOnlyFinished
  BY DEF SlotInv
<1> QED BY <1>1, SlotInvariance, PTL

==============================================================================
