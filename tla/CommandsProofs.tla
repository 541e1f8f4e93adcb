--------------------------- MODULE CommandsProofs ----------------------------
(***************************************************************************)
(* Proofs about the two commands that race for the revision of a run, for   *)
(* any number of commits.  Signal, for any reservations, senders and        *)
(* messages: a reservation accepts one signal, and every receipt is true.   *)
(* Reconcile, for any actors, commands, resolutions and crashes: a command  *)
(* is applied once, to the attempt it observed, and answered for good.      *)
(*                                                                          *)
(* The argument is one for both.  A call that is about to commit has seen a *)
(* run that admits what it does, and the revision that lets it commit says  *)
(* that the run has not changed since: for a signal that the reservation is *)
(* open and empty, for a resolution that the run is blocked on the attempt  *)
(* it names and that no entry of the audit has its identity.  A call whose  *)
(* caller is gone keeps its plan, and the same is said of it.  Everything   *)
(* else follows one commit at a time.                                       *)
(***************************************************************************)
EXTENDS Commands, Sequences, TLAPS

-----------------------------------------------------------------------------
(* Signals. *)
Deliveries == {NoDelivery} \cup [actor : Senders, message : Messages, at : Nat]
Waits == [state : {"Open", "Consumed", "Expired", "Closed"}, delivery : Deliveries,
          error : {"none", "failed", "wait.expired"}]
RunStates == {"Running", "Waiting", "Blocked", "Cancelling", "Succeeded", "Failed", "Cancelled"}
Runs == [state : RunStates,
         revision : Nat, cancel : BOOLEAN, waits : [Reservations -> Waits]]
Calls == {Idle} \cup [pc : {"read"}, wait : Reservations, message : Messages]
                \cup [pc : {"commit"}, wait : Reservations, message : Messages, seen : Nat]
Receipts == [wait : Reservations, message : Messages, actor : Senders, at : Nat,
             duplicate : BOOLEAN]

TypeInv ==
    /\ run \in Runs
    /\ call \in [Senders -> Calls]
    /\ receipts \subseteq Receipts
    /\ overdue \subseteq Reservations

(* What the run is to a call that may still commit. *)
SeenInv ==
    \A s \in Senders : call[s].pc = "commit" =>
        LET w == call[s].wait
        IN  /\ call[s].seen <= run.revision
            /\ call[s].seen = run.revision =>
                  /\ run.waits[w].state = "Open" /\ run.waits[w].delivery = NoDelivery
                  /\ ~run.cancel /\ ~Terminal
            /\ Correlates(s)

(* The first half of ReceiptsAreTrue. *)
ReceiptInv ==
    \A r \in receipts :
       LET d == run.waits[r.wait].delivery
       IN  d # NoDelivery /\ d.actor = r.actor /\ d.message = r.message /\ d.at = r.at

(* A reservation and the run it is of. *)
WaitInv ==
    \A w \in Reservations :
        LET x == run.waits[w] IN
        /\ x.state = "Open" => x.error = "none"
        /\ x.delivery # NoDelivery => x.state # "Expired" /\ x.error # "wait.expired"
        /\ x.state = "Closed" => run.cancel \/ run.state = "Failed" \/ x.error # "none"
        /\ Terminal => x.state # "Open"

IInv == TypeInv /\ SeenInv /\ ReceiptInv /\ CorrelationHolds /\ WaitInv

-----------------------------------------------------------------------------
(* A delivery is not the absence of one. *)
LEMMA DeliveryIsOne ==
    ASSUME NEW s, NEW m, NEW n PROVE [actor |-> s, message |-> m, at |-> n] # NoDelivery
<1>1. "at" \in DOMAIN [actor |-> s, message |-> m, at |-> n]
  OBVIOUS
<1>2. "at" \notin DOMAIN NoDelivery
  BY DEF NoDelivery
<1> QED
  BY <1>1, <1>2

(* What the program counter of a call says of its fields. *)
LEMMA CallShape ==
    ASSUME TypeInv, NEW s \in Senders
    PROVE  /\ call[s].pc = "read" =>
                call[s] \in [pc : {"read"}, wait : Reservations, message : Messages]
           /\ call[s].pc = "commit" =>
                call[s] \in [pc : {"commit"}, wait : Reservations, message : Messages,
                             seen : Nat]
  BY DEF TypeInv, Calls, Idle

(* A commit outdates every call that has not committed. *)
LEMMA CommitOutdates ==
    ASSUME IInv, run'.revision = run.revision + 1,
           \A s \in Senders : call'[s].pc = "commit" => call'[s] = call[s]
    PROVE  SeenInv'
<1> SUFFICES ASSUME NEW s \in Senders, call'[s].pc = "commit"
             PROVE  call'[s].seen < run'.revision /\ Correlates(s)'
  BY CallShape DEF SeenInv, IInv, TypeInv, Runs
<1>1. call'[s] = call[s]
  OBVIOUS
<1>2. run.revision \in Nat /\ call[s].seen \in Nat
  BY <1>1, CallShape DEF IInv, TypeInv, Runs
<1> QED
  BY <1>1, <1>2 DEF IInv, SeenInv, Correlates

(* A call that comes to know the run as it is, or does not come to commit,  *)
(* keeps what is said of the others.                                        *)
LEMMA CallsKeepSeen ==
    ASSUME IInv, NEW s \in Senders, NEW c, run' = run, call' = [call EXCEPT ![s] = c],
           c.pc = "commit" =>
              /\ c.seen = run.revision /\ ~run.cancel /\ ~Terminal
              /\ run.waits[c.wait].state = "Open" /\ run.waits[c.wait].delivery = NoDelivery
              /\ c.message.correlation = Correlation[c.wait]
    PROVE  SeenInv'
<1>1. ASSUME NEW t \in Senders, t # s
      PROVE  call'[t] = call[t]
  BY <1>1 DEF IInv, TypeInv
<1>2. call'[s] = c
  BY DEF IInv, TypeInv
<1>3. run.revision \in Nat
  BY DEF IInv, TypeInv, Runs
<1> QED
  BY <1>1, <1>2, <1>3 DEF IInv, SeenInv, Terminal, Correlates

(* What the run says of deliveries is kept by what changes no delivery. *)
LEMMA DeliveriesKeep ==
    ASSUME IInv, run' \in Runs, receipts' = receipts,
           \A w \in Reservations : run'.waits[w].delivery = run.waits[w].delivery
    PROVE  ReceiptInv' /\ CorrelationHolds'
<1>1. receipts \subseteq Receipts
  BY DEF IInv, TypeInv
<1> QED
  BY <1>1 DEF IInv, ReceiptInv, CorrelationHolds, Receipts

(* The run after a delivery, field by field. *)
LEMMA AfterDelivery ==
    ASSUME IInv, NEW s \in Senders, call[s].pc = "commit",
           run.revision = call[s].seen, Commit(Delivered(run, s))
    PROVE  LET w == call[s].wait
           IN  /\ w \in Reservations /\ call[s].message \in Messages
               /\ run' \in Runs /\ run'.revision = run.revision + 1 /\ run'.cancel = run.cancel
               /\ run.waits[w].state = "Open" /\ run.waits[w].delivery = NoDelivery
               /\ ~run.cancel /\ ~Terminal /\ Correlates(s)
               /\ run'.state = (IF run.state = "Waiting" THEN "Running" ELSE run.state)
               /\ run'.waits[w].state = "Open" /\ run'.waits[w].error = run.waits[w].error
               /\ run'.waits[w].delivery = [actor |-> s, message |-> call[s].message,
                                            at |-> run.revision]
               /\ \A v \in Reservations \ {w} : run'.waits[v] = run.waits[v]
<1>1. call[s].wait \in Reservations /\ call[s].message \in Messages
  BY CallShape DEF IInv
<1>3. /\ run.waits[call[s].wait].state = "Open" /\ run.waits[call[s].wait].delivery = NoDelivery
      /\ ~run.cancel /\ ~Terminal /\ Correlates(s)
  BY DEF IInv, SeenInv
<1> DEFINE d == [actor |-> s, message |-> call[s].message, at |-> run.revision]
<1>4. d \in Deliveries
  BY <1>1 DEF Deliveries, IInv, TypeInv, Runs
<1>5. run \in Runs
  BY DEF IInv, TypeInv
<1> DEFINE waits == [run.waits EXCEPT ![call[s].wait].delivery = d]
<1>6. waits \in [Reservations -> Waits]
  BY <1>1, <1>4, <1>5 DEF Runs, Waits
<1>7. run' = [run EXCEPT !.waits = waits,
                         !.state = IF run.state = "Waiting" THEN "Running" ELSE @,
                         !.revision = run.revision + 1]
  BY <1>5 DEF Commit, Delivered, Runs
<1>8. run' \in Runs
  <2>1. run' = [state |-> IF run.state = "Waiting" THEN "Running" ELSE run.state,
                revision |-> run.revision + 1, cancel |-> run.cancel, waits |-> waits]
    BY <1>5, <1>7 DEF Runs
  <2> HIDE DEF waits
  <2> QED
    BY <1>5, <1>6, <2>1 DEF Runs, RunStates
<1>9. /\ run'.waits = waits /\ run'.revision = run.revision + 1 /\ run'.cancel = run.cancel
      /\ run'.state = (IF run.state = "Waiting" THEN "Running" ELSE run.state)
  BY <1>5, <1>7 DEF Runs
<1>10. /\ waits[call[s].wait].state = "Open" /\ waits[call[s].wait].delivery = d
       /\ waits[call[s].wait].error = run.waits[call[s].wait].error
       /\ \A v \in Reservations \ {call[s].wait} : waits[v] = run.waits[v]
  BY <1>1, <1>3, <1>5 DEF Runs, Waits
<1> QED
  BY <1>1, <1>3, <1>8, <1>9, <1>10

-----------------------------------------------------------------------------
(* The initial state. *)
LEMMA InitInv == ASSUME Init PROVE IInv
<1>1. TypeInv
  BY DEF Init, TypeInv, Runs, RunStates, Waits, Deliveries, Calls
<1>2. \A s \in Senders : call[s].pc # "commit"
  BY DEF Init, Idle
<1> QED
  BY <1>1, <1>2 DEF Init, IInv, SeenInv, ReceiptInv, CorrelationHolds, WaitInv, Terminal

(* Send, and the answers that change no receipt. *)
LEMMA CallStep ==
    ASSUME IInv, NEW s \in Senders, NEW c \in Calls, call' = [call EXCEPT ![s] = c],
           c.pc # "commit", UNCHANGED <<run, receipts, overdue>>
    PROVE  IInv'
<1>1. TypeInv'
  BY DEF IInv, TypeInv
<1>2. SeenInv'
  BY CallsKeepSeen
<1>3. run' \in Runs
  BY <1>1 DEF TypeInv
<1>4. ReceiptInv' /\ CorrelationHolds'
  BY <1>3, DeliveriesKeep
<1> QED
  BY <1>1, <1>2, <1>4 DEF IInv, WaitInv, Terminal

(* A new receipt that is true of the run adds nothing to prove elsewhere. *)
LEMMA ReceiptStep ==
    ASSUME IInv, NEW r \in Receipts, receipts' = receipts \cup {r}, run' \in Runs,
           \A w \in Reservations : run.waits[w].delivery # NoDelivery =>
              run'.waits[w].delivery = run.waits[w].delivery,
           LET d == run'.waits[r.wait].delivery
           IN  d # NoDelivery /\ d.actor = r.actor /\ d.message = r.message /\ d.at = r.at
    PROVE  ReceiptInv'
<1>1. \A q \in receipts : q.wait \in Reservations
  BY DEF IInv, TypeInv, Receipts
<1> QED
  BY <1>1 DEF IInv, ReceiptInv

LEMMA ReadStep ==
    ASSUME IInv, NEW s \in Senders, Read(s) PROVE IInv'
<1> DEFINE w == call[s].wait
           d == run.waits[w].delivery
<1>1. w \in Reservations /\ call[s].message \in Messages /\ run \in Runs
  BY CallShape DEF IInv, TypeInv, Read
<1>2. Idle \in Calls /\ Idle.pc # "commit"
  BY DEF Calls, Idle
<1>3. CASE Return(s) /\ UNCHANGED receipts
  BY <1>2, <1>3, CallStep DEF Return, Read
<1>4. CASE /\ d # NoDelivery /\ Return(s) /\ SameCommand(s, d) /\ Receipt(s, d.at, TRUE)
           /\ UNCHANGED <<run, overdue>>
  <2> DEFINE r == [wait |-> w, message |-> call[s].message, actor |-> s, at |-> d.at,
                   duplicate |-> TRUE]
  <2>1. d \in [actor : Senders, message : Messages, at : Nat]
    BY <1>1, <1>4 DEF Runs, Waits, Deliveries
  <2>2. r \in Receipts
    BY <1>1, <2>1 DEF Receipts
  <2>3. TypeInv'
    BY <1>2, <1>4, <2>2 DEF IInv, TypeInv, Return, Receipt
  <2>4. SeenInv'
    BY <1>2, <1>4, CallsKeepSeen DEF Return
  <2>5. ReceiptInv'
    BY <1>1, <1>4, <2>2, ReceiptStep DEF Receipt, SameCommand
  <2> QED
    BY <1>4, <2>3, <2>4, <2>5 DEF IInv, CorrelationHolds, WaitInv, Terminal
<1>5. CASE /\ d = NoDelivery /\ Correlates(s) /\ Admits(w) /\ UNCHANGED <<run, receipts, overdue>>
           /\ call' = [call EXCEPT ![s] =
                [pc |-> "commit", wait |-> w, message |-> @.message, seen |-> run.revision]]
  <2> DEFINE c == [pc |-> "commit", wait |-> w, message |-> call[s].message,
                   seen |-> run.revision]
  <2>1. c \in Calls
    BY <1>1 DEF Calls, Runs
  <2>2. call' = [call EXCEPT ![s] = c]
    BY <1>5 DEF IInv, TypeInv
  <2>3. TypeInv'
    BY <1>5, <2>1, <2>2 DEF IInv, TypeInv
  <2>4. SeenInv'
    BY <1>5, <2>2, CallsKeepSeen DEF Admits, Terminal, Correlates
  <2> QED
    BY <1>5, <2>3, <2>4 DEF IInv, ReceiptInv, CorrelationHolds, WaitInv, Terminal
<1> QED
  BY <1>3, <1>4, <1>5 DEF Read

(* A delivery is committed: by the call that answers, or by one whose        *)
(* caller is gone.                                                          *)
LEMMA DeliveryStep ==
    ASSUME IInv, NEW s \in Senders, call[s].pc = "commit",
           run.revision = call[s].seen, Commit(Delivered(run, s)), Return(s),
           Receipt(s, run.revision, FALSE) \/ UNCHANGED receipts, UNCHANGED overdue
    PROVE  IInv'
<1> DEFINE w == call[s].wait
           d == [actor |-> s, message |-> call[s].message, at |-> run.revision]
           r == [wait |-> w, message |-> call[s].message, actor |-> s, at |-> run.revision,
                 duplicate |-> FALSE]
<1>1. /\ w \in Reservations /\ call[s].message \in Messages
      /\ run' \in Runs /\ run'.revision = run.revision + 1 /\ run'.cancel = run.cancel
      /\ run'.state = (IF run.state = "Waiting" THEN "Running" ELSE run.state) /\ ~Terminal
      /\ run.waits[w].state = "Open" /\ run.waits[w].delivery = NoDelivery /\ Correlates(s)
      /\ run'.waits[w].state = "Open" /\ run'.waits[w].delivery = d
      /\ run'.waits[w].error = run.waits[w].error
      /\ \A v \in Reservations \ {w} : run'.waits[v] = run.waits[v]
  BY AfterDelivery
<1>2. d # NoDelivery
  BY DeliveryIsOne
<1>3. r \in Receipts
  BY <1>1 DEF Receipts, IInv, TypeInv, Runs
<1>4. Idle \in Calls /\ Idle.pc # "commit"
  BY DEF Calls, Idle
<1>5. TypeInv'
  BY <1>1, <1>3, <1>4 DEF IInv, TypeInv, Return, Receipt
<1>6. \A t \in Senders : call'[t].pc = "commit" => call'[t] = call[t]
  BY <1>4 DEF IInv, TypeInv, Return
<1>7. SeenInv'
  BY <1>1, <1>6, CommitOutdates
<1>8. \A v \in Reservations : run.waits[v].delivery # NoDelivery =>
          run'.waits[v].delivery = run.waits[v].delivery
  BY <1>1
<1>9. ReceiptInv'
  <2>1. CASE UNCHANGED receipts
    <3>1. \A q \in receipts : q.wait \in Reservations
      BY DEF IInv, TypeInv, Receipts
    <3> QED
      BY <1>8, <2>1, <3>1 DEF IInv, ReceiptInv
  <2>2. CASE receipts' = receipts \cup {r}
    <3>1. LET e == run'.waits[r.wait].delivery
          IN  e # NoDelivery /\ e.actor = r.actor /\ e.message = r.message /\ e.at = r.at
      BY <1>1, <1>2
    <3> HIDE DEF r
    <3> QED
      BY <1>1, <1>3, <1>8, <2>2, <3>1, ReceiptStep
  <2> QED
    BY <2>1, <2>2 DEF Receipt
<1>10. CorrelationHolds'
  BY <1>1 DEF IInv, CorrelationHolds, Correlates
<1>11. WaitInv'
  <2>1. run.waits[w].error = "none"
    BY <1>1 DEF IInv, WaitInv
  <2>2. ~Terminal' /\ (run.state = "Failed" => run'.state = "Failed")
    BY <1>1 DEF Terminal
  <2> SUFFICES ASSUME NEW v \in Reservations
               PROVE  LET x == run'.waits[v] IN
                      /\ x.state = "Open" => x.error = "none"
                      /\ x.delivery # NoDelivery => x.state # "Expired" /\ x.error # "wait.expired"
                      /\ x.state = "Closed" => run'.cancel \/ run'.state = "Failed" \/ x.error # "none"
    BY <2>2 DEF WaitInv
  <2>3. CASE v = w
    BY <1>1, <2>1, <2>3
  <2>4. CASE v # w
    <3>1. run'.waits[v] = run.waits[v]
      BY <1>1, <2>4
    <3> QED
      BY <1>1, <2>2, <3>1 DEF IInv, WaitInv
  <2> QED
    BY <2>3, <2>4
<1> QED
  BY <1>5, <1>7, <1>9, <1>10, <1>11 DEF IInv

LEMMA DeliverStep ==
    ASSUME IInv, NEW s \in Senders, Deliver(s) PROVE IInv'
<1> DEFINE c == [pc |-> "read", wait |-> call[s].wait, message |-> call[s].message]
<1>1. CASE run.revision = call[s].seen
  BY <1>1, DeliveryStep DEF Deliver
<1>2. CASE run.revision # call[s].seen
  <2>1. c \in Calls /\ c.pc # "commit"
    BY CallShape DEF IInv, Deliver, Calls
  <2>2. call' = [call EXCEPT ![s] = c]
    BY <1>2 DEF Deliver, IInv, TypeInv
  <2> QED
    BY <1>2, <2>1, <2>2, CallStep DEF Deliver
<1> QED
  BY <1>1, <1>2

LEMMA DropStep ==
    ASSUME IInv, NEW s \in Senders, Drop(s) PROVE IInv'
<1>1. CASE UNCHANGED run
  <2>1. Idle \in Calls /\ Idle.pc # "commit"
    BY DEF Calls, Idle
  <2> QED
    BY <1>1, <2>1, CallStep DEF Drop, Return
<1>2. CASE /\ call[s].pc = "commit" /\ run.revision = call[s].seen
           /\ Commit(Delivered(run, s))
  BY <1>2, DeliveryStep DEF Drop
<1> QED
  BY <1>1, <1>2 DEF Drop

(* What the coordinator and other commands commit: the revision moves on    *)
(* and no delivery changes.                                                 *)
LEMMA OtherCommit ==
    ASSUME IInv, run' \in Runs, run'.revision = run.revision + 1,
           UNCHANGED <<call, receipts, overdue>>, WaitInv',
           \A w \in Reservations : run'.waits[w].delivery = run.waits[w].delivery
    PROVE  IInv'
<1>1. TypeInv'
  BY DEF IInv, TypeInv
<1>2. SeenInv'
  BY CommitOutdates
<1>3. ReceiptInv' /\ CorrelationHolds'
  BY DeliveriesKeep
<1> QED
  BY <1>1, <1>2, <1>3 DEF IInv

LEMMA PassesStep ==
    ASSUME IInv, NEW w \in Reservations, Passes(w) PROVE IInv'
  BY DEF Passes, IInv, TypeInv, SeenInv, ReceiptInv, CorrelationHolds,
         WaitInv, Terminal, Correlates

(* One reservation is settled. *)
LEMMA SettledMeans ==
    ASSUME IInv, NEW w \in Reservations, NEW state \in {"Consumed", "Expired", "Closed"},
           NEW error \in {"none", "failed", "wait.expired"}, Settled(w, state, error)
    PROVE  /\ run' \in Runs /\ run'.revision = run.revision + 1
           /\ run'.state = run.state /\ run'.cancel = run.cancel /\ run.state = "Running"
           /\ run'.waits[w].state = state /\ run'.waits[w].error = error
           /\ run'.waits[w].delivery = run.waits[w].delivery
           /\ \A v \in Reservations \ {w} : run'.waits[v] = run.waits[v]
<1> DEFINE wait == [state |-> state, delivery |-> run.waits[w].delivery, error |-> error]
           waits == [run.waits EXCEPT ![w] = wait]
<1>1. run \in Runs /\ run.waits[w] \in Waits
  BY DEF IInv, TypeInv, Runs
<1>2. wait \in Waits
  BY <1>1 DEF Waits
<1>3. waits \in [Reservations -> Waits] /\ waits[w] = wait
      /\ \A v \in Reservations \ {w} : waits[v] = run.waits[v]
  BY <1>1, <1>2 DEF Runs
<1>4. run' = [state |-> run.state, revision |-> run.revision + 1, cancel |-> run.cancel,
              waits |-> waits]
  <2> DEFINE x == run.waits[w]
             one == [x EXCEPT !.state = state]
             two == [one EXCEPT !.error = error]
  <2>1. two = wait
    <3>1. x \in Waits
      BY <1>1
    <3> HIDE DEF x
    <3>2. one = [state |-> state, delivery |-> x.delivery, error |-> x.error]
      BY <3>1 DEF Waits
    <3> HIDE DEF one
    <3>3. two = [state |-> state, delivery |-> x.delivery, error |-> error]
      BY <3>2
    <3> QED
      BY <3>3 DEF x
  <2>2. run' = [run EXCEPT !.waits = [run.waits EXCEPT ![w] = two], !.revision = run.revision + 1]
    BY <1>1 DEF Settled, Commit, Runs
  <2> HIDE DEF two
  <2> QED
    BY <1>1, <2>1, <2>2 DEF Runs
<1> HIDE DEF waits
<1>5. run' \in Runs
  BY <1>1, <1>3, <1>4 DEF Runs
<1> QED
  BY <1>3, <1>4, <1>5 DEF Settled

LEMMA SettleStep ==
    ASSUME IInv, NEW w \in Reservations, NEW state \in {"Consumed", "Expired", "Closed"},
           NEW error \in {"none", "failed", "wait.expired"}, Settled(w, state, error),
           state = "Expired" \/ error = "wait.expired" => run.waits[w].delivery = NoDelivery,
           state = "Closed" => error # "none"
    PROVE  IInv'
<1>1. /\ run' \in Runs /\ run'.revision = run.revision + 1
      /\ run'.state = run.state /\ run'.cancel = run.cancel /\ run.state = "Running"
      /\ run'.waits[w].state = state /\ run'.waits[w].error = error
      /\ run'.waits[w].delivery = run.waits[w].delivery
      /\ \A v \in Reservations \ {w} : run'.waits[v] = run.waits[v]
  BY SettledMeans
<1>2. ~Terminal'
  BY <1>1 DEF Terminal
<1>3. WaitInv'
  <2> SUFFICES ASSUME NEW v \in Reservations
               PROVE  LET x == run'.waits[v] IN
                      /\ x.state = "Open" => x.error = "none"
                      /\ x.delivery # NoDelivery => x.state # "Expired" /\ x.error # "wait.expired"
                      /\ x.state = "Closed" => run'.cancel \/ run'.state = "Failed" \/ x.error # "none"
    BY <1>2 DEF WaitInv
  <2>1. CASE v = w
    BY <1>1, <2>1
  <2>2. CASE v # w
    <3>1. run'.waits[v] = run.waits[v]
      BY <1>1, <2>2
    <3> QED
      BY <1>1, <3>1 DEF IInv, WaitInv
  <2> QED
    BY <2>1, <2>2
<1>4. \A v \in Reservations : run'.waits[v].delivery = run.waits[v].delivery
  BY <1>1
<1> QED
  BY <1>1, <1>3, <1>4, OtherCommit DEF Settled

(* The run changes its state, and its reservations stay or are closed.       *)
LEMMA RunMoves ==
    ASSUME IInv, NEW state \in RunStates, NEW cancel \in BOOLEAN, NEW waits,
           waits \in [Reservations -> Waits],
           run' = [state |-> state, revision |-> run.revision + 1, cancel |-> cancel,
                   waits |-> waits],
           UNCHANGED <<call, receipts, overdue>>, run.cancel => cancel, run.state # "Failed",
           \/ waits = run.waits /\ state \notin {"Succeeded", "Failed", "Cancelled"}
           \/ \A w \in Reservations :
                 /\ waits[w].delivery = run.waits[w].delivery
                 /\ waits[w].error = run.waits[w].error
                 /\ IF run.waits[w].state = "Open"
                    THEN waits[w].state = "Closed" /\ (cancel \/ state = "Failed")
                    ELSE waits[w].state = run.waits[w].state
    PROVE  IInv'
<1>1. run' \in Runs
  BY DEF IInv, TypeInv, Runs
<1>2. Terminal' <=> state \in {"Succeeded", "Failed", "Cancelled"}
  BY DEF Terminal
<1>3. WaitInv'
  <2> SUFFICES ASSUME NEW v \in Reservations
               PROVE  LET x == waits[v] IN
                      /\ x.state = "Open" => x.error = "none"
                      /\ x.delivery # NoDelivery => x.state # "Expired" /\ x.error # "wait.expired"
                      /\ x.state = "Closed" => cancel \/ state = "Failed" \/ x.error # "none"
                      /\ state \in {"Succeeded", "Failed", "Cancelled"} => x.state # "Open"
    BY <1>2 DEF WaitInv
  <2>1. LET x == run.waits[v] IN
        /\ x.state = "Open" => x.error = "none"
        /\ x.delivery # NoDelivery => x.state # "Expired" /\ x.error # "wait.expired"
        /\ x.state = "Closed" => run.cancel \/ x.error # "none"
    BY DEF IInv, WaitInv
  <2> QED
    BY <2>1
<1>4. \A w \in Reservations : run'.waits[w].delivery = run.waits[w].delivery
  OBVIOUS
<1>5. run'.revision = run.revision + 1
  OBVIOUS
<1> QED
  BY <1>1, <1>3, <1>4, <1>5, OtherCommit

(* Moves that leave the reservations alone. *)
LEMMA StateStep ==
    ASSUME IInv, NEW state \in RunStates \ {"Succeeded", "Failed", "Cancelled"},
           run.state # "Failed", Move([run EXCEPT !.state = state])
    PROVE  IInv'
<1>1. run \in Runs
  BY DEF IInv, TypeInv
<1>2. run' = [state |-> state, revision |-> run.revision + 1, cancel |-> run.cancel,
              waits |-> run.waits]
  BY <1>1 DEF Move, Commit, Runs
<1>3. run.cancel \in BOOLEAN /\ run.waits \in [Reservations -> Waits]
  BY <1>1 DEF Runs
<1> QED
  BY <1>2, <1>3, RunMoves DEF Move

(* Moves that close them. *)
LEMMA ClosingStep ==
    ASSUME IInv, NEW state \in RunStates, NEW cancel \in BOOLEAN, NEW r \in Runs,
           Move(Closed(r)), r.state = state, r.cancel = cancel, r.waits = run.waits,
           r.revision = run.revision, run.cancel => cancel, run.state # "Failed",
           \/ cancel \/ state = "Failed"
           \/ \A w \in Reservations : run.waits[w].state # "Open"
    PROVE  IInv'
<1> DEFINE waits == [w \in Reservations |->
                       IF run.waits[w].state = "Open"
                       THEN [run.waits[w] EXCEPT !.state = "Closed"] ELSE run.waits[w]]
<1>1. run \in Runs
  BY DEF IInv, TypeInv
<1>2. /\ waits \in [Reservations -> Waits]
      /\ \A w \in Reservations :
            /\ waits[w].delivery = run.waits[w].delivery /\ waits[w].error = run.waits[w].error
            /\ IF run.waits[w].state = "Open" THEN waits[w].state = "Closed"
               ELSE waits[w].state = run.waits[w].state
  BY <1>1 DEF Runs, Waits
<1>3. run' = [state |-> state, revision |-> run.revision + 1, cancel |-> cancel,
              waits |-> waits]
  BY DEF Move, Commit, Closed, Runs
<1> HIDE DEF waits
<1> QED
  BY <1>2, <1>3, RunMoves DEF Move

LEMMA CancelStep ==
    ASSUME IInv, Cancel PROVE IInv'
<1>1. run \in Runs /\ ~Terminal
  BY DEF IInv, TypeInv, Cancel
<1> DEFINE r == [run EXCEPT !.cancel = TRUE, !.state = "Cancelling"]
<1>2. /\ r \in Runs /\ r.state = "Cancelling" /\ r.cancel = TRUE
      /\ r.waits = run.waits /\ r.revision = run.revision
  BY <1>1 DEF Runs, RunStates
<1>3. Move(Closed(r))
  BY DEF Cancel
<1> HIDE DEF r
<1> QED
  BY <1>1, <1>2, <1>3, ClosingStep DEF Terminal, RunStates

(* finish_error, the final commit and StopTracking. *)
LEMMA EndStep ==
    ASSUME IInv, NEW state \in {"Succeeded", "Failed", "Cancelled"},
           Move(Closed([run EXCEPT !.state = state])), run.state # "Failed",
           \/ state = Broken
           \/ \A w \in Reservations : run.waits[w].state # "Open"
    PROVE  IInv'
<1>1. run \in Runs
  BY DEF IInv, TypeInv
<1> DEFINE r == [run EXCEPT !.state = state]
<1>2. /\ r \in Runs /\ r.state = state /\ r.cancel = run.cancel
      /\ r.waits = run.waits /\ r.revision = run.revision
  BY <1>1 DEF Runs, RunStates
<1>3. Move(Closed(r))
  OBVIOUS
<1>4. run.cancel \in BOOLEAN /\ state \in RunStates
  BY <1>1 DEF Runs, RunStates
<1> HIDE DEF r
<1> QED
  BY <1>2, <1>3, <1>4, ClosingStep DEF Broken

LEMMA FinishStep ==
    ASSUME IInv, Finish \/ StopTracking PROVE IInv'
<1>1. Broken \in {"Succeeded", "Failed", "Cancelled"} /\ run.state # "Failed"
  BY DEF Broken, Finish, StopTracking
<1>2. CASE Move(Closed([run EXCEPT !.state = Broken]))
  BY <1>1, <1>2, EndStep
<1>3. CASE /\ \A w \in Reservations : run.waits[w].state # "Open"
           /\ Move(Closed([run EXCEPT !.state = "Succeeded"]))
  BY <1>1, <1>3, EndStep
<1> QED
  BY <1>2, <1>3 DEF Finish, StopTracking

(* Every step keeps the invariant. *)
LEMMA NextInv == ASSUME IInv, [Next]_vars PROVE IInv'
<1>1. ASSUME NEW s \in Senders, Send(s) PROVE IInv'
  <2>1. PICK w \in Reservations, m \in Messages :
             call' = [call EXCEPT ![s] = [pc |-> "read", wait |-> w, message |-> m]]
    BY <1>1 DEF Send
  <2>2. [pc |-> "read", wait |-> w, message |-> m] \in Calls
    BY DEF Calls
  <2> QED
    BY <1>1, <2>1, <2>2, CallStep DEF Send
<1>2. ASSUME NEW s \in Senders, Read(s) \/ Deliver(s) \/ Drop(s) PROVE IInv'
  BY <1>2, ReadStep, DeliverStep, DropStep
<1>3. ASSUME NEW w \in Reservations, Passes(w) PROVE IInv'
  BY <1>3, PassesStep
<1>4. ASSUME NEW w \in Reservations, Consume(w) PROVE IInv'
  BY <1>4, SettleStep DEF Consume
<1>5. ASSUME NEW w \in Reservations, Expire(w) \/ FailBranch(w) PROVE IInv'
  BY <1>5, SettleStep DEF Expire, FailBranch
<1>6. CASE Suspend
  BY <1>6, StateStep DEF Suspend, RunStates
<1>7. CASE Resume
  BY <1>7, StateStep DEF Resume, RunStates
<1>8. CASE Cancel
  BY <1>8, CancelStep
<1>9. CASE Finish \/ StopTracking
  BY <1>9, FinishStep
<1>10. CASE UNCHANGED vars
  BY <1>10 DEF vars, IInv, TypeInv, SeenInv, ReceiptInv, CorrelationHolds,
               WaitInv, Terminal, Correlates
<1>11. CASE Block
  BY <1>11, StateStep DEF Block, RunStates
<1>12. CASE Resolve
  <2>1. (IF run.cancel THEN "Cancelling" ELSE "Running")
            \in RunStates \ {"Succeeded", "Failed", "Cancelled"}
    BY DEF RunStates
  <2> QED
    BY <1>12, <2>1, StateStep DEF Resolve
<1> QED
  BY <1>1, <1>2, <1>3, <1>4, <1>5, <1>6, <1>7, <1>8, <1>9, <1>10, <1>11, <1>12 DEF Next

-----------------------------------------------------------------------------
(* The receipts of the signal command are true, reservations correlate, and *)
(* an acknowledged signal is accounted for, whatever was sent twice, raced  *)
(* or lost, and in whichever way its reservation was settled: it never      *)
(* expires, and is closed only with its run or by an error of its branch    *)
(* (signals.rs:68; waits.rs:46, 223, 244; coordinator.rs:141).              *)
THEOREM SignalsKept == Spec => []SignalsAreKept
<1>1. IInv => SignalsAreKept
  BY DEF IInv, ReceiptInv, TypeInv, Receipts, SignalsAreKept, ReceiptsAreTrue, WaitInv,
         AcknowledgedIsAccounted
<1> QED
  BY <1>1, InitInv, NextInv, PTL DEF Spec

(* A step that changes a delivery is a delivery to an open reservation. *)
LEMMA DeliveryChanges ==
    ASSUME IInv, [Next]_vars, NEW w \in Reservations
    PROVE  LET d == run.waits[w].delivery
           IN  /\ d # NoDelivery => run'.waits[w].delivery = d
               /\ run'.waits[w].delivery # d =>
                     /\ run.waits[w].state = "Open" /\ ~run.cancel /\ ~Terminal
<1>1. run \in Runs
  BY DEF IInv, TypeInv
<1>2. ASSUME NEW s \in Senders, call[s].pc = "commit",
             run.revision = call[s].seen, Commit(Delivered(run, s))
      PROVE  LET d == run.waits[w].delivery
             IN  /\ d # NoDelivery => run'.waits[w].delivery = d
                 /\ run'.waits[w].delivery # d =>
                       /\ run.waits[w].state = "Open" /\ ~run.cancel /\ ~Terminal
  BY <1>2, AfterDelivery
<1>3. CASE \E s \in Senders : Send(s) \/ Read(s) \/ Deliver(s) \/ Drop(s)
  BY <1>2, <1>3 DEF Send, Read, Deliver, Drop
<1>4. CASE (\E v \in Reservations : Passes(v)) \/ UNCHANGED vars
  BY <1>4 DEF Passes, vars
<1>5. ASSUME NEW v \in Reservations, Consume(v) \/ Expire(v) \/ FailBranch(v)
      PROVE  run'.waits[w].delivery = run.waits[w].delivery
  BY <1>5, SettledMeans DEF Consume, Expire, FailBranch
<1>6. CASE Suspend \/ Resume \/ Block \/ Resolve
  <2>1. run'.waits = run.waits
    BY <1>1, <1>6 DEF Suspend, Resume, Block, Resolve, Move, Commit, Runs
  <2> QED
    BY <2>1
<1>7. CASE Cancel \/ Finish \/ StopTracking
  <2>1. PICK r : r.waits = run.waits /\ run'.waits = Closed(r).waits
    <3>1. CASE Cancel
      <4>1. [run EXCEPT !.cancel = TRUE, !.state = "Cancelling"].waits = run.waits
        BY <1>1 DEF Runs
      <4> QED
        BY <1>1, <3>1, <4>1 DEF Cancel, Move, Commit, Closed, Runs
    <3>2. CASE Finish \/ StopTracking
      <4>1. \A s : [run EXCEPT !.state = s].waits = run.waits
        BY <1>1 DEF Runs
      <4>2. PICK s : Commit(Closed([run EXCEPT !.state = s]))
        BY <3>2 DEF Finish, StopTracking, Move
      <4> QED
        BY <1>1, <4>1, <4>2 DEF Commit, Closed, Runs
    <3> QED
      BY <1>7, <3>1, <3>2
  <2>2. /\ Closed(r).waits = [v \in Reservations |->
               IF r.waits[v].state = "Open" THEN [r.waits[v] EXCEPT !.state = "Closed"]
               ELSE r.waits[v]]
        /\ run.waits[w] \in Waits
    BY <1>1, <2>1 DEF Closed, Runs
  <2> QED
    BY <2>1, <2>2 DEF Waits
<1> QED
  BY <1>3, <1>4, <1>5, <1>6, <1>7 DEF Next

(* A reservation accepts one signal, once, and keeps it. *)
THEOREM SignalIsAcceptedOnce == Spec => AcceptedOnce
<1>1. IInv /\ [Next]_vars =>
        [\A w \in Reservations :
           LET d == run.waits[w].delivery
           IN  /\ d # NoDelivery => run'.waits[w].delivery = d
               /\ run'.waits[w].delivery # d =>
                     /\ run.waits[w].state = "Open" /\ ~run.cancel /\ ~Terminal]_vars
  BY DeliveryChanges
<1> QED
  BY <1>1, InitInv, NextInv, PTL DEF Spec, AcceptedOnce

-----------------------------------------------------------------------------
(* Reconcile: the types of its state. *)
OrderStates == {"Accepted", "Blocked", "Cancelling", "Succeeded", "Failed", "Cancelled"}
RecordStates == {"Pending", "Running", "Unknown", "Succeeded", "Failed"}
Named == [id : CommandIds, rev : Nat, attempt : Nat, res : Resolutions]
Answers == [id : CommandIds, rev : Nat, status : RecordStates \cup {"stopped", "blocked"}]
Entries == [kind : {"late"}] \cup
           [kind : {"resolution"}, cmd : Named, actor : Actors, receipt : Answers]
Orders == [state : OrderStates, revision : Nat, cancel : BOOLEAN, audit : Seq(Entries)]
Records == [state : RecordStates, attempt : Nat]
Plans == [run : Orders, rec : Records, receipt : Answers]
Clients == [pc : {"idle", "read", "commit", "reread"}, rev : Nat, attempt : Nat,
            cmd : Named \cup {R!none}, got : Answers \cup {R!none},
            next : Plans \cup {R!none}]

OrderTypeInv ==
    /\ order \in Orders /\ rec \in Records
    /\ client \in [Actors -> Clients]
    /\ \A a \in Actors : client[a].pc # "idle" => client[a].cmd \in Named
    /\ \A a \in Actors : client[a].pc = "commit" => client[a].next \in Plans
    /\ abandoned \subseteq Plans
    /\ crashes \in Nat

(* The audit has an entry of this command, and which one a plan would add.  *)
Names(o, id) ==
    \E i \in DOMAIN o.audit : o.audit[i].kind = "resolution" /\ o.audit[i].cmd.id = id
Added(n) == n.run.audit[Len(n.run.audit)]

CancellingInv(o) == o.state = "Cancelling" => o.cancel

(* A plan that can still be committed was made of the run and the record as *)
(* they are.                                                                *)
Pending(n) ==
    /\ n.rec.state # "Running" /\ CancellingInv(n.run)
    /\ n.run.revision <= order.revision + 1
    /\ n.run.revision = order.revision + 1 =>
          /\ order.state = "Blocked" /\ rec.state = "Unknown"
          /\ n.run.audit = Append(order.audit, Added(n))
          /\ Added(n) \in Entries /\ Added(n).kind = "resolution"
          /\ Added(n).cmd.attempt = rec.attempt
          /\ ~Names(order, Added(n).cmd.id)

(* The plan of a call is what its command and its answer say. *)
Plan(a, c) ==
    /\ c.next.run.revision = c.cmd.rev + 1
    /\ Added(c.next) = [kind |-> "resolution", cmd |-> c.cmd, actor |-> a,
                        receipt |-> c.next.receipt]

PlanInv ==
    /\ \A n \in abandoned : Pending(n)
    /\ \A a \in Actors :
          client[a].pc = "commit" => Pending(client[a].next) /\ Plan(a, client[a])

RunningInv ==
    /\ rec.state = "Running" => order.state \in {"Accepted", "Cancelling"}
    /\ CancellingInv(order)

(* The answer of a client is in the audit. *)
Vouched(o, a, c) ==
    c.got # R!none => \E i \in DOMAIN o.audit :
        /\ o.audit[i].kind = "resolution" /\ o.audit[i].cmd = c.cmd
        /\ o.audit[i].actor = a /\ o.audit[i].receipt = c.got
AnswerInv == \A a \in Actors : Vouched(order, a, client[a])

(* The identities in the audit are unique. *)
Single(o) ==
    \A i, j \in DOMAIN o.audit :
        /\ o.audit[i].kind = "resolution" /\ o.audit[j].kind = "resolution"
        /\ o.audit[i].cmd.id = o.audit[j].cmd.id
        => i = j

OInv == OrderTypeInv /\ PlanInv /\ RunningInv /\ AnswerInv /\ Single(order)

-----------------------------------------------------------------------------
LEMMA AppendEntry ==
    ASSUME NEW s \in Seq(Entries), NEW e \in Entries
    PROVE  /\ Append(s, e) \in Seq(Entries) /\ Len(Append(s, e)) = Len(s) + 1
           /\ DOMAIN Append(s, e) = DOMAIN s \cup {Len(s) + 1}
           /\ Len(s) + 1 \notin DOMAIN s
           /\ \A i \in DOMAIN s : Append(s, e)[i] = s[i]
           /\ Append(s, e)[Len(s) + 1] = e
<1>1. Len(s) \in Nat /\ DOMAIN s = 1..Len(s)
  OBVIOUS
<1> QED
  BY <1>1

LEMMA UsedNames ==
    ASSUME NEW o, NEW id PROVE (R!Used(o, id) # {}) <=> Names(o, id)
  BY DEF R!Used, R!ToSet, Names

LEMMA NoneIsNoAnswer == R!none \notin Answers /\ R!none \notin Named /\ R!none \notin Plans
  BY DEF R!none, Answers, Named, Plans

(* The parts of the property that the invariant states without sets. *)
LEMMA AuditProperties ==
    ASSUME OInv PROVE AppliedOnce
<1>1. DOMAIN client = Actors
  BY DEF OInv, OrderTypeInv
<1>2. R!AppliedOnce
  BY DEF OInv, Single, R!AppliedOnce
<1>3. ASSUME NEW a \in Actors, client[a].got # R!none
      PROVE  \E e \in R!Used(order, client[a].cmd.id) :
                R!Same(a, e) /\ e.receipt = client[a].got
  <2>1. PICK i \in DOMAIN order.audit :
            /\ order.audit[i].kind = "resolution" /\ order.audit[i].cmd = client[a].cmd
            /\ order.audit[i].actor = a /\ order.audit[i].receipt = client[a].got
    BY <1>3 DEF OInv, AnswerInv, Vouched
  <2> QED
    BY <2>1 DEF R!Used, R!ToSet, R!Same
<1>4. R!ReceiptIsAudited
  BY <1>1, <1>3 DEF R!ReceiptIsAudited
<1> QED
  BY <1>2, <1>4 DEF AppliedOnce

(* A commit outdates every plan that was not committed. *)
LEMMA PlansOutdated ==
    ASSUME OInv, order'.revision = order.revision + 1, abandoned' \subseteq abandoned,
           \A a \in Actors : client'[a].pc = "commit" => client'[a] = client[a]
    PROVE  PlanInv'
<1>1. order.revision \in Nat
  BY DEF OInv, OrderTypeInv, Orders
<1>2. ASSUME NEW n \in Plans, Pending(n) PROVE Pending(n)'
  <2>1. n.run.revision \in Nat
    BY DEF Plans, Orders
  <2> QED
    BY <1>1, <1>2, <2>1 DEF Pending
<1>3. \A n \in abandoned' : Pending(n)'
  BY <1>2 DEF OInv, OrderTypeInv, PlanInv
<1>4. ASSUME NEW a \in Actors, client'[a].pc = "commit"
      PROVE  Pending(client[a].next)' /\ Plan(a, client'[a])
  BY <1>2, <1>4 DEF OInv, OrderTypeInv, PlanInv
<1> QED
  BY <1>3, <1>4 DEF PlanInv

(* What is still planned stays so when nothing is committed. *)
LEMMA PlansKept ==
    ASSUME OInv, UNCHANGED <<order, rec>>,
           \A n \in abandoned' : Pending(n),
           \A a \in Actors : client'[a].pc = "commit" =>
              Pending(client'[a].next) /\ Plan(a, client'[a])
    PROVE  PlanInv'
  BY DEF PlanInv, Pending

(* An audit that grows by an entry keeps what it vouches for, and its        *)
(* identities unique when the entry brings none or a new one.               *)
LEMMA AuditGrows ==
    ASSUME OInv, order' \in Orders, NEW e \in Entries, order'.audit = Append(order.audit, e),
           e.kind = "resolution" => ~Names(order, e.cmd.id)
    PROVE  /\ Single(order')
           /\ \A a, c : Vouched(order, a, c) => Vouched(order', a, c)
<1>1. order.audit \in Seq(Entries)
  BY DEF OInv, OrderTypeInv, Orders
<1> DEFINE n == Len(order.audit) + 1
<1>2. /\ DOMAIN order'.audit = DOMAIN order.audit \cup {n} /\ n \notin DOMAIN order.audit
      /\ order'.audit[n] = e
      /\ \A i \in DOMAIN order.audit : order'.audit[i] = order.audit[i]
  BY <1>1, AppendEntry
<1> HIDE DEF n
<1>3. Single(order')
  BY <1>2 DEF Single, OInv, Names
<1>4. \A a, c : Vouched(order, a, c) => Vouched(order', a, c)
  BY <1>2 DEF Vouched
<1> QED
  BY <1>3, <1>4

(* A call that goes on or returns, while the run stays. *)
LEMMA ClientStep ==
    ASSUME OInv, NEW a \in Actors, NEW c \in Clients, client' = [client EXCEPT ![a] = c],
           c.pc \in {"read", "reread"} => c.cmd \in Named,
           c.pc = "commit" =>
              c.cmd \in Named /\ c.next \in Plans /\ Pending(c.next) /\ Plan(a, c),
           Vouched(order, a, c),
           abandoned' \subseteq Plans, \A n \in abandoned' : Pending(n),
           UNCHANGED <<order, rec>>, crashes' \in Nat
    PROVE  OInv'
<1>1. /\ client \in [Actors -> Clients] /\ client'[a] = c
      /\ \A b \in Actors : b # a => client'[b] = client[b]
  BY DEF OInv, OrderTypeInv
<1>2. c.pc \in {"idle", "read", "commit", "reread"}
  BY DEF Clients
<1>3. OrderTypeInv'
  BY <1>1, <1>2 DEF OInv, OrderTypeInv
<1>4. PlanInv'
  BY <1>1, PlansKept DEF OInv, PlanInv
<1>5. AnswerInv'
  BY <1>1 DEF OInv, AnswerInv, Vouched
<1> QED
  BY <1>3, <1>4, <1>5 DEF OInv, RunningInv, Single

(* What becomes of a client that returns. *)
LEMMA ReturnedClient ==
    ASSUME OInv, NEW a \in Actors, NEW got \in Answers \cup {R!none}, R!Returns(a, got)
    PROVE  LET c == [client[a] EXCEPT !.pc = "idle", !.got = got, !.next = R!none]
           IN  /\ c \in Clients /\ client' = [client EXCEPT ![a] = c]
               /\ c.pc = "idle" /\ c.cmd = client[a].cmd /\ c.got = got
<1>1. client[a] \in Clients /\ client \in [Actors -> Clients]
  BY DEF OInv, OrderTypeInv
<1> QED
  BY <1>1 DEF R!Returns, Clients

LEMMA ReturnStep ==
    ASSUME OInv, NEW a \in Actors, NEW got \in Answers \cup {R!none}, R!Returns(a, got),
           Vouched(order, a, [cmd |-> client[a].cmd, got |-> got]),
           abandoned' \subseteq Plans, \A n \in abandoned' : Pending(n),
           UNCHANGED <<order, rec, crashes>>
    PROVE  OInv'
<1> DEFINE c == [client[a] EXCEPT !.pc = "idle", !.got = got, !.next = R!none]
<1>1. /\ c \in Clients /\ client' = [client EXCEPT ![a] = c]
      /\ c.pc = "idle" /\ c.cmd = client[a].cmd /\ c.got = got
  BY ReturnedClient
<1>2. crashes' \in Nat
  BY DEF OInv, OrderTypeInv
<1> HIDE DEF c
<1>3. Vouched(order, a, c)
  BY <1>1 DEF Vouched
<1> QED
  BY <1>1, <1>2, <1>3, ClientStep

(* The receipt that a repeated command is answered. *)
LEMMA ReceiptIsVouched ==
    ASSUME OInv, NEW a \in Actors
    PROVE  LET got == R!ReceiptOf(a, R!Used(order, client[a].cmd.id))
           IN  /\ got \in Answers \cup {R!none}
               /\ Vouched(order, a, [cmd |-> client[a].cmd, got |-> got])
<1> DEFINE used == R!Used(order, client[a].cmd.id)
           e == CHOOSE x \in used : R!Same(a, x)
<1>1. CASE \E x \in used : R!Same(a, x)
  <2>1. e \in used /\ R!Same(a, e)
    BY <1>1
  <2>2. R!ReceiptOf(a, used) = e.receipt
    BY <1>1 DEF R!ReceiptOf
  <2> HIDE DEF e
  <2>3. PICK i \in DOMAIN order.audit : order.audit[i] = e
    BY <2>1 DEF R!Used, R!ToSet
  <2>4. e.kind = "resolution"
    BY <2>1 DEF R!Used
  <2>5. e \in Entries
    BY <2>3 DEF OInv, OrderTypeInv, Orders
  <2>6. e.receipt \in Answers
    BY <2>4, <2>5 DEF Entries
  <2> QED
    BY <2>1, <2>2, <2>3, <2>4, <2>6 DEF R!Same, Vouched
<1>2. CASE ~ \E x \in used : R!Same(a, x)
  BY <1>2 DEF R!ReceiptOf, Vouched
<1> QED
  BY <1>1, <1>2

LEMMA LooksStep ==
    ASSUME OInv, NEW a \in Actors, R!Inspect(a) \/ R!Status(a) PROVE OInv'
<1>1. order \in Orders /\ rec \in Records /\ client[a] \in Clients
      /\ client \in [Actors -> Clients] /\ abandoned \subseteq Plans /\ crashes \in Nat
  BY DEF OInv, OrderTypeInv
<1>2. PICK attempt \in Nat :
         client' = [client EXCEPT ![a] = [client[a] EXCEPT !.rev = order.revision,
                                                         !.attempt = attempt]]
  <2>1. CASE R!Inspect(a)
    BY <1>1, <2>1 DEF R!Inspect, Clients, Records
  <2>2. CASE R!Status(a)
    BY <1>1, <2>2 DEF R!Status, Clients
  <2> QED
    BY <2>1, <2>2
<1> DEFINE c == [client[a] EXCEPT !.rev = order.revision, !.attempt = attempt]
<1>3. c \in Clients /\ c.pc = "idle" /\ c.cmd = client[a].cmd /\ c.got = client[a].got
  BY <1>1 DEF Clients, Orders, R!Inspect, R!Status
<1>4. client' = [client EXCEPT ![a] = c]
  BY <1>2
<1> HIDE DEF c
<1>5. Vouched(order, a, c)
  BY <1>3 DEF OInv, AnswerInv, Vouched
<1> QED
  BY <1>1, <1>3, <1>4, <1>5, ClientStep DEF OInv, PlanInv, R!Inspect, R!Status

LEMMA SendStep ==
    ASSUME OInv, NEW a \in Actors, R!Send(a) PROVE OInv'
<1>1. client[a] \in Clients
      /\ client \in [Actors -> Clients] /\ abandoned \subseteq Plans /\ crashes \in Nat
  BY DEF OInv, OrderTypeInv
<1>2. PICK cmd \in Named :
         client' = [client EXCEPT ![a] = [client[a] EXCEPT !.pc = "read", !.got = R!none,
                                                         !.cmd = cmd]]
  <2>1. ASSUME NEW id \in CommandIds, NEW res \in Resolutions,
               client' = [client EXCEPT ![a].pc = "read", ![a].got = R!none, ![a].cmd =
                 [id |-> id, rev |-> client[a].rev, attempt |-> client[a].attempt, res |-> res]]
        PROVE  \E cmd \in Named :
         client' = [client EXCEPT ![a] = [client[a] EXCEPT !.pc = "read", !.got = R!none,
                                                         !.cmd = cmd]]
    <3> DEFINE cmd == [id |-> id, rev |-> client[a].rev, attempt |-> client[a].attempt,
                       res |-> res]
    <3>1. cmd \in Named
      BY <1>1 DEF Named, Clients
    <3>2. client' = [client EXCEPT ![a] = [client[a] EXCEPT !.pc = "read", !.got = R!none,
                                                         !.cmd = cmd]]
      BY <1>1, <2>1 DEF Clients
    <3> QED
      BY <3>1, <3>2
  <2>2. CASE /\ client[a].cmd # R!none
             /\ client' = [client EXCEPT ![a].pc = "read", ![a].got = R!none]
    <3>1. client[a].cmd \in Named
      BY <1>1, <2>2 DEF Clients
    <3>2. client' = [client EXCEPT ![a] = [client[a] EXCEPT !.pc = "read", !.got = R!none,
                                                         !.cmd = client[a].cmd]]
      BY <1>1, <2>2 DEF Clients
    <3> QED
      BY <3>1, <3>2
  <2> QED
    BY <2>1, <2>2 DEF R!Send
<1> DEFINE c == [client[a] EXCEPT !.pc = "read", !.got = R!none, !.cmd = cmd]
<1>3. c \in Clients /\ c.pc = "read" /\ c.cmd = cmd /\ c.got = R!none
  BY <1>1 DEF Clients
<1>4. client' = [client EXCEPT ![a] = c]
  BY <1>2
<1> HIDE DEF c
<1>5. Vouched(order, a, c)
  BY <1>3 DEF Vouched
<1> QED
  BY <1>1, <1>3, <1>4, <1>5, ClientStep DEF OInv, PlanInv, R!Send

(* The plan of a decision. *)
LEMMA DecidedPlan ==
    ASSUME OInv, NEW a \in Actors, client[a].pc = "read", R!Current(a),
           R!Used(order, client[a].cmd.id) = {}
    PROVE  LET n == R!Resolution(a, order, rec)
           IN  /\ n \in Plans /\ Pending(n)
               /\ n.run.revision = client[a].cmd.rev + 1
               /\ Added(n) = [kind |-> "resolution", cmd |-> client[a].cmd, actor |-> a,
                              receipt |-> n.receipt]
<1>1. order \in Orders /\ rec \in Records /\ client[a].cmd \in Named
  BY DEF OInv, OrderTypeInv
<1> DEFINE res == client[a].cmd.res
           d == R!Decided(order, rec, res)
           receipt == [id |-> client[a].cmd.id, rev |-> order.revision + 1,
                       status |-> R!StatusOf(d, res)]
           entry == [kind |-> "resolution", cmd |-> client[a].cmd, actor |-> a,
                     receipt |-> receipt]
           k == R!Continued(order, d, res)
           n == R!Resolution(a, order, rec)
<1>2. d \in Records /\ d.state \in {"Succeeded", "Pending", "Failed", "Unknown"}
  BY <1>1 DEF R!Decided, R!Current, Records, RecordStates
<1> HIDE DEF d
<1>3. k \in Orders /\ k.revision = order.revision /\ k.audit = order.audit /\ CancellingInv(k)
  BY <1>1 DEF R!Continued, R!Current, Orders, OrderStates, CancellingInv
<1> HIDE DEF k
<1>4. receipt \in Answers
  BY <1>1, <1>2 DEF R!StatusOf, Answers, Named, Orders, RecordStates
<1>5. entry \in Entries
  BY <1>1, <1>4 DEF Entries
<1>6. /\ n.rec = d /\ n.receipt = receipt
      /\ n.run = [[k EXCEPT !.revision = @ + 1] EXCEPT !.audit = Append(@, entry)]
      /\ DOMAIN n = {"run", "rec", "receipt"}
      /\ n = [run |-> n.run, rec |-> n.rec, receipt |-> n.receipt]
  BY DEF R!Resolution, R!Bump, d, k
<1> HIDE DEF n, entry, receipt
<1>7. Append(order.audit, entry) \in Seq(Entries)
      /\ Append(order.audit, entry)[Len(Append(order.audit, entry))] = entry
  BY <1>1, <1>5, AppendEntry DEF Orders
<1>8. /\ n.run = [state |-> k.state, revision |-> order.revision + 1, cancel |-> k.cancel,
                  audit |-> Append(order.audit, entry)]
  BY <1>3, <1>6 DEF Orders
<1>9. n.run \in Orders
  BY <1>1, <1>3, <1>7, <1>8 DEF Orders
<1>10. Added(n) = entry
  BY <1>7, <1>8 DEF Added
<1>11. n \in Plans
  BY <1>2, <1>4, <1>6, <1>9 DEF Plans
<1>12. ~Names(order, client[a].cmd.id)
  BY UsedNames
<1>13. entry.kind = "resolution" /\ entry.cmd = client[a].cmd
  BY DEF entry
<1>14. Pending(n)
  <2>1. n.rec.state # "Running" /\ n.run.revision = order.revision + 1
    <3>1. n.run.revision = order.revision + 1
      BY <1>8
    <3>2. n.rec = d
      BY <1>6
    <3>3. d.state # "Running"
      BY <1>2
    <3> QED
      BY <3>1, <3>2, <3>3
  <2>2. order.state = "Blocked" /\ rec.state = "Unknown" /\ rec.attempt = client[a].cmd.attempt
    BY DEF R!Current
  <2>3. CancellingInv(n.run)
    BY <1>3, <1>8 DEF CancellingInv
  <2> QED
    BY <1>1, <1>5, <1>8, <1>10, <1>12, <1>13, <2>1, <2>2, <2>3 DEF Pending, Orders
<1>15. order.revision = client[a].cmd.rev
  BY DEF R!Current
<1>16. Added(n) = [kind |-> "resolution", cmd |-> client[a].cmd, actor |-> a,
                   receipt |-> n.receipt]
  BY <1>6, <1>10 DEF entry
<1> QED
  BY <1>8, <1>11, <1>14, <1>15, <1>16 DEF n

LEMMA ReadRunStep ==
    ASSUME OInv, NEW a \in Actors, R!ReadRun(a) PROVE OInv'
<1> DEFINE used == R!Used(order, client[a].cmd.id)
           got == R!ReceiptOf(a, used)
           n == R!Resolution(a, order, rec)
           c == [client[a] EXCEPT !.pc = "commit", !.next = n]
<1>1. /\ client[a] \in Clients /\ client[a].cmd \in Named
      /\ client \in [Actors -> Clients] /\ abandoned \subseteq Plans /\ crashes \in Nat
      /\ \A m \in abandoned : Pending(m)
  BY DEF OInv, OrderTypeInv, PlanInv, R!ReadRun
<1>2. /\ client[a].pc = "read" /\ UNCHANGED <<order, rec, abandoned, crashes>>
      /\ \/ R!Returns(a, got)
         \/ used = {} /\ R!Current(a) /\ R!Decide(a)
         \/ R!Returns(a, R!none)
  BY DEF R!ReadRun
<1>3. CASE R!Returns(a, got)
  <2>1. got \in Answers \cup {R!none} /\ Vouched(order, a, [cmd |-> client[a].cmd, got |-> got])
    BY ReceiptIsVouched
  <2> HIDE DEF got
  <2> QED
    BY <1>1, <1>2, <1>3, <2>1, ReturnStep
<1>4. CASE R!Returns(a, R!none)
  BY <1>1, <1>2, <1>4, ReturnStep DEF Vouched
<1>5. CASE used = {} /\ R!Current(a) /\ R!Decide(a)
  <2>1. /\ n \in Plans /\ Pending(n) /\ n.run.revision = client[a].cmd.rev + 1
        /\ Added(n) = [kind |-> "resolution", cmd |-> client[a].cmd, actor |-> a,
                       receipt |-> n.receipt]
    BY <1>2, <1>5, DecidedPlan
  <2>2. client' = [client EXCEPT ![a].pc = "commit", ![a].next = n]
    BY <1>5 DEF R!Decide
  <2> HIDE DEF n
  <2>3. client' = [client EXCEPT ![a] = c]
    BY <1>1, <2>2
  <2>4. /\ c \in Clients /\ c.pc = "commit" /\ c.cmd = client[a].cmd /\ c.next = n
        /\ c.got = client[a].got
    BY <1>1, <2>1 DEF Clients
  <2> HIDE DEF c
  <2>5. Vouched(order, a, c)
    BY <2>4 DEF OInv, AnswerInv, Vouched
  <2>6. Plan(a, c)
    BY <2>1, <2>4 DEF Plan
  <2> QED
    BY <1>1, <1>2, <2>1, <2>3, <2>4, <2>5, <2>6, ClientStep
<1> QED
  BY <1>2, <1>3, <1>4, <1>5

LEMMA RereadStep ==
    ASSUME OInv, NEW a \in Actors, R!Reread(a) PROVE OInv'
<1> DEFINE got == R!ReceiptOf(a, R!Used(order, client[a].cmd.id))
<1>1. got \in Answers \cup {R!none} /\ Vouched(order, a, [cmd |-> client[a].cmd, got |-> got])
  BY ReceiptIsVouched
<1>2. R!Returns(a, got) /\ UNCHANGED <<order, rec, abandoned, crashes>>
  BY DEF R!Reread
<1>3. abandoned \subseteq Plans /\ \A m \in abandoned : Pending(m)
  BY DEF OInv, OrderTypeInv, PlanInv
<1> HIDE DEF got
<1> QED
  BY <1>1, <1>2, <1>3, ReturnStep

LEMMA AbandonStep ==
    ASSUME OInv, NEW a \in Actors, R!Drop(a) PROVE OInv'
<1>1. abandoned' \subseteq Plans /\ \A m \in abandoned' : Pending(m)
  BY DEF OInv, OrderTypeInv, PlanInv, R!Drop
<1>2. R!Returns(a, R!none) /\ UNCHANGED <<order, rec, crashes>>
  BY DEF R!Drop
<1> QED
  BY <1>1, <1>2, ReturnStep DEF Vouched

(* A plan is committed that was made of the run as it is. *)
LEMMA PlanCommits ==
    ASSUME OInv, NEW n \in Plans, Pending(n), n.run.revision = order.revision + 1,
           order' = n.run, rec' = n.rec
    PROVE  /\ order' \in Orders /\ rec' \in Records
           /\ order'.revision = order.revision + 1
           /\ order.state = "Blocked" /\ rec.state = "Unknown"
           /\ order'.audit = Append(order.audit, Added(n))
           /\ Added(n) \in Entries /\ Added(n).kind = "resolution"
           /\ Added(n).cmd.attempt = rec.attempt
           /\ RunningInv' /\ Single(order')
           /\ \A a, c : Vouched(order, a, c) => Vouched(order', a, c)
<1>1. n.run \in Orders /\ n.rec \in Records
  BY DEF Plans
<1>2. /\ order.state = "Blocked" /\ rec.state = "Unknown"
      /\ n.rec.state # "Running" /\ CancellingInv(n.run)
      /\ n.run.audit = Append(order.audit, Added(n))
      /\ Added(n) \in Entries /\ Added(n).kind = "resolution"
      /\ Added(n).cmd.attempt = rec.attempt
      /\ ~Names(order, Added(n).cmd.id)
  BY DEF Pending
<1> DEFINE e == Added(n)
<1>3. e \in Entries /\ order'.audit = Append(order.audit, e) /\ ~Names(order, e.cmd.id)
  BY <1>2
<1>4. order' \in Orders
  BY <1>1
<1> HIDE DEF e
<1>5. Single(order') /\ \A a, c : Vouched(order, a, c) => Vouched(order', a, c)
  BY <1>3, <1>4, AuditGrows
<1> QED
  BY <1>1, <1>2, <1>5 DEF RunningInv

LEMMA CommitStep ==
    ASSUME OInv, NEW a \in Actors, R!Commit(a) PROVE OInv'
<1> DEFINE n == client[a].next
<1>1. /\ client[a] \in Clients /\ client[a].cmd \in Named /\ n \in Plans
      /\ client \in [Actors -> Clients] /\ abandoned \subseteq Plans /\ crashes \in Nat
      /\ client[a].pc = "commit" /\ Pending(n) /\ Plan(a, client[a])
      /\ \A m \in abandoned : Pending(m)
  BY DEF OInv, OrderTypeInv, PlanInv, R!Commit
<1>2. CASE order.revision # client[a].cmd.rev
  <2> DEFINE c == [client[a] EXCEPT !.pc = "reread"]
  <2>1. c \in Clients /\ c.pc = "reread" /\ c.cmd = client[a].cmd /\ c.got = client[a].got
    BY <1>1 DEF Clients
  <2>2. client' = [client EXCEPT ![a] = c] /\ UNCHANGED <<order, rec, abandoned, crashes>>
    BY <1>1, <1>2 DEF R!Commit, R!Unchanged
  <2> HIDE DEF c
  <2>3. Vouched(order, a, c)
    BY <2>1 DEF OInv, AnswerInv, Vouched
  <2> QED
    BY <1>1, <2>1, <2>2, <2>3, ClientStep
<1>3. CASE order.revision = client[a].cmd.rev
  <2>1. order' = n.run /\ rec' = n.rec /\ R!Returns(a, n.receipt)
        /\ UNCHANGED <<abandoned, crashes>>
    BY <1>3 DEF R!Commit, R!Store
  <2>2. n.run.revision = order.revision + 1
    BY <1>1, <1>3 DEF Plan
  <2> HIDE DEF n
  <2>3. /\ order' \in Orders /\ rec' \in Records
        /\ order'.revision = order.revision + 1
        /\ order'.audit = Append(order.audit, Added(n)) /\ Added(n) \in Entries
        /\ RunningInv' /\ Single(order')
        /\ \A b, c : Vouched(order, b, c) => Vouched(order', b, c)
    BY <1>1, <2>1, <2>2, PlanCommits
  <2> DEFINE c == [client[a] EXCEPT !.pc = "idle", !.got = n.receipt, !.next = R!none]
  <2>4. n.receipt \in Answers
    BY <1>1 DEF Plans
  <2>5. /\ c \in Clients /\ client' = [client EXCEPT ![a] = c]
        /\ c.pc = "idle" /\ c.cmd = client[a].cmd /\ c.got = n.receipt
    BY <2>1, <2>4, ReturnedClient
  <2> HIDE DEF c
  <2>6. client'[a] = c /\ \A b \in Actors : b # a => client'[b] = client[b]
    BY <1>1, <2>5
  <2>7. OrderTypeInv'
    BY <1>1, <2>1, <2>3, <2>5, <2>6 DEF OInv, OrderTypeInv
  <2>8. PlanInv'
    BY <2>1, <2>3, <2>5, <2>6, PlansOutdated
  <2>9. Vouched(order', a, c)
    <3>1. Added(n) = [kind |-> "resolution", cmd |-> client[a].cmd, actor |-> a,
                      receipt |-> n.receipt]
      BY <1>1 DEF Plan, n
    <3>2. order.audit \in Seq(Entries)
      BY DEF OInv, OrderTypeInv, Orders
    <3>3. Len(order.audit) + 1 \in DOMAIN order'.audit
          /\ order'.audit[Len(order.audit) + 1] = Added(n)
      BY <2>3, <3>2, AppendEntry
    <3> QED
      BY <2>5, <3>1, <3>3 DEF Vouched
  <2>10. AnswerInv'
    BY <2>3, <2>6, <2>9 DEF OInv, AnswerInv, Vouched
  <2> QED
    BY <2>3, <2>7, <2>8, <2>10 DEF OInv, Single
<1> QED
  BY <1>2, <1>3

LEMMA LandsStep ==
    ASSUME OInv, R!Lands PROVE OInv'
<1>1. PICK n \in abandoned :
         /\ abandoned' = abandoned \ {n}
         /\ IF order.revision + 1 = n.run.revision
            THEN order' = n.run /\ rec' = n.rec ELSE UNCHANGED <<order, rec>>
  BY DEF R!Lands, R!Store, R!Unchanged
<1>2. n \in Plans /\ Pending(n) /\ UNCHANGED <<client, crashes>>
  BY DEF OInv, OrderTypeInv, PlanInv, R!Lands
<1>3. CASE order.revision + 1 # n.run.revision
  <2>1. PlanInv'
    BY <1>1, <1>2, <1>3, PlansKept DEF OInv, PlanInv
  <2> QED
    BY <1>1, <1>2, <1>3, <2>1 DEF OInv, OrderTypeInv, RunningInv, AnswerInv, Single, Vouched
<1>4. CASE n.run.revision = order.revision + 1
  <2>1. /\ order' \in Orders /\ rec' \in Records
        /\ order'.revision = order.revision + 1
        /\ RunningInv' /\ Single(order')
        /\ \A a, c : Vouched(order, a, c) => Vouched(order', a, c)
    BY <1>1, <1>2, <1>4, PlanCommits
  <2>2. PlanInv'
    BY <1>1, <1>2, <2>1, PlansOutdated
  <2>3. OrderTypeInv'
    BY <1>1, <1>2, <2>1 DEF OInv, OrderTypeInv
  <2>4. AnswerInv'
    BY <1>2, <2>1 DEF OInv, AnswerInv, Vouched
  <2> QED
    BY <2>1, <2>2, <2>3, <2>4 DEF OInv, Single
<1> QED
  BY <1>3, <1>4

(* What the coordinator and other commands commit moves the revision, and    *)
(* adds at most what a late response observed to the audit.                 *)
LEMMA OtherOrder ==
    ASSUME OInv, NEW o \in Orders, NEW r \in Records, order' = o, rec' = r,
           o.revision = order.revision + 1,
           o.audit = order.audit \/ o.audit = Append(order.audit, [kind |-> "late"]),
           r.state = "Running" => o.state \in {"Accepted", "Cancelling"}, CancellingInv(o),
           client' \in [Actors -> Clients],
           \A a \in Actors :
              /\ client'[a].pc # "idle" => client'[a] = client[a]
              /\ client'[a].cmd = client[a].cmd /\ client'[a].got = client[a].got,
           abandoned' \subseteq abandoned, crashes' \in Nat
    PROVE  OInv'
<1>1. OrderTypeInv'
  BY DEF OInv, OrderTypeInv
<1>2. PlanInv'
  BY PlansOutdated
<1>3. Single(order') /\ \A a, c : Vouched(order, a, c) => Vouched(order', a, c)
  <2>1. CASE o.audit = order.audit
    BY <2>1 DEF OInv, Single, Vouched
  <2>2. CASE o.audit = Append(order.audit, [kind |-> "late"])
    <3> DEFINE e == [kind |-> "late"]
    <3>1. e \in Entries /\ e.kind = "late"
      BY DEF Entries
    <3> HIDE DEF e
    <3>2. order'.audit = Append(order.audit, e)
      BY <2>2 DEF e
    <3> QED
      BY <3>1, <3>2, AuditGrows
  <2> QED
    BY <2>1, <2>2
<1>4. AnswerInv'
  BY <1>3 DEF OInv, AnswerInv, Vouched
<1> QED
  BY <1>1, <1>2, <1>3, <1>4 DEF OInv, RunningInv, Single

(* The same when no call is touched and the run only changes its state. *)
LEMMA MoveStep ==
    ASSUME OInv, NEW state \in OrderStates, NEW cancel \in BOOLEAN, NEW r \in Records,
           order' = [R!Bump(order) EXCEPT !.cancel = cancel, !.state = state], rec' = r,
           r.state = "Running" => state \in {"Accepted", "Cancelling"},
           state = "Cancelling" => cancel,
           UNCHANGED <<client, abandoned, crashes>>
    PROVE  OInv'
<1> DEFINE o == [state |-> state, revision |-> order.revision + 1, cancel |-> cancel,
                 audit |-> order.audit]
<1>1. order \in Orders /\ client \in [Actors -> Clients] /\ crashes \in Nat
  BY DEF OInv, OrderTypeInv
<1>2. order' = o
  BY <1>1 DEF R!Bump, Orders
<1>3. o \in Orders /\ CancellingInv(o)
  BY <1>1 DEF Orders, CancellingInv
<1> QED
  BY <1>1, <1>2, <1>3, OtherOrder

LEMMA LateStep ==
    ASSUME OInv, R!LateCommit PROVE OInv'
<1> DEFINE o == [state |-> order.state, revision |-> order.revision + 1,
                 cancel |-> order.cancel, audit |-> Append(order.audit, [kind |-> "late"])]
<1>1. order \in Orders /\ rec \in Records /\ client \in [Actors -> Clients] /\ crashes \in Nat
  BY DEF OInv, OrderTypeInv
<1>2. CASE UNCHANGED <<order, rec>>
  <2>1. PlanInv'
    BY <1>2, PlansKept DEF OInv, PlanInv, R!LateCommit
  <2> QED
    BY <1>2, <2>1 DEF OInv, OrderTypeInv, RunningInv, AnswerInv, Single, Vouched, R!LateCommit
<1>3. CASE /\ order' = [R!Bump(order) EXCEPT !.audit = Append(@, [kind |-> "late"])]
           /\ rec' = rec
  <2>1. order' = o
    BY <1>1, <1>3 DEF R!Bump, Orders
  <2>2. [kind |-> "late"] \in Entries
    BY DEF Entries
  <2>3. Append(order.audit, [kind |-> "late"]) \in Seq(Entries)
    BY <1>1, <2>2, AppendEntry DEF Orders
  <2>4. o \in Orders /\ CancellingInv(o)
    BY <1>1, <2>3 DEF Orders, OInv, RunningInv, CancellingInv
  <2> QED
    BY <1>1, <1>3, <2>1, <2>4, OtherOrder DEF OInv, RunningInv, R!LateCommit
<1> QED
  BY <1>2, <1>3 DEF R!LateCommit, R!Store, R!Unchanged

LEMMA CrashStep ==
    ASSUME OInv, R!Crash PROVE OInv'
<1>1. /\ order \in Orders /\ rec \in Records /\ client \in [Actors -> Clients] /\ crashes \in Nat
  BY DEF OInv, OrderTypeInv
<1>2. /\ client' = [a \in Actors |-> [client[a] EXCEPT !.pc = "idle", !.next = R!none]]
      /\ abandoned' = {} /\ crashes' = crashes + 1
  BY DEF R!Crash
<1>3. /\ client' \in [Actors -> Clients]
      /\ \A a \in Actors : /\ client'[a].pc = "idle" /\ client'[a].cmd = client[a].cmd
                           /\ client'[a].got = client[a].got
  BY <1>1, <1>2 DEF Clients
<1>6. abandoned' \subseteq abandoned /\ crashes' \in Nat
  <2>1. abandoned' \subseteq abandoned
    BY <1>2
  <2>2. crashes \in Nat /\ crashes' = crashes + 1
    BY <1>1, <1>2
  <2> QED
    BY <2>1, <2>2
<1>4. CASE rec.state = "Running"
  <2> DEFINE o == [state |-> "Blocked", revision |-> order.revision + 1,
                   cancel |-> order.cancel, audit |-> order.audit]
             r == [state |-> "Unknown", attempt |-> rec.attempt]
  <2>1. order' = o
    BY <1>1, <1>4 DEF R!Crash, R!Bump, Orders
  <2>2. rec' = r
    BY <1>1, <1>4 DEF R!Crash, Records
  <2>3. o \in Orders /\ r \in Records
    BY <1>1 DEF Orders, Records, OrderStates, RecordStates
  <2>4. /\ o.revision = order.revision + 1 /\ o.audit = order.audit
        /\ r.state = "Running" => o.state \in {"Accepted", "Cancelling"}
        /\ CancellingInv(o)
    BY DEF CancellingInv
  <2> HIDE DEF o, r
  <2> QED
    BY <1>3, <1>6, <2>1, <2>2, <2>3, <2>4, OtherOrder
<1>5. CASE rec.state # "Running"
  <2>1. UNCHANGED <<order, rec>>
    BY <1>5 DEF R!Crash
  <2>2. PlanInv'
    BY <1>2, <1>3, <2>1, PlansKept
  <2>3. AnswerInv'
    BY <1>3, <2>1 DEF OInv, AnswerInv, Vouched
  <2>4. OrderTypeInv'
    BY <1>2, <1>3, <1>6, <2>1 DEF OInv, OrderTypeInv
  <2> QED
    BY <2>1, <2>2, <2>3, <2>4 DEF OInv, RunningInv, Single
<1> QED
  BY <1>4, <1>5

LEMMA MovesStep ==
    ASSUME OInv, R!Cancel \/ R!Attempt \/ R!AttemptEnds \/ R!Finish PROVE OInv'
<1>1. order \in Orders /\ rec \in Records /\ (order.state = "Cancelling" => order.cancel)
  BY DEF OInv, OrderTypeInv, RunningInv, CancellingInv
<1>2. CASE R!Cancel
  <2>1. order' = [R!Bump(order) EXCEPT !.cancel = TRUE, !.state = "Cancelling"]
        /\ rec' = rec /\ UNCHANGED <<client, abandoned, crashes>>
    BY <1>2 DEF R!Cancel, R!Store
  <2> QED
    BY <1>1, <2>1, MoveStep DEF OrderStates
<1>3. CASE R!Attempt
  <2> DEFINE r == [state |-> "Running", attempt |-> rec.attempt + 1]
  <2>1. order' = [R!Bump(order) EXCEPT !.cancel = order.cancel, !.state = "Accepted"]
        /\ rec' = r /\ UNCHANGED <<client, abandoned, crashes>>
    BY <1>1, <1>3 DEF R!Attempt, R!Store, R!Bump, Orders
  <2>2. r \in Records /\ order.cancel \in BOOLEAN
    BY <1>1 DEF Records, RecordStates, Orders
  <2> HIDE DEF r
  <2> QED
    BY <2>1, <2>2, MoveStep DEF OrderStates
<1>4. CASE R!AttemptEnds
  <2>1. PICK s \in {"Unknown", "Succeeded", "Failed"} :
           R!Store([R!Bump(order) EXCEPT !.state = IF s = "Unknown" THEN "Blocked" ELSE @],
                   [rec EXCEPT !.state = s])
    BY <1>4 DEF R!AttemptEnds
  <2> DEFINE r == [state |-> s, attempt |-> rec.attempt]
             state == IF s = "Unknown" THEN "Blocked" ELSE order.state
  <2>2. order' = [R!Bump(order) EXCEPT !.cancel = order.cancel, !.state = state]
        /\ rec' = r /\ UNCHANGED <<client, abandoned, crashes>>
    BY <1>1, <1>4, <2>1 DEF R!AttemptEnds, R!Store, R!Bump, Orders, Records
  <2>3. /\ r \in Records /\ r.state # "Running" /\ state \in OrderStates /\ order.cancel \in BOOLEAN
        /\ state = "Cancelling" => order.cancel
    BY <1>1 DEF Records, RecordStates, Orders, OrderStates
  <2> HIDE DEF r, state
  <2> QED
    BY <2>2, <2>3, MoveStep
<1>5. CASE R!Finish
  <2> DEFINE state == IF rec.state = "Unknown" THEN "Blocked"
                      ELSE IF order.cancel THEN "Cancelled" ELSE rec.state
  <2>1. order' = [R!Bump(order) EXCEPT !.cancel = order.cancel, !.state = state]
        /\ rec' = rec /\ UNCHANGED <<client, abandoned, crashes>> /\ rec.state # "Running"
    BY <1>1, <1>5 DEF R!Finish, R!Store, R!Bump, Orders
  <2>2. state \in OrderStates /\ order.cancel \in BOOLEAN /\ state # "Cancelling"
    BY <1>1, <1>5 DEF R!Finish, Orders, Records, OrderStates, RecordStates
  <2> HIDE DEF state
  <2> QED
    BY <1>1, <2>1, <2>2, MoveStep
<1> QED
  BY <1>2, <1>3, <1>4, <1>5

-----------------------------------------------------------------------------
LEMMA OrderInit == ASSUME R!Init PROVE OInv
<1>1. <<>> \in Seq(Entries) /\ DOMAIN << >> = {}
  OBVIOUS
<1>2. order \in Orders /\ rec \in Records /\ order.audit = <<>>
  BY <1>1 DEF R!Init, Orders, Records, OrderStates, RecordStates
<1>3. client \in [Actors -> Clients] /\ \A a \in Actors : client[a].pc = "idle"
                                                    /\ client[a].got = R!none
  BY DEF R!Init, Clients
<1>4. abandoned = {} /\ crashes = 0 /\ rec.state = "Unknown"
  BY DEF R!Init
<1>5. OrderTypeInv
  BY <1>2, <1>3, <1>4 DEF OrderTypeInv
<1> QED
  BY <1>1, <1>2, <1>3, <1>4, <1>5
     DEF OInv, PlanInv, RunningInv, AnswerInv, Vouched, Single, CancellingInv, R!Init

LEMMA OrderNext == ASSUME OInv, [R!Next]_R!vars PROVE OInv'
<1>1. ASSUME NEW a \in Actors, R!Inspect(a) \/ R!Status(a) PROVE OInv'
  BY <1>1, LooksStep
<1>2. ASSUME NEW a \in Actors, R!Send(a) \/ R!ReadRun(a) \/ R!Commit(a) PROVE OInv'
  BY <1>2, SendStep, ReadRunStep, CommitStep
<1>3. ASSUME NEW a \in Actors, R!Reread(a) \/ R!Drop(a) PROVE OInv'
  BY <1>3, RereadStep, AbandonStep
<1>4. CASE UNCHANGED <<order, rec, client, abandoned, crashes>>
  <2>1. PlanInv'
    BY <1>4, PlansKept DEF OInv, PlanInv
  <2> QED
    BY <1>4, <2>1 DEF OInv, OrderTypeInv, RunningInv, AnswerInv, Single, Vouched
<1>5. CASE R!LateArrives \/ UNCHANGED R!vars
  BY <1>4, <1>5 DEF R!LateArrives, R!vars
<1>6. CASE R!Lands \/ R!LateCommit \/ R!Crash
  BY <1>6, LandsStep, LateStep, CrashStep
<1>7. CASE R!Cancel \/ R!Attempt \/ R!AttemptEnds \/ R!Finish
  BY <1>7, MovesStep
<1> QED
  BY <1>1, <1>2, <1>3, <1>5, <1>6, <1>7 DEF R!Next

(* A command is applied once and every answered receipt is audited. *)
THEOREM CommandsAreAppliedOnce == R!Spec => []AppliedOnce
  BY OrderInit, OrderNext, AuditProperties, PTL DEF R!Spec

(* An audit is a prefix of itself, and of itself with an entry more. *)
LEMMA AuditPrefix ==
    ASSUME NEW s \in Seq(Entries), NEW e \in Entries
    PROVE  R!IsPrefix(s, s) /\ R!IsPrefix(s, Append(s, e))
<1>1. Len(s) \in Nat /\ Len(Append(s, e)) = Len(s) + 1
  OBVIOUS
<1>2. SubSeq(s, 1, Len(s)) = [i \in 1..Len(s) |-> s[i]]
  BY <1>1
<1>3. SubSeq(Append(s, e), 1, Len(s)) = [i \in 1..Len(s) |-> s[i]]
  BY <1>1
<1> QED
  BY <1>1, <1>2, <1>3 DEF R!IsPrefix

(* What a step may do to the run: commit a plan made of it, or leave an      *)
(* unknown effect unknown, a confirmed one confirmed and the end the end.   *)
LEMMA OrderChanges ==
    ASSUME OInv, [R!Next]_R!vars
    PROVE  \/ \E n \in Plans : /\ Pending(n) /\ n.run.revision = order.revision + 1
                              /\ order' = n.run /\ rec' = n.rec
           \/ /\ rec.state \in {"Unknown", "Succeeded"} => rec' = rec
              /\ R!IsTerminal(order) => order'.state = order.state /\ rec' = rec
              /\ \/ order'.audit = order.audit
                 \/ order'.audit = Append(order.audit, [kind |-> "late"])
<1>1. /\ order \in Orders /\ rec \in Records
      /\ rec.state = "Running" => ~R!IsTerminal(order)
  BY DEF OInv, OrderTypeInv, RunningInv, R!IsTerminal
<1>2. CASE UNCHANGED <<order, rec>>
  BY <1>2
<1>3. ASSUME NEW a \in Actors, R!Commit(a), ~UNCHANGED <<order, rec>>
      PROVE  \E n \in Plans : /\ Pending(n) /\ n.run.revision = order.revision + 1
                             /\ order' = n.run /\ rec' = n.rec
  <2> DEFINE n == client[a].next
  <2>1. n \in Plans /\ Pending(n) /\ Plan(a, client[a])
    BY <1>3 DEF OInv, OrderTypeInv, PlanInv, R!Commit
  <2>2. order' = n.run /\ rec' = n.rec /\ order.revision = client[a].cmd.rev
    BY <1>3 DEF R!Commit, R!Store, R!Unchanged
  <2> QED
    BY <2>1, <2>2 DEF Plan
<1>4. CASE R!Lands /\ ~UNCHANGED <<order, rec>>
  BY <1>4 DEF R!Lands, R!Store, R!Unchanged, OInv, OrderTypeInv, PlanInv
<1>5. CASE R!LateCommit /\ ~UNCHANGED <<order, rec>>
  <2>1. /\ order' = [R!Bump(order) EXCEPT !.audit = Append(@, [kind |-> "late"])]
        /\ rec' = rec
    BY <1>5 DEF R!LateCommit, R!Store, R!Unchanged
  <2>2. order'.audit = Append(order.audit, [kind |-> "late"]) /\ order'.state = order.state
    BY <1>1, <2>1 DEF R!Bump, Orders
  <2> QED
    BY <2>1, <2>2
<1>6. CASE R!Cancel
  BY <1>1, <1>6 DEF R!Cancel, R!Store, R!Bump, Orders
<1>7. CASE R!Attempt
  BY <1>1, <1>7 DEF R!Attempt, R!Store, R!Bump, R!IsTerminal, Orders
<1>8. CASE R!AttemptEnds
  <2>1. order'.audit = order.audit
    BY <1>1, <1>8 DEF R!AttemptEnds, R!Store, R!Bump, Orders
  <2>2. rec.state = "Running"
    BY <1>8 DEF R!AttemptEnds
  <2> QED
    BY <1>1, <2>1, <2>2
<1>9. CASE R!Finish
  BY <1>1, <1>9 DEF R!Finish, R!Store, R!Bump, R!IsTerminal, Orders
<1>10. CASE R!Crash /\ ~UNCHANGED <<order, rec>>
  <2>1. rec.state = "Running" /\ order' = [R!Bump(order) EXCEPT !.state = "Blocked"]
    BY <1>10 DEF R!Crash
  <2>2. order'.audit = order.audit
    BY <1>1, <2>1 DEF R!Bump, Orders
  <2> QED
    BY <1>1, <2>1, <2>2
<1>11. ASSUME NEW a \in Actors,
              R!Inspect(a) \/ R!Status(a) \/ R!Send(a) \/ R!ReadRun(a) \/ R!Reread(a)
              \/ R!Drop(a)
       PROVE  UNCHANGED <<order, rec>>
  BY <1>11 DEF R!Inspect, R!Status, R!Send, R!ReadRun, R!Reread, R!Drop
<1>12. CASE R!LateArrives \/ UNCHANGED R!vars
  BY <1>12 DEF R!LateArrives, R!vars
<1> QED
  BY <1>2, <1>3, <1>4, <1>5, <1>6, <1>7, <1>8, <1>9, <1>10, <1>11, <1>12 DEF R!Next

(* The unknown effect is resolved by a commit that audits its attempt, and   *)
(* what was audited or confirmed stays.                                     *)
LEMMA ResolvedAndConfirmed ==
    ASSUME OInv, [R!Next]_R!vars
    PROVE  /\ rec.state = "Unknown" /\ rec'.state # "Unknown" =>
                 /\ Len(order'.audit) = Len(order.audit) + 1
                 /\ R!Last(order'.audit).kind = "resolution"
                 /\ R!Last(order'.audit).cmd.attempt = rec.attempt
           /\ R!IsPrefix(order.audit, order'.audit)
           /\ rec.state = "Succeeded" => rec' = rec
           /\ R!IsTerminal(order) => order'.state = order.state /\ rec' = rec
<1>1. order.audit \in Seq(Entries) /\ [kind |-> "late"] \in Entries
  BY DEF OInv, OrderTypeInv, Orders, Entries
<1>2. ASSUME NEW n \in Plans, Pending(n), n.run.revision = order.revision + 1,
             order' = n.run, rec' = n.rec
      PROVE  /\ order.state = "Blocked" /\ rec.state = "Unknown"
             /\ Len(order'.audit) = Len(order.audit) + 1
             /\ R!IsPrefix(order.audit, order'.audit)
             /\ R!Last(order'.audit).kind = "resolution"
             /\ R!Last(order'.audit).cmd.attempt = rec.attempt
  <2> DEFINE e == Added(n)
  <2>1. /\ order.state = "Blocked" /\ rec.state = "Unknown"
        /\ order'.audit = Append(order.audit, e) /\ e \in Entries
        /\ e.kind = "resolution" /\ e.cmd.attempt = rec.attempt
    BY <1>2, PlanCommits
  <2> HIDE DEF e
  <2>2. Len(order'.audit) = Len(order.audit) + 1 /\ order'.audit[Len(order.audit) + 1] = e
    BY <1>1, <2>1, AppendEntry
  <2> QED
    BY <1>1, <2>1, <2>2, AuditPrefix DEF R!Last
<1>3. order'.audit = order.audit \/ order'.audit = Append(order.audit, [kind |-> "late"])
      => R!IsPrefix(order.audit, order'.audit)
  BY <1>1, AuditPrefix
<1> QED
  BY <1>2, <1>3, OrderChanges DEF R!IsTerminal

(* A repeated command is answered its receipt. *)
LEMMA Repeated ==
    ASSUME OInv, [R!Next]_R!vars, NEW a \in Actors,
           client[a].pc \in {"read", "reread"}, client'[a].pc = "idle",
           ~R!Drop(a), crashes' = crashes
    PROVE  client'[a].got = R!ReceiptOf(a, R!Used(order, client[a].cmd.id))
<1> DEFINE used == R!Used(order, client[a].cmd.id)
<1>1. client \in [Actors -> Clients] /\ client[a] \in Clients /\ crashes \in Nat
  BY DEF OInv, OrderTypeInv
<1>2. ~R!Crash
  <2>1. R!Crash => crashes' = crashes + 1
    BY Zenon DEF R!Crash
  <2> QED
    BY <1>1, <2>1
<1>3. client'[a] # client[a]
  OBVIOUS
<1>4. ASSUME NEW got, R!Returns(a, got) PROVE client'[a].got = got
  BY <1>1, <1>4 DEF R!Returns, Clients
<1>5. CASE R!Reread(a)
  BY <1>4, <1>5 DEF R!Reread
<1>6. CASE R!ReadRun(a)
  <2>1. CASE used # {}
    BY <1>4, <1>6, <2>1 DEF R!ReadRun
  <2>2. CASE used = {}
    <3>1. ~R!Decide(a)
      BY <1>1 DEF R!Decide, Clients
    <3>2. R!Returns(a, R!none)
      BY <1>6, <2>2, <3>1 DEF R!ReadRun
    <3>3. R!ReceiptOf(a, used) = R!none
      BY <2>2 DEF R!ReceiptOf
    <3> QED
      BY <1>4, <3>2, <3>3
  <2> QED
    BY <2>1, <2>2
<1>7. ~(R!Inspect(a) \/ R!Status(a) \/ R!Send(a) \/ R!Commit(a))
  <2>1. ~R!Send(a) /\ ~R!Commit(a) /\ ~R!Inspect(a) /\ ~R!Status(a)
    BY DEF R!Send, R!Commit, R!Inspect, R!Status
  <2> QED
    BY <2>1
<1>8. ASSUME NEW b \in Actors, b # a,
             R!Inspect(b) \/ R!Status(b) \/ R!Send(b) \/ R!ReadRun(b) \/ R!Commit(b)
             \/ R!Reread(b) \/ R!Drop(b)
      PROVE  client'[a] = client[a]
  <2>1. CASE R!Inspect(b) \/ R!Status(b) \/ R!Send(b)
    BY <1>1, <1>8, <2>1 DEF R!Inspect, R!Status, R!Send
  <2>2. ASSUME NEW got, R!Returns(b, got) PROVE client'[a] = client[a]
    BY <1>1, <1>8, <2>2 DEF R!Returns
  <2>3. CASE R!Decide(b)
    BY <1>1, <1>8, <2>3 DEF R!Decide
  <2>4. CASE R!Commit(b)
    BY <1>1, <1>8, <2>2, <2>4 DEF R!Commit
  <2>5. CASE R!ReadRun(b) \/ R!Reread(b) \/ R!Drop(b)
    BY <2>2, <2>3, <2>5 DEF R!ReadRun, R!Reread, R!Drop
  <2> QED
    BY <1>8, <2>1, <2>4, <2>5
<1>9. ~(R!Lands \/ R!LateArrives \/ R!LateCommit \/ R!Cancel \/ R!Attempt \/ R!AttemptEnds
        \/ R!Finish \/ UNCHANGED R!vars)
  BY <1>3 DEF R!Lands, R!LateArrives, R!LateCommit, R!Cancel, R!Attempt, R!AttemptEnds,
              R!Finish, R!vars
<1> QED
  BY <1>2, <1>3, <1>5, <1>6, <1>7, <1>8, <1>9 DEF R!Next

(* Commands resolve what was observed, repetitions are answered, and what    *)
(* was confirmed stays.                                                     *)
THEOREM CommandsResolveWhatWasObserved == R!Spec => ResolvesWhatWasObserved
<1> DEFINE Resolved == rec.state = "Unknown" /\ rec'.state # "Unknown" =>
                 /\ Len(order'.audit) = Len(order.audit) + 1
                 /\ R!Last(order'.audit).kind = "resolution"
                 /\ R!Last(order'.audit).cmd.attempt = rec.attempt
           Answered == \A a \in DOMAIN client :
                 /\ client[a].pc \in {"read", "reread"} /\ client'[a].pc = "idle"
                 /\ ~R!Drop(a) /\ crashes' = crashes
                 => client'[a].got = R!ReceiptOf(a, R!Used(order, client[a].cmd.id))
           Confirmed ==
                 /\ R!IsPrefix(order.audit, order'.audit)
                 /\ rec.state = "Succeeded" => rec' = rec
                 /\ R!IsTerminal(order) => order'.state = order.state /\ rec' = rec
<1>1. OInv /\ [R!Next]_R!vars => Resolved /\ Answered /\ Confirmed
  <2>1. OInv => DOMAIN client = Actors
    BY DEF OInv, OrderTypeInv
  <2> QED
    BY <2>1, ResolvedAndConfirmed, Repeated
<1>2. ResolvesWhatWasObserved <=>
         [][Resolved]_R!vars /\ [][Answered]_R!vars /\ [][Confirmed]_R!vars
  BY DEF ResolvesWhatWasObserved, R!ResolvesWhatWasObserved, R!RepeatReturnsReceipt,
         R!ConfirmedStays
<1> HIDE DEF Resolved, Answered, Confirmed
<1> QED
  BY <1>1, <1>2, OrderInit, OrderNext, PTL DEF R!Spec
=============================================================================
