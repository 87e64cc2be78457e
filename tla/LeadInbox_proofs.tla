-------------------------- MODULE LeadInbox_proofs --------------------------
(***************************************************************************)
(* What TLAPS proves of LeadInbox, for every set of messages, coroutines,  *)
(* worker processes and connections.                                       *)
(*                                                                         *)
(* However the pools shuffle connections: the types, and that two turns of *)
(* one lead never overlap (TurnMutex).  Neither is inductive.  A job       *)
(* appends the connection it holds to a pool, so the types need that a job *)
(* that has begun holds one (Busy); and the transaction-level lock, which  *)
(* names a connection, excludes only as far as no two coroutines ever hold *)
(* the same one (Exclusive).                                               *)
(*                                                                         *)
(* However many jobs drain the queue at once: the path implements          *)
(* InboxPromise, and a text that is folded into another message was read   *)
(* with it.  Neither rests on a lock: the first on the row a job works on  *)
(* being stored (HeadStored), the second on what each job has in memory    *)
(* (TurnText, TurnRead) while others write the rows.  That one job at a    *)
(* time drains the queue is refuted (LeadInbox_shared_pool).               *)
(***************************************************************************)
EXTENDS LeadInbox, SequenceTheorems, FiniteSetTheorems, TLAPS

\* A job that has begun holds a connection.
Busy == \A s \in Slot : pc[s] # "idle" => conn[s] \in Conn

\* A connection has one holder or one place in one pool.
HeldOnce == \A j, k \in Coroutine : conn[j] \in Conn /\ conn[j] = conn[k] => j = k
IdleNotHeld == \A w \in Worker : \A i \in DOMAIN idle[w] : \A k \in Coroutine : idle[w][i] # conn[k]
IdleOnce == \A v, w \in Worker : \A i \in DOMAIN idle[v] : \A j \in DOMAIN idle[w] :
              idle[v][i] = idle[w][j] => v = w /\ i = j
Exclusive == HeldOnce /\ IdleNotHeld /\ IdleOnce

\* The job in a turn holds the transaction-level lock.
TurnHoldsLock == \A s \in Slot : InTurn(s) => xact = conn[s]

\* The except clauses run on a messaging error.
Handling == \A s \in Slot : pc[s] = "handle" => result[s] \in {"unreachable", "messaging"}

TypeInv == TypeOK /\ Busy /\ Handling
TurnInv == TypeInv /\ Exclusive /\ TurnHoldsLock

-----------------------------------------------------------------------------
(* The pool's three operations keep its bookkeeping. *)

\* What the pools hold has the right type.
PoolTyped == conn \in [Coroutine -> Conn \cup {NoConn}] /\ idle \in [Worker -> Seq(Conn)]

LEMMA CheckoutTyped ==
  ASSUME PoolTyped, NEW k \in Coroutine, Checkout(k)
  PROVE  PoolTyped' /\ \E c \in Conn : conn' = [conn EXCEPT ![k] = c]
<1> DEFINE w == WorkerOf[k]
<1>1. w \in Worker /\ idle[w] \in Seq(Conn) BY PoolAssumption DEF PoolTyped
<1>2. CASE idle[w] # <<>>
  <2>1. Head(idle[w]) \in Conn /\ Tail(idle[w]) \in Seq(Conn) BY <1>1, <1>2, HeadTailProperties
  <2> QED BY <1>1, <1>2, <2>1 DEF PoolTyped, Checkout
<1>3. CASE idle[w] = <<>>
  BY <1>3 DEF PoolTyped, Checkout, Unopened
<1> QED BY <1>2, <1>3

LEMMA GiveBackTyped ==
  ASSUME PoolTyped, NEW k \in Coroutine, conn[k] \in Conn, GiveBack(k)
  PROVE  PoolTyped' /\ conn' = [conn EXCEPT ![k] = NoConn]
<1> DEFINE w == WorkerOf[k]
<1>1. w \in Worker /\ idle[w] \in Seq(Conn) BY PoolAssumption DEF PoolTyped
<1>2. Append(idle[w], conn[k]) \in Seq(Conn) BY <1>1, AppendProperties
<1> QED BY <1>1, <1>2 DEF PoolTyped, GiveBack

LEMMA RecycleTyped ==
  ASSUME PoolTyped, NEW k \in Coroutine, conn[k] \in Conn, Recycle(k)
  PROVE  PoolTyped' /\ \E c \in Conn : conn' = [conn EXCEPT ![k] = c]
<1> DEFINE w == WorkerOf[k]
<1>1. w \in Worker /\ idle[w] \in Seq(Conn) BY PoolAssumption DEF PoolTyped
<1>2. CASE idle[w] # <<>>
  <2>1. Head(idle[w]) \in Conn /\ Tail(idle[w]) \in Seq(Conn) BY <1>1, <1>2, HeadTailProperties
  <2>2. Append(Tail(idle[w]), conn[k]) \in Seq(Conn) BY <2>1, AppendProperties
  <2> QED BY <1>1, <1>2, <2>1, <2>2 DEF PoolTyped, Recycle
<1>3. CASE idle[w] = <<>>
  <2>1. conn' = [conn EXCEPT ![k] = conn[k]] /\ idle' = idle
    BY <1>3 DEF PoolTyped, Recycle
  <2> QED BY <2>1 DEF PoolTyped
<1> QED BY <1>2, <1>3

-----------------------------------------------------------------------------
(* Types. *)

LEMMA FlushTyped ==
  ASSUME TypeOK, NEW s \in Slot, FlushText(s) PROVE text' \in [Msg -> SUBSET Msg]
BY DEF TypeOK, FlushText

LEMMA TypeInvInit == Init => TypeInv
BY LeadAssumption, EmptySeq DEF Init, TypeInv, TypeOK, Busy, Handling, Coroutine, RowStatus, Detail, Stage, Result

LEMMA TypeInvStep == TypeInv /\ [Next]_vars => TypeInv'
<1> SUFFICES ASSUME TypeInv, [Next]_vars PROVE TypeInv' OBVIOUS
<1> USE DEF TypeInv, TypeOK, Busy, Handling, Coroutine
<1>0. PoolTyped BY DEF PoolTyped
<1>1. ASSUME NEW S \in SUBSET Msg, Ingest(S) PROVE TypeInv'
  BY <1>1 DEF Ingest, RowStatus, rows, queue, locks, turn
<1>2. CASE AssignLead
  BY <1>2 DEF AssignLead, locks, rows, queue, turn
<1>3. CASE EnqueueJob
  BY <1>3 DEF EnqueueJob, locks, rows, queue, turn
<1>4. CASE LoseEnqueue
  BY <1>4 DEF LoseEnqueue, Inject, locks, rows, queue, turn
<1>5. ASSUME NEW s \in Slot, StartJob(s) PROVE TypeInv'
  <2>2. PoolTyped' /\ \E c \in Conn : conn' = [conn EXCEPT ![s] = c]
    BY <1>0, <1>5, CheckoutTyped DEF StartJob, Coroutine
  <2> QED BY <1>5, <2>2 DEF StartJob, Stage, Goto, rows, queue, turn, PoolTyped
<1>6. ASSUME NEW s \in Slot, TryLock(s) PROVE TypeInv'
  <2>1. conn[s] \in Conn BY <1>6 DEF TryLock, Goto
  <2>2. pc' \in [Coroutine -> Stage] /\ \A t \in Slot : t # s => pc'[t] = pc[t]
    BY <1>6 DEF TryLock, Goto, Stage
  <2>3. pc'[s] \in {"load", "close"} BY <1>6 DEF TryLock, Goto
  <2>4. sess' \in [Conn -> Nat]
    <3>1. sess' = sess \/ sess' = [sess EXCEPT ![conn[s]] = sess[conn[s]] + 1] BY <1>6 DEF TryLock
    <3>2. sess \in [Conn -> Nat] /\ sess[conn[s]] + 1 \in Nat BY <2>1
    <3> QED BY <3>1, <3>2
  <2> QED BY <1>6, <2>1, <2>2, <2>3, <2>4 DEF TryLock, rows, queue, turn
<1>7. ASSUME NEW s \in Slot, LoadLead(s) PROVE TypeInv'
  <2>1. conn[s] \in Conn BY <1>7 DEF LoadLead, Goto
  <2>2. CASE Recycle(s)
    <3>1. PoolTyped' /\ \E c \in Conn : conn' = [conn EXCEPT ![s] = c]
      BY <1>0, <2>1, <2>2, RecycleTyped DEF Coroutine
    <3> QED BY <1>7, <3>1 DEF LoadLead, Stage, Goto, rows, queue, turn, PoolTyped
  <2>3. CASE UNCHANGED <<conn, idle>>
    BY <1>7, <2>1, <2>3 DEF LoadLead, Stage, Goto, rows, queue, turn, Coroutine
  <2> QED BY <1>7, <2>2, <2>3 DEF LoadLead
<1>8. ASSUME NEW s \in Slot, SkipQueued(s) PROVE TypeInv'
  <2>1. conn[s] \in Conn BY <1>8 DEF SkipQueued, Goto
  <2>2. PoolTyped' /\ \E c \in Conn : conn' = [conn EXCEPT ![s] = c]
    BY <1>0, <1>8, <2>1, RecycleTyped DEF SkipQueued, Coroutine
  <2> QED BY <1>8, <2>2 DEF SkipQueued, Stage, Goto, Inject, RowStatus, Detail, rows, queue, turn, PoolTyped
<1>9. ASSUME NEW s \in Slot, Unlock(s) PROVE TypeInv'
  BY <1>9 DEF Unlock, Stage, Goto, rows, queue, turn
<1>10. ASSUME NEW s \in Slot, CloseSession(s) PROVE TypeInv'
  <2>1. conn[s] \in Conn BY <1>10 DEF CloseSession, Goto
  <2>2. PoolTyped' /\ conn' = [conn EXCEPT ![s] = NoConn]
    BY <1>0, <1>10, <2>1, GiveBackTyped DEF CloseSession, Coroutine
  <2> QED BY <1>10, <2>2 DEF CloseSession, Stage, Goto, Result, rows, queue, turn, PoolTyped
<1>11. ASSUME NEW s \in Slot, FetchNext(s) PROVE TypeInv'
  <2>1. conn[s] \in Conn BY <1>11 DEF FetchNext, Goto
  <2>2. pc' \in [Coroutine -> Stage] /\ (\A t \in Slot : t # s => pc'[t] = pc[t])
    <3>1. pc' = [pc EXCEPT ![s] = "window"] \/ pc' = [pc EXCEPT ![s] = "unlock"]
      BY <1>11 DEF FetchNext, Goto
    <3> QED BY <3>1 DEF Stage
  <2>3. pc'[s] \in {"window", "unlock"} BY <1>11 DEF FetchNext, Goto
  <2>4. /\ head' \in [Slot -> Msg \cup {NoMsg}]
        /\ body' \in [Slot -> SUBSET Msg]
        /\ orig' \in [Slot -> SUBSET Msg]
    <3>1. CASE UNCHANGED <<head, body, orig>> BY <3>1
    <3>2. ASSUME NEW h \in Msg, head' = [head EXCEPT ![s] = h],
                 body' = [body EXCEPT ![s] = text[h]], orig' = [orig EXCEPT ![s] = text[h]]
          PROVE  <2>4!:
      BY <3>2
    <3> QED BY <1>11, <3>1, <3>2 DEF FetchNext, Queued
  <2>5. PoolTyped' /\ \E c \in Conn : conn' = [conn EXCEPT ![s] = c]
    <3>1. CASE Recycle(s) BY <1>0, <2>1, <3>1, RecycleTyped
    <3>2. CASE UNCHANGED <<conn, idle>>
      <4>1. conn' = [conn EXCEPT ![s] = conn[s]] BY <3>2
      <4> QED BY <1>0, <2>1, <3>2, <4>1 DEF PoolTyped
    <3> QED BY <1>11, <3>1, <3>2 DEF FetchNext
  <2> QED BY <1>11, <2>2, <2>3, <2>4, <2>5 DEF FetchNext, PoolTyped, rows, queue
<1>12. ASSUME NEW s \in Slot, LockWindow(s) PROVE TypeInv'
  BY <1>12 DEF LockWindow, Consolidated, Companions, Queued, Words, Stage, Goto, locks, rows, queue, turn
<1>13. ASSUME NEW s \in Slot, RejectAudio(s) PROVE TypeInv'
  <2>1. conn[s] \in Conn BY <1>13 DEF RejectAudio, Goto
  <2>2. PoolTyped' /\ \E c \in Conn : conn' = [conn EXCEPT ![s] = c]
    BY <1>0, <1>13, <2>1, RecycleTyped DEF RejectAudio, Coroutine
  <2>3. text' \in [Msg -> SUBSET Msg] BY <1>13, FlushTyped DEF RejectAudio
  <2> QED BY <1>13, <2>2, <2>3 DEF RejectAudio, FreeRows, RowStatus, Detail, Stage, Goto, rows, queue, turn, PoolTyped
<1>14. ASSUME NEW s \in Slot, Preprocess(s) PROVE TypeInv'
  <2>1. conn[s] \in Conn BY <1>14 DEF Preprocess, Goto
  <2>2. pc' \in [Coroutine -> Stage] /\ (\A t \in Slot : t # s => pc'[t] = pc[t])
    BY <1>14 DEF Preprocess, Goto, Stage
  <2>3. pc'[s] \in {"settle", "await"} BY <1>14 DEF Preprocess, Goto
  <2>6. text' \in [Msg -> SUBSET Msg] BY <1>14, FlushTyped DEF Preprocess
  <2>4. /\ heard' \subseteq Audio
        /\ rowLock' \in [Msg -> Slot \cup {NoConn}]
        /\ result' \in [Slot -> Result]
        /\ \A t \in Slot : t # s => result'[t] = result[t]
    BY <1>14 DEF Preprocess, FreeRows, Result
  <2>5. PoolTyped' /\ \E c \in Conn : conn' = [conn EXCEPT ![s] = c]
    <3>1. CASE Recycle(s) BY <1>0, <2>1, <3>1, RecycleTyped
    <3>2. CASE UNCHANGED <<conn, idle>>
      <4>1. conn' = [conn EXCEPT ![s] = conn[s]] BY <3>2
      <4> QED BY <1>0, <2>1, <3>2, <4>1 DEF PoolTyped
    <3> QED BY <1>14, <3>1, <3>2 DEF Preprocess
  <2>7. read' \subseteq Msg BY <1>14, MsgAssumption DEF Preprocess, Inbound
  <2> QED BY <1>14, <2>2, <2>3, <2>4, <2>5, <2>6, <2>7 DEF Preprocess, PoolTyped, queue
<1>15. ASSUME NEW s \in Slot, AcquireTurnLock(s) PROVE TypeInv'
  BY <1>15 DEF AcquireTurnLock, Stage, Goto, rows, queue, turn
<1>16. ASSUME NEW s \in Slot, Timeout(s) PROVE TypeInv'
  <2>1. conn[s] \in Conn BY <1>16 DEF Timeout, Goto
  <2>2. PoolTyped' /\ \E c \in Conn : conn' = [conn EXCEPT ![s] = c]
    BY <1>0, <1>16, <2>1, RecycleTyped DEF Timeout, Coroutine
  <2>3. pc' \in [Coroutine -> Stage] /\ pc' = [pc EXCEPT ![s] = "unlock"]
    BY <1>16 DEF Timeout, Goto, Stage
  <2> QED BY <1>16, <2>2, <2>3 DEF Timeout, rows, queue, turn, PoolTyped
<1>17. ASSUME NEW s \in Slot, Decide(s) PROVE TypeInv'
  <2>1. pc' \in [Coroutine -> Stage] /\ \E at \in {"commit", "send"} : pc' = [pc EXCEPT ![s] = at]
    BY <1>17 DEF Decide, Goto, Stage
  <2>2. result' \in [Slot -> Result] /\ \E r \in Result : result' = [result EXCEPT ![s] = r]
    BY <1>17 DEF Decide, Result
  <2>3. UNCHANGED <<status, detail, text, heard, rowLock, leadStatus, toEnqueue, jobs, conn,
                    idle, sess, xact, head, extras, body, orig, read, faults>>
    BY <1>17 DEF Decide, locks, rows, queue
  <2>4. Busy' BY <1>17, <2>1, <2>3 DEF Decide, Goto
  <2>5. Handling' BY <2>1, <2>2
  <2>6. TypeOK' BY <2>1, <2>2, <2>3
  <2> QED BY <2>4, <2>5, <2>6
<1>18. ASSUME NEW s \in Slot, Fail(s) PROVE TypeInv'
  <2>1. conn[s] \in Conn BY <1>18 DEF Fail, Goto
  <2>2. PoolTyped' /\ \E c \in Conn : conn' = [conn EXCEPT ![s] = c]
    BY <1>0, <1>18, <2>1, RecycleTyped DEF Fail
  <2>3. pc' \in [Coroutine -> Stage] /\ pc' = [pc EXCEPT ![s] = "unlock"]
    BY <1>18 DEF Fail, Goto, Stage
  <2>4. rowLock' \in [Msg -> Slot \cup {NoConn}] /\ xact' \in Conn \cup {NoConn} /\ faults' \in Nat
    BY <1>18 DEF Fail, FreeRows, EndTurn, Inject
  <2> QED BY <1>18, <2>2, <2>3, <2>4 DEF Fail, PoolTyped, queue, turn
<1>19. ASSUME NEW s \in Slot, SendReply(s) PROVE TypeInv'
  BY <1>19 DEF SendReply, Stage, Goto, locks, rows, queue, turn
<1>20. ASSUME NEW s \in Slot, SendFails(s) PROVE TypeInv'
  <2>1. conn[s] \in Conn BY <1>20 DEF SendFails, Goto
  <2>2. PoolTyped' /\ \E c \in Conn : conn' = [conn EXCEPT ![s] = c]
    BY <1>0, <1>20, <2>1, RecycleTyped DEF SendFails, Coroutine
  <2>3. pc' \in [Coroutine -> Stage] /\ \E at \in {"unlock", "handle"} : pc' = [pc EXCEPT ![s] = at]
    <3>1. PICK at \in {"unlock", "handle"} : Goto(s, "send", at)
      BY <1>20, FaultAssumption, Zenon DEF SendFails
    <3>2. pc' = [pc EXCEPT ![s] = at] /\ at \in Stage BY <3>1 DEF Goto, Stage
    <3> QED BY <3>2
  <2>4. \E e \in {"unreachable", "messaging"} : result' = [result EXCEPT ![s] = e] /\ Inject(e)
    BY <1>20 DEF SendFails
  <2>5. xact' \in Conn \cup {NoConn} BY <1>20 DEF SendFails, EndTurn
  <2> QED BY <1>20, <2>2, <2>3, <2>4, <2>5 DEF SendFails, Inject, Result, rows, queue, PoolTyped
<1>21. ASSUME NEW s \in Slot, HandleError(s) PROVE TypeInv'
  <2>1. conn[s] \in Conn BY <1>21 DEF HandleError, Goto
  <2>2. PoolTyped' /\ \E c \in Conn : conn' = [conn EXCEPT ![s] = c]
    BY <1>0, <1>21, <2>1, RecycleTyped DEF HandleError, Coroutine
  <2> QED BY <1>21, <2>2 DEF HandleError, RowStatus, Detail, Result, Stage, Goto, rows, queue, turn, PoolTyped
<1>22. ASSUME NEW s \in Slot, CommitTurn(s) PROVE TypeInv'
  <2>1. conn[s] \in Conn BY <1>22 DEF CommitTurn, Goto
  <2>2. PoolTyped' /\ \E c \in Conn : conn' = [conn EXCEPT ![s] = c]
    BY <1>0, <1>22, <2>1, RecycleTyped DEF CommitTurn, Coroutine
  <2> QED BY <1>22, <2>2 DEF CommitTurn, EndTurn, Stage, Goto, rows, queue, turn, PoolTyped
<1>23. ASSUME NEW s \in Slot, Settle(s) PROVE TypeInv'
  <2>1. conn[s] \in Conn BY <1>23 DEF Settle, SettleRows, Goto
  <2>2. PoolTyped' /\ \E c \in Conn : conn' = [conn EXCEPT ![s] = c]
    BY <1>0, <1>23, <2>1, RecycleTyped DEF Settle, SettleRows, Coroutine
  <2>3. text' \in [Msg -> SUBSET Msg] BY <1>23, FlushTyped DEF Settle, SettleRows
  <2> QED BY <1>23, <2>2, <2>3 DEF Settle, SettleRows, FreeRows, RowStatus, Detail, Result, Stage, Goto, rows, queue, turn, PoolTyped
<1>24. ASSUME NEW g \in Guest, GuestBegins(g) PROVE TypeInv'
  <2>1. PoolTyped' /\ \E c \in Conn : conn' = [conn EXCEPT ![g] = c]
    BY <1>0, <1>24, CheckoutTyped DEF GuestBegins
  <2> QED BY <1>24, <2>1, PoolAssumption DEF GuestBegins, PoolTyped, rows, queue, turn
<1>25. ASSUME NEW g \in Guest, GuestEnds(g) PROVE TypeInv'
  <2>1. conn[g] \in Conn BY <1>25 DEF GuestEnds
  <2>2. PoolTyped' /\ conn' = [conn EXCEPT ![g] = NoConn]
    BY <1>0, <1>25, <2>1, GiveBackTyped DEF GuestEnds
  <2> QED BY <1>25, <2>2, PoolAssumption DEF GuestEnds, PoolTyped, rows, queue, turn
<1>26. ASSUME NEW w \in Worker, Crash(w) PROVE TypeInv'
  <2> DEFINE dead == {k \in Coroutine : WorkerOf[k] = w}
             rerun == {s \in Slot \cap dead : pc[s] # "idle"}
  <2>1. jobs' \in Nat
    <3>1. IsFiniteSet(rerun) BY PoolAssumption, FS_Subset
    <3>2. Cardinality(rerun) \in Nat BY <3>1, FS_CardinalityType
    <3> QED BY <1>26, <3>2 DEF Crash
  <2>2. pc' \in [Coroutine -> Stage] /\ PoolTyped'
    <3>1. <<>> \in Seq(Conn) BY EmptySeq
    <3> QED BY <1>26, <3>1 DEF Crash, PoolTyped, Stage
  <2>3. rowLock' \in [Msg -> Slot \cup {NoConn}] /\ xact' \in Conn \cup {NoConn}
         /\ sess' \in [Conn -> Nat] /\ faults' \in Nat
    BY <1>26 DEF Crash, Inject
  <2>4. /\ head' \in [Slot -> Msg \cup {NoMsg}] /\ extras' \in [Slot -> SUBSET Msg]
        /\ body' \in [Slot -> SUBSET Msg] /\ orig' \in [Slot -> SUBSET Msg]
        /\ result' \in [Slot -> Result]
    BY <1>26 DEF Crash, Result
  <2>5. Busy' /\ Handling' BY <1>26 DEF Crash
  <2> QED BY <1>26, <2>1, <2>2, <2>3, <2>4, <2>5 DEF Crash, PoolTyped
<1>27. CASE UNCHANGED vars
  BY <1>27 DEF vars, rows, queue, locks, turn
<1> QED
  BY <1>1, <1>2, <1>3, <1>4, <1>5, <1>6, <1>7, <1>8, <1>9, <1>10, <1>11, <1>12, <1>13, <1>14,
     <1>15, <1>16, <1>17, <1>18, <1>19, <1>20, <1>21, <1>22, <1>23, <1>24, <1>25, <1>26, <1>27
  DEF Next, JobStep

\* The variables of the inbound path keep their types in every behaviour.
THEOREM Types == Spec => []TypeOK
<1>1. Init => TypeInv BY TypeInvInit
<1>2. TypeInv /\ [Next]_vars => TypeInv' BY TypeInvStep
<1>3. TypeInv => TypeOK BY DEF TypeInv
<1> QED BY <1>1, <1>2, <1>3, PTL DEF Spec

-----------------------------------------------------------------------------
(* Every connection stays in one place. *)

LEMMA CheckoutExclusive ==
  ASSUME PoolTyped, Exclusive, NEW k \in Coroutine, Checkout(k)
  PROVE  Exclusive'
<1> DEFINE w == WorkerOf[k]
<1>1. w \in Worker /\ idle[w] \in Seq(Conn) BY PoolAssumption DEF PoolTyped
<1> USE DEF Exclusive, HeldOnce, IdleNotHeld, IdleOnce
<1>2. CASE idle[w] # <<>>
  <2>1. /\ Head(idle[w]) = idle[w][1] /\ 1 \in DOMAIN idle[w]
        /\ DOMAIN Tail(idle[w]) = 1 .. Len(idle[w]) - 1
        /\ DOMAIN idle[w] = 1 .. Len(idle[w]) /\ Len(idle[w]) \in Nat
        /\ \A i \in DOMAIN Tail(idle[w]) : Tail(idle[w])[i] = idle[w][i + 1]
    BY <1>1, <1>2, HeadTailProperties, LenProperties, EmptySeq
  <2>2. /\ conn' = [conn EXCEPT ![k] = idle[w][1]]
        /\ idle' = [idle EXCEPT ![w] = Tail(idle[w])]
    BY <1>1, <1>2, <2>1 DEF Checkout, PoolTyped
  <2>3. \A v \in Worker : \A i \in DOMAIN idle'[v] :
          \E j \in DOMAIN idle[v] : idle'[v][i] = idle[v][j] /\ (v = w => j = i + 1) /\ (v # w => j = i)
    BY <1>1, <2>1, <2>2 DEF PoolTyped
  <2>4. HeldOnce' BY <1>1, <2>1, <2>2 DEF PoolTyped
  <2>5. IdleNotHeld'
    <3> SUFFICES ASSUME NEW v \in Worker, NEW i \in DOMAIN idle'[v], NEW j \in Coroutine
                 PROVE  idle'[v][i] # conn'[j]
      OBVIOUS
    <3>1. PICK n \in DOMAIN idle[v] : idle'[v][i] = idle[v][n] /\ (v = w => n = i + 1)
      BY <2>3
    <3>2. v = w => i # 0 BY <1>1, <2>1, <2>2 DEF PoolTyped
    <3>3. CASE j = k BY <1>1, <2>1, <2>2, <3>1, <3>2, <3>3 DEF PoolTyped
    <3>4. CASE j # k BY <2>2, <3>1, <3>4 DEF PoolTyped
    <3> QED BY <3>3, <3>4
  <2>6. IdleOnce'
    <3> SUFFICES ASSUME NEW u \in Worker, NEW v \in Worker, NEW i \in DOMAIN idle'[u],
                        NEW j \in DOMAIN idle'[v], idle'[u][i] = idle'[v][j]
                 PROVE  u = v /\ i = j
      OBVIOUS
    <3>1. PICK m \in DOMAIN idle[u] : idle'[u][i] = idle[u][m] /\ (u = w => m = i + 1) /\ (u # w => m = i)
      BY <2>3
    <3>2. PICK n \in DOMAIN idle[v] : idle'[v][j] = idle[v][n] /\ (v = w => n = j + 1) /\ (v # w => n = j)
      BY <2>3
    <3>3. u = v /\ m = n
      <4>1. idle[u][m] = idle[v][n] BY <3>1, <3>2
      <4> QED BY <4>1
    <3>4. u = w => i \in Int /\ j \in Int BY <1>1, <2>1, <2>2, <3>3 DEF PoolTyped
    <3> QED BY <3>1, <3>2, <3>3, <3>4
  <2> QED BY <2>4, <2>5, <2>6
<1>3. CASE idle[w] = <<>>
  <2>1. PICK c \in Unopened : conn' = [conn EXCEPT ![k] = c] BY <1>3 DEF Checkout
  <2>2. idle' = idle BY <1>3 DEF Checkout
  <2>3. /\ \A j \in Coroutine : conn[j] # c
        /\ \A v \in Worker : \A i \in DOMAIN idle[v] : idle[v][i] # c
    BY DEF Unopened
  <2>4. HeldOnce' BY <2>1, <2>3 DEF PoolTyped
  <2>5. IdleNotHeld' BY <2>1, <2>2, <2>3 DEF PoolTyped
  <2>6. IdleOnce' BY <2>2
  <2> QED BY <2>4, <2>5, <2>6
<1> QED BY <1>2, <1>3

LEMMA GiveBackExclusive ==
  ASSUME PoolTyped, Exclusive, NEW k \in Coroutine, conn[k] \in Conn, GiveBack(k)
  PROVE  Exclusive'
<1> DEFINE w == WorkerOf[k]
<1>1. w \in Worker /\ idle[w] \in Seq(Conn) BY PoolAssumption DEF PoolTyped
<1> USE DEF Exclusive, HeldOnce, IdleNotHeld, IdleOnce
<1> DEFINE n == Len(idle[w])
<1>2. /\ n \in Nat /\ DOMAIN idle[w] = 1 .. n
      /\ idle'[w] = Append(idle[w], conn[k]) /\ DOMAIN idle'[w] = 1 .. n + 1
      /\ \A i \in 1 .. n : idle'[w][i] = idle[w][i]
      /\ idle'[w][n + 1] = conn[k]
      /\ \A v \in Worker \ {w} : idle'[v] = idle[v]
  BY <1>1, AppendProperties, LenProperties DEF GiveBack, PoolTyped
<1>3. conn' = [conn EXCEPT ![k] = NoConn] BY DEF GiveBack
<1>4. \A v \in Worker : \A i \in DOMAIN idle'[v] :
        \/ v = w /\ i = n + 1 /\ idle'[v][i] = conn[k]
        \/ i \in DOMAIN idle[v] /\ idle'[v][i] = idle[v][i]
  <2> SUFFICES ASSUME NEW v \in Worker, NEW i \in DOMAIN idle'[v]
               PROVE  \/ v = w /\ i = n + 1 /\ idle'[v][i] = conn[k]
                      \/ i \in DOMAIN idle[v] /\ idle'[v][i] = idle[v][i]
    OBVIOUS
  <2>1. CASE v # w
    <3>1. idle'[v] = idle[v] BY <1>2, <2>1
    <3> QED BY <3>1
  <2>2. CASE v = w
    <3> HIDE DEF n
    <3>1. i = n + 1 \/ i \in 1 .. n BY <1>2, <2>2
    <3> QED BY <1>2, <2>2, <3>1
  <2> QED BY <2>1, <2>2
<1>5. HeldOnce' BY <1>3, PoolAssumption DEF PoolTyped
<1>6. \A v \in Worker : \A i \in DOMAIN idle'[v] : idle'[v][i] \in Conn
  BY GiveBackTyped, ElementOfSeq DEF PoolTyped
<1>7. IdleNotHeld' BY <1>3, <1>4, <1>6, PoolAssumption DEF PoolTyped
<1>8. IdleOnce' BY <1>4
<1> QED BY <1>5, <1>7, <1>8

\* A commit is a return to the pool and a checkout from what is left of it.
LEMMA RecycleExclusive ==
  ASSUME PoolTyped, Exclusive, NEW k \in Coroutine, conn[k] \in Conn, Recycle(k)
  PROVE  Exclusive'
<1> DEFINE w == WorkerOf[k]
<1>1. w \in Worker /\ idle[w] \in Seq(Conn) BY PoolAssumption DEF PoolTyped
<1> USE DEF Exclusive, HeldOnce, IdleNotHeld, IdleOnce
<1>2. CASE idle[w] # <<>>
  <2> DEFINE n == Len(idle[w])
  <2>1. /\ n \in Nat \ {0} /\ DOMAIN idle[w] = 1 .. n
        /\ Head(idle[w]) = idle[w][1] /\ Tail(idle[w]) \in Seq(Conn)
        /\ Len(Tail(idle[w])) = n - 1
        /\ \A i \in 1 .. n - 1 : Tail(idle[w])[i] = idle[w][i + 1]
    BY <1>1, <1>2, HeadTailProperties, LenProperties, EmptySeq
  <2>2. /\ idle'[w] = Append(Tail(idle[w]), conn[k]) /\ DOMAIN idle'[w] = 1 .. n
        /\ \A i \in 1 .. n - 1 : idle'[w][i] = idle[w][i + 1]
        /\ idle'[w][n] = conn[k]
        /\ \A v \in Worker \ {w} : idle'[v] = idle[v]
        /\ conn' = [conn EXCEPT ![k] = idle[w][1]]
    <3> DEFINE q == Tail(idle[w])
    <3>1. /\ Append(q, conn[k])[n] = conn[k] /\ DOMAIN Append(q, conn[k]) = 1 .. n
          /\ \A i \in 1 .. n - 1 : Append(q, conn[k])[i] = q[i]
      <4>1. /\ Append(q, conn[k]) \in Seq(Conn) /\ Len(Append(q, conn[k])) = n
            /\ Append(q, conn[k])[n] = conn[k]
            /\ \A i \in 1 .. n - 1 : Append(q, conn[k])[i] = q[i]
        BY <2>1, AppendProperties
      <4> QED BY <4>1, LenProperties
    <3>2. /\ idle' = [idle EXCEPT ![w] = Append(q, conn[k])]
          /\ conn' = [conn EXCEPT ![k] = idle[w][1]]
      BY <1>2, <2>1 DEF Recycle
    <3>3. idle'[w] = Append(q, conn[k]) /\ \A v \in Worker \ {w} : idle'[v] = idle[v]
      BY <1>1, <3>2 DEF PoolTyped
    <3> QED BY <2>1, <3>1, <3>2, <3>3
  <2>3. \A v \in Worker : \A i \in DOMAIN idle'[v] :
          \/ v = w /\ i = n /\ idle'[v][i] = conn[k]
          \/ v = w /\ i \in 1 .. n - 1 /\ i + 1 \in DOMAIN idle[w] /\ idle'[v][i] = idle[w][i + 1]
          \/ v # w /\ i \in DOMAIN idle[v] /\ idle'[v][i] = idle[v][i]
    <3> SUFFICES ASSUME NEW v \in Worker, NEW i \in DOMAIN idle'[v] PROVE <2>3!(v)!(i)
      OBVIOUS
    <3>1. CASE v # w BY <2>2, <3>1
    <3>2. CASE v = w /\ i = n BY <2>2, <3>2
    <3>3. CASE v = w /\ i # n
      <4>1. i \in 1 .. n BY <2>2, <3>3
      <4>2. \A m \in Nat : \A j \in 1 .. m : j # m => j \in 1 .. m - 1 /\ j + 1 \in 1 .. m OBVIOUS
      <4>3. i \in 1 .. n - 1 /\ i + 1 \in 1 .. n BY <2>1, <3>3, <4>1, <4>2
      <4> QED BY <2>1, <2>2, <3>3, <4>3
    <3> QED BY <3>1, <3>2, <3>3
  <2>4. 1 \in DOMAIN idle[w] BY <2>1
  <2>5. HeldOnce' BY <1>1, <2>2, <2>4 DEF PoolTyped
  <2>6. IdleNotHeld'
    <3> SUFFICES ASSUME NEW v \in Worker, NEW i \in DOMAIN idle'[v], NEW j \in Coroutine
                 PROVE  idle'[v][i] # conn'[j]
      OBVIOUS
    <3>1. conn'[k] = idle[w][1] /\ (j # k => conn'[j] = conn[j]) BY <2>2 DEF PoolTyped
    <3> QED BY <1>1, <2>3, <2>4, <3>1
  <2>7. IdleOnce'
    <3> SUFFICES ASSUME NEW u \in Worker, NEW v \in Worker, NEW i \in DOMAIN idle'[u],
                        NEW j \in DOMAIN idle'[v], idle'[u][i] = idle'[v][j]
                 PROVE  u = v /\ i = j
      OBVIOUS
    <3> QED BY <1>1, <2>3
  <2> QED BY <2>5, <2>6, <2>7
<1>3. CASE idle[w] = <<>>
  <2>1. conn' = conn /\ idle' = idle BY <1>3 DEF Recycle
  <2> QED BY <2>1
<1> QED BY <1>2, <1>3
-----------------------------------------------------------------------------
(* Turns of one lead never overlap. *)

LEMMA TurnInvInit == Init => TurnInv
<1> SUFFICES ASSUME Init PROVE TurnInv OBVIOUS
<1>1. TypeInv BY TypeInvInit
<1>2. Exclusive
  BY PoolAssumption DEF Init, Exclusive, HeldOnce, IdleNotHeld, IdleOnce
<1>3. TurnHoldsLock BY DEF Init, TurnHoldsLock, InTurn, Coroutine
<1> QED BY <1>1, <1>2, <1>3 DEF TurnInv

LEMMA ExclusiveStep == TypeInv /\ Exclusive /\ [Next]_vars => Exclusive'
<1> SUFFICES ASSUME TypeInv, Exclusive, [Next]_vars PROVE Exclusive' OBVIOUS
<1>0. PoolTyped BY DEF TypeInv, TypeOK, PoolTyped
<1>1. CASE UNCHANGED <<conn, idle>>
  BY <1>1 DEF Exclusive, HeldOnce, IdleNotHeld, IdleOnce
<1>2. ASSUME NEW k \in Coroutine, Checkout(k) PROVE Exclusive'
  BY <1>0, <1>2, CheckoutExclusive
<1>3. ASSUME NEW k \in Coroutine, conn[k] \in Conn, GiveBack(k) PROVE Exclusive'
  BY <1>0, <1>3, GiveBackExclusive
<1>4. ASSUME NEW k \in Coroutine, conn[k] \in Conn, Recycle(k) PROVE Exclusive'
  BY <1>0, <1>4, RecycleExclusive
<1>5. ASSUME NEW w \in Worker, Crash(w) PROVE Exclusive'
  <2>1. /\ \A k \in Coroutine : conn'[k] \in {conn[k], NoConn}
        /\ \A v \in Worker : idle'[v] = IF v = w THEN <<>> ELSE idle[v]
    BY <1>0, <1>5 DEF Crash, PoolTyped
  <2>2. HeldOnce' BY <2>1, PoolAssumption DEF Exclusive, HeldOnce
  <2>3. \A v \in Worker : \A i \in DOMAIN idle'[v] :
          i \in DOMAIN idle[v] /\ idle'[v][i] = idle[v][i] /\ idle[v][i] \in Conn
    BY <2>1, <1>0, ElementOfSeq, LenProperties, EmptySeq DEF PoolTyped
  <2>4. IdleNotHeld' BY <2>1, <2>3, PoolAssumption DEF Exclusive, IdleNotHeld
  <2>5. IdleOnce' BY <2>3 DEF Exclusive, IdleOnce
  <2> QED BY <2>2, <2>4, <2>5 DEF Exclusive
<1>6. ASSUME NEW s \in Slot, JobStep(s) PROVE Exclusive'
  <2>1. s \in Coroutine BY DEF Coroutine
  <2>2. conn[s] \in Conn
    BY <1>6 DEF TypeInv, Busy, JobStep, TryLock, LoadLead, SkipQueued, Unlock, CloseSession, FetchNext,
       LockWindow, RejectAudio, Preprocess, AcquireTurnLock, Timeout, Decide, Fail, SendReply,
       SendFails, HandleError, CommitTurn, Settle, SettleRows, Goto
  <2>3. Recycle(s) \/ GiveBack(s) \/ UNCHANGED <<conn, idle>>
    BY <1>6 DEF JobStep, TryLock, LoadLead, SkipQueued, Unlock, CloseSession, FetchNext,
       LockWindow, RejectAudio, Preprocess, AcquireTurnLock, Timeout, Decide, Fail, SendReply,
       SendFails, HandleError, CommitTurn, Settle, SettleRows, locks
  <2> QED BY <1>1, <1>3, <1>4, <2>1, <2>2, <2>3
<1>7. ASSUME NEW s \in Slot, StartJob(s) PROVE Exclusive'
  BY <1>2, <1>7 DEF StartJob, Coroutine
<1>8. ASSUME NEW g \in Guest, GuestBegins(g) PROVE Exclusive'
  BY <1>2, <1>8 DEF GuestBegins, Coroutine
<1>9. ASSUME NEW g \in Guest, GuestEnds(g) PROVE Exclusive'
  <2>1. g \in Coroutine /\ conn[g] \in Conn
    BY <1>0, <1>9 DEF GuestEnds, Coroutine, PoolTyped
  <2> QED BY <1>3, <1>9, <2>1 DEF GuestEnds
<1>10. CASE \/ \E S \in (SUBSET Msg) \ {{}} : Ingest(S)
            \/ AssignLead \/ EnqueueJob \/ LoseEnqueue \/ UNCHANGED vars
  BY <1>1, <1>10 DEF Ingest, AssignLead, EnqueueJob, LoseEnqueue, vars, locks
<1> QED BY <1>5, <1>6, <1>7, <1>8, <1>9, <1>10 DEF Next
\* A step of job s leaves the turn of every other job alone.
LEMMA OthersTurn ==
  ASSUME TypeInv, Exclusive, TurnHoldsLock, NEW s \in Slot, JobStep(s),
         NEW t \in Slot, t # s, InTurn(t)'
  PROVE  xact' = conn'[t]
<1>1. s \in Coroutine /\ t \in Coroutine BY DEF Coroutine
<1>2. pc'[t] = pc[t]
  BY <1>1 DEF TypeInv, TypeOK, JobStep, TryLock, LoadLead, SkipQueued, Unlock, CloseSession, FetchNext,
     LockWindow, RejectAudio, Preprocess, AcquireTurnLock, Timeout, Decide, Fail, SendReply,
     SendFails, HandleError, CommitTurn, Settle, SettleRows, Goto
<1>3. InTurn(t) /\ xact = conn[t] BY <1>2 DEF InTurn, TurnHoldsLock
<1>4. conn[t] \in Conn BY <1>3 DEF TypeInv, Busy, InTurn
<1>5. conn'[t] = conn[t]
  <2>1. Recycle(s) \/ GiveBack(s) \/ UNCHANGED <<conn, idle>>
    BY DEF JobStep, TryLock, LoadLead, SkipQueued, Unlock, CloseSession, FetchNext,
       LockWindow, RejectAudio, Preprocess, AcquireTurnLock, Timeout, Decide, Fail, SendReply,
       SendFails, HandleError, CommitTurn, Settle, SettleRows, locks
  <2> QED BY <1>1, <2>1 DEF Recycle, GiveBack, TypeInv, TypeOK
<1>6. conn[s] # conn[t] BY <1>1, <1>4 DEF Exclusive, HeldOnce
<1>7. ~AcquireTurnLock(s)
  <2> SUFFICES ASSUME AcquireTurnLock(s) PROVE FALSE OBVIOUS
  <2>1. xact \in {NoConn, conn[s]} BY DEF AcquireTurnLock, Grantable
  <2> QED BY <1>3, <1>4, <1>6, <2>1, PoolAssumption
<1>8. EndTurn(s) \/ xact' = xact
  BY <1>7 DEF JobStep, TryLock, LoadLead, SkipQueued, Unlock, CloseSession, FetchNext,
     LockWindow, RejectAudio, Preprocess, Timeout, Decide, Fail, SendReply,
     SendFails, HandleError, CommitTurn, Settle, SettleRows, locks
<1> QED BY <1>3, <1>5, <1>6, <1>8 DEF EndTurn

LEMMA TurnInvStep == TurnInv /\ [Next]_vars => TurnInv'
<1> SUFFICES ASSUME TurnInv, [Next]_vars PROVE TurnInv' OBVIOUS
<1>0. TypeInv /\ Exclusive /\ TurnHoldsLock BY DEF TurnInv
<1>1. TypeInv' BY <1>0, TypeInvStep
<1>2. Exclusive' BY <1>0, ExclusiveStep
<1>3. TurnHoldsLock'
  <2> SUFFICES ASSUME NEW t \in Slot, InTurn(t)' PROVE xact' = conn'[t]
    BY DEF TurnHoldsLock
  <2>0. t \in Coroutine BY DEF Coroutine
  <2>1. CASE UNCHANGED <<pc, xact>> /\ conn'[t] = conn[t]
    BY <1>0, <2>1 DEF TurnHoldsLock, InTurn
  <2>2. ASSUME NEW s \in Slot, JobStep(s) PROVE xact' = conn'[t]
    <3>1. CASE s # t BY <1>0, <2>2, <3>1, OthersTurn
    <3>2. CASE s = t
      <4>1. AcquireTurnLock(s) \/ Decide(s) \/ SendReply(s)
        BY <1>0, <2>0, <2>2, <3>2, FaultAssumption DEF InTurn, TypeInv, TypeOK, JobStep, TryLock, LoadLead, SkipQueued,
           Unlock, CloseSession, FetchNext, LockWindow, RejectAudio, Preprocess, Timeout, Fail,
           SendFails, HandleError, CommitTurn, Settle, SettleRows, Goto
      <4>2. CASE AcquireTurnLock(s) BY <3>2, <4>2 DEF AcquireTurnLock
      <4>3. CASE Decide(s)
        BY <1>0, <3>2, <4>3 DEF Decide, Goto, locks, TurnHoldsLock, InTurn
      <4>4. CASE SendReply(s)
        BY <1>0, <3>2, <4>4 DEF SendReply, Goto, locks, TurnHoldsLock, InTurn
      <4> QED BY <4>1, <4>2, <4>3, <4>4
    <3> QED BY <3>1, <3>2
  <2>3. ASSUME NEW s \in Slot, StartJob(s) PROVE xact' = conn'[t]
    <3>1. s # t BY <1>0, <2>0, <2>3 DEF StartJob, Goto, InTurn, TypeInv, TypeOK
    <3>2. pc'[t] = pc[t] /\ conn'[t] = conn[t] /\ xact' = xact
      BY <1>0, <2>0, <2>3, <3>1 DEF StartJob, Goto, Checkout, TypeInv, TypeOK, Coroutine
    <3> QED BY <1>0, <3>2 DEF TurnHoldsLock, InTurn
  <2>4. ASSUME NEW g \in Guest, GuestBegins(g) \/ GuestEnds(g) PROVE xact' = conn'[t]
    <3>1. g # t BY PoolAssumption
    <3> QED BY <1>0, <2>0, <2>1, <2>4, <3>1
            DEF GuestBegins, GuestEnds, Checkout, GiveBack, TypeInv, TypeOK, Coroutine
  <2>5. ASSUME NEW w \in Worker, Crash(w) PROVE xact' = conn'[t]
    <3>1. WorkerOf[t] # w /\ pc'[t] = pc[t] /\ conn'[t] = conn[t]
      BY <2>0, <2>5 DEF Crash, InTurn
    <3>2. xact = conn[t] /\ conn[t] \in Conn
      BY <1>0, <3>1 DEF TurnHoldsLock, InTurn, TypeInv, Busy
    <3>3. \A k \in Coroutine : WorkerOf[k] = w => conn[k] # xact
      BY <1>0, <2>0, <3>1, <3>2 DEF Exclusive, HeldOnce
    <3>4. \A i \in DOMAIN idle[w] : idle[w][i] # xact
      BY <1>0, <2>0, <3>2 DEF Exclusive, IdleNotHeld
    <3> QED BY <2>5, <3>1, <3>2, <3>3, <3>4 DEF Crash
  <2>6. CASE \/ \E S \in (SUBSET Msg) \ {{}} : Ingest(S)
             \/ AssignLead \/ EnqueueJob \/ LoseEnqueue \/ UNCHANGED vars
    BY <2>1, <2>6 DEF Ingest, AssignLead, EnqueueJob, LoseEnqueue, vars, locks
  <2> QED BY <2>2, <2>3, <2>4, <2>5, <2>6 DEF Next
<1> QED BY <1>1, <1>2, <1>3 DEF TurnInv

\* For every pool and every interleaving, run_turn's lock lets one turn of the
\* lead at a time change its Talk.
THEOREM TurnsExclude == Spec => []TurnMutex
<1>1. Init => TurnInv BY TurnInvInit
<1>2. TurnInv /\ [Next]_vars => TurnInv' BY TurnInvStep
<1>3. TurnInv => TurnMutex
  <2> SUFFICES ASSUME TurnInv, NEW s \in Slot, NEW t \in Slot, InTurn(s), InTurn(t) PROVE s = t
    BY DEF TurnMutex
  <2>1. conn[s] = conn[t] /\ conn[s] \in Conn
    BY DEF TurnInv, TurnHoldsLock, TypeInv, Busy, InTurn
  <2> QED BY <2>1 DEF TurnInv, Exclusive, HeldOnce, Coroutine
<1> QED BY <1>1, <1>2, <1>3, PTL DEF Spec

-----------------------------------------------------------------------------
(* The rows a job works on, in any pool.                                   *)

\* A step of a job leaves the other jobs alone.
LEMMA OthersKeep ==
  ASSUME TypeInv, NEW s \in Slot, JobStep(s), NEW t \in Slot \ {s}
  PROVE  /\ pc'[t] = pc[t] /\ head'[t] = head[t] /\ extras'[t] = extras[t]
         /\ body'[t] = body[t] /\ orig'[t] = orig[t] /\ result'[t] = result[t]
<1> USE DEF TypeInv, TypeOK
<1>0. s \in Coroutine /\ t \in Coroutine BY DEF Coroutine
<1>1. pc'[t] = pc[t]
  BY <1>0 DEF JobStep, TryLock, LoadLead, SkipQueued, Unlock, CloseSession, FetchNext,
     LockWindow, RejectAudio, Preprocess, AcquireTurnLock, Timeout, Decide, Fail, SendReply,
     SendFails, HandleError, CommitTurn, Settle, SettleRows, Goto
<1>2. CASE TryLock(s) \/ LoadLead(s) \/ SkipQueued(s) \/ Unlock(s) \/ CloseSession(s)
  BY <1>1, <1>2 DEF TryLock, LoadLead, SkipQueued, Unlock, CloseSession, turn
<1>3. CASE FetchNext(s) \/ LockWindow(s) \/ RejectAudio(s) \/ Preprocess(s)
  BY <1>1, <1>3 DEF FetchNext, LockWindow, RejectAudio, Preprocess, turn
<1>4. CASE AcquireTurnLock(s) \/ Timeout(s) \/ Decide(s) \/ Fail(s) \/ SendReply(s)
  BY <1>1, <1>4 DEF AcquireTurnLock, Timeout, Decide, Fail, SendReply, turn
<1>5. CASE SendFails(s) \/ HandleError(s) \/ CommitTurn(s) \/ Settle(s)
  BY <1>1, <1>5 DEF SendFails, HandleError, CommitTurn, Settle, SettleRows, turn
<1> QED BY <1>2, <1>3, <1>4, <1>5 DEF JobStep

\* The row a job has fetched exists; nothing says that it still waits.
HeadStored == \A s \in Slot :
  pc[s] = "window" \/ WithEngine(s) => head[s] \in Msg /\ status[head[s]] # "absent"

\* A reply is sent on a decision to reply.
Sends == \A s \in Slot : pc[s] = "send" => result[s] \in {"sent", "escalated"}

PathInv == TypeInv /\ HeadStored /\ Sends

\* A job never stores a row and never queues one again.
LEMMA JobRows ==
  ASSUME TypeInv, NEW s \in Slot, JobStep(s)
  PROVE  Queued' \subseteq Queued /\ \A m \in Msg : status[m] # "absent" => status'[m] # "absent"
<1> USE DEF TypeInv, TypeOK, Queued
<1>1. CASE TryLock(s) \/ LoadLead(s) \/ Unlock(s) \/ CloseSession(s) \/ FetchNext(s)
  BY <1>1 DEF TryLock, LoadLead, Unlock, CloseSession, FetchNext, rows
<1>2. CASE LockWindow(s) \/ Preprocess(s) \/ AcquireTurnLock(s) \/ Timeout(s) \/ Decide(s)
  BY <1>2 DEF LockWindow, Preprocess, AcquireTurnLock, Timeout, Decide, rows
<1>3. CASE Fail(s) \/ SendReply(s) \/ SendFails(s) \/ CommitTurn(s)
  BY <1>3 DEF Fail, SendReply, SendFails, CommitTurn, rows
<1>4. CASE SkipQueued(s) BY <1>4 DEF SkipQueued
<1>5. CASE RejectAudio(s) BY <1>5 DEF RejectAudio
<1>6. CASE HandleError(s) BY <1>6 DEF HandleError
<1>7. CASE Settle(s) BY <1>7 DEF Settle, SettleRows
<1> QED BY <1>1, <1>2, <1>3, <1>4, <1>5, <1>6, <1>7 DEF JobStep

\* The step of a job on its own burst.
LEMMA BurstMoves ==
  ASSUME TypeInv, NEW s \in Slot, JobStep(s)
  PROVE  \/ ~WithEngine(s)' /\ pc'[s] # "window"
         \/ pc'[s] = "window" /\ head'[s] \in Queued /\ status' = status
         \/ LockWindow(s) /\ pc[s] = "window" /\ pc'[s] = "turn"
         \/ /\ UNCHANGED <<status, head, extras>> /\ WithEngine(s) /\ WithEngine(s)'
            /\ pc'[s] = "send" => result'[s] \in {"sent", "escalated"}
<1> USE DEF TypeInv, TypeOK, Coroutine, Goto, WithEngine
<1>1. CASE TryLock(s) \/ LoadLead(s) \/ SkipQueued(s) \/ Unlock(s) \/ CloseSession(s)
  BY <1>1 DEF TryLock, LoadLead, SkipQueued, Unlock, CloseSession
<1>2. CASE FetchNext(s) BY <1>2 DEF FetchNext, Queued, rows
<1>3. CASE RejectAudio(s) \/ Timeout(s) \/ Fail(s) \/ HandleError(s) \/ Settle(s)
  BY <1>3 DEF RejectAudio, Timeout, Fail, HandleError, Settle, SettleRows
<1>4. CASE Preprocess(s) \/ AcquireTurnLock(s) \/ Decide(s)
  BY <1>4 DEF Preprocess, AcquireTurnLock, Decide, rows, turn, Result
<1>5. CASE SendReply(s) \/ CommitTurn(s)
  BY <1>5 DEF SendReply, CommitTurn, rows, turn
<1>6. CASE SendFails(s)
  <2>1. UNCHANGED <<status, head, extras>> /\ pc[s] = "send" /\ pc'[s] \in {"unlock", "handle"}
    BY <1>6, FaultAssumption DEF SendFails, rows
  <2> QED BY <2>1
<1>7. CASE LockWindow(s) BY <1>7 DEF LockWindow
<1> QED BY <1>1, <1>2, <1>3, <1>4, <1>5, <1>6, <1>7 DEF JobStep

LEMMA PathInvStep == PathInv /\ [Next]_vars => PathInv'
<1> SUFFICES ASSUME PathInv, [Next]_vars PROVE PathInv' OBVIOUS
<1> DEFINE Keeps(t) ==
      /\ (pc[t] = "window" \/ WithEngine(t))' => (head[t] \in Msg /\ status[head[t]] # "absent")'
      /\ pc'[t] = "send" => result'[t] \in {"sent", "escalated"}
<1>0. TypeInv BY DEF PathInv
<1>1. SUFFICES ASSUME NEW t \in Slot PROVE Keeps(t)
  BY <1>0, TypeInvStep DEF PathInv, HeadStored, Sends
<1>2. t \in Coroutine BY DEF Coroutine
<1>3. ASSUME \A m \in Msg : status[m] # "absent" => status'[m] # "absent",
             pc'[t] = pc[t], head'[t] = head[t], result'[t] = result[t]
      PROVE  Keeps(t)
  BY <1>3 DEF PathInv, HeadStored, Sends, WithEngine
<1>4. ASSUME NEW s \in Slot, JobStep(s) PROVE Keeps(t)
  <2>0. \A m \in Msg : status[m] # "absent" => status'[m] # "absent" BY <1>0, <1>4, JobRows
  <2>1. CASE s # t BY <1>0, <1>3, <1>4, <2>0, <2>1, OthersKeep
  <2>2. CASE s = t
    <3>1. CASE ~WithEngine(s)' /\ pc'[s] # "window" BY <2>2, <3>1 DEF WithEngine
    <3>2. CASE pc'[s] = "window" /\ head'[s] \in Queued /\ status' = status
      BY <2>2, <3>2 DEF Queued, WithEngine
    <3>3. CASE LockWindow(s) /\ pc[s] = "window" /\ pc'[s] = "turn"
      BY <2>0, <2>2, <3>3 DEF LockWindow, PathInv, HeadStored
    <3>4. CASE /\ UNCHANGED <<status, head, extras>> /\ WithEngine(s) /\ WithEngine(s)'
               /\ pc'[s] = "send" => result'[s] \in {"sent", "escalated"}
      BY <2>2, <3>4 DEF PathInv, HeadStored
    <3> QED BY <1>0, <1>4, <3>1, <3>2, <3>3, <3>4, BurstMoves
  <2> QED BY <2>1, <2>2
<1>5. ASSUME NEW s \in Slot, StartJob(s) PROVE Keeps(t)
  <2>1. CASE s # t
    BY <1>0, <1>2, <1>3, <1>5, <2>1 DEF StartJob, Goto, TypeInv, TypeOK, rows, turn
  <2>2. CASE s = t
    <3>1. pc'[t] = "lock" BY <1>0, <1>2, <1>5, <2>2 DEF StartJob, Goto, TypeInv, TypeOK
    <3> QED BY <3>1 DEF WithEngine
  <2> QED BY <2>1, <2>2
<1>6. ASSUME NEW g \in Guest, GuestBegins(g) \/ GuestEnds(g) PROVE Keeps(t)
  BY <1>3, <1>6 DEF GuestBegins, GuestEnds, rows, turn
<1>7. ASSUME NEW w \in Worker, Crash(w) PROVE Keeps(t)
  <2>1. CASE WorkerOf[t] = w
    <3>1. pc'[t] = "idle" BY <1>2, <1>7, <2>1 DEF Crash
    <3> QED BY <3>1 DEF WithEngine
  <2>2. CASE WorkerOf[t] # w BY <1>2, <1>3, <1>7, <2>2 DEF Crash
  <2> QED BY <2>1, <2>2
<1>8. ASSUME NEW S \in SUBSET Msg, Ingest(S) PROVE Keeps(t)
  BY <1>3, <1>8 DEF Ingest, turn
<1>9. CASE AssignLead \/ EnqueueJob \/ LoseEnqueue \/ UNCHANGED vars
  BY <1>3, <1>9 DEF AssignLead, EnqueueJob, LoseEnqueue, vars, rows, turn
<1> QED BY <1>4, <1>5, <1>6, <1>7, <1>8, <1>9 DEF Next

LEMMA PathInvInit == Init => PathInv
BY TypeInvInit DEF Init, PathInv, HeadStored, Sends, WithEngine, Coroutine

-----------------------------------------------------------------------------
(* The inbound path implements InboxPromise, in any pool.                  *)

\* The refinement mapping, as KeepsPromise has it.
Burst(s) == extras[s] \cup {head[s]}
Bursts == [s \in Slot |-> IF WithEngine(s) THEN extras[s] \cup {head[s]} ELSE {}]
Answering(s) == pc[s] \in {"commit", "settle"} /\ result[s] \in {"sent", "escalated"}
Replied == {s \in Slot : /\ pc[s] \in {"commit", "settle"}
                         /\ result[s] \in {"sent", "escalated"}}

\* One step of the inbound path is one step of the promise or none.
Follows == Promise!Next \/ UNCHANGED <<status, Bursts, Replied>>

\* Where a job stands in the mapping before and after a step.
Unmoved(t) == /\ WithEngine(t)' <=> WithEngine(t)
              /\ WithEngine(t) => Burst(t)' = Burst(t)
              /\ Answering(t)' <=> Answering(t)

LEMMA UnmovedIf ==
  ASSUME NEW t \in Slot, pc'[t] = pc[t], head'[t] = head[t], extras'[t] = extras[t], result'[t] = result[t]
  PROVE  Unmoved(t)
BY DEF Unmoved, WithEngine, Burst, Answering

LEMMA MappingStays ==
  ASSUME \A t \in Slot : Unmoved(t)
  PROVE  Bursts' = Bursts /\ Replied' = Replied
<1>1. Bursts' = Bursts BY DEF Bursts, Burst, Unmoved
<1>2. \A t : t \in Replied' <=> t \in Replied BY DEF Replied, Answering, Unmoved
<1> QED BY <1>1, <1>2

\* If one job alone moves, the mapping changes at that job.
LEMMA MappingAt ==
  ASSUME NEW s \in Slot, \A t \in Slot \ {s} : Unmoved(t)
  PROVE  /\ Bursts' = [Bursts EXCEPT ![s] = IF WithEngine(s)' THEN Burst(s)' ELSE {}]
         /\ Bursts[s] = IF WithEngine(s) THEN Burst(s) ELSE {}
         /\ s \in Replied <=> Answering(s)
         /\ Replied' = IF Answering(s)' THEN Replied \cup {s} ELSE Replied \ {s}
<1>1. Bursts' = [Bursts EXCEPT ![s] = IF WithEngine(s)' THEN Burst(s)' ELSE {}]
  BY DEF Bursts, Burst, Unmoved
<1>2. \A t : t \in Replied' <=> t \in IF Answering(s)' THEN Replied \cup {s} ELSE Replied \ {s}
  BY DEF Replied, Answering, Unmoved
<1>3. Bursts[s] = IF WithEngine(s) THEN Burst(s) ELSE {} BY DEF Bursts, Burst
<1>4. s \in Replied <=> Answering(s) BY DEF Replied, Answering
<1> QED BY <1>1, <1>2, <1>3, <1>4

\* The steps of InboxPromise, in terms of the mapping.
LEMMA PromiseBegins ==
  ASSUME NEW s \in Slot, Bursts[s] = {}, NEW h \in Msg, status[h] # "absent", status[h] \in RowStatus,
         NEW S \in SUBSET Queued, Bursts' = [Bursts EXCEPT ![s] = S \cup {h}],
         UNCHANGED <<status, Replied>>
  PROVE  Promise!Begin(s)
<1>1. h \in {m \in Msg : status[m] = "queued"} \cup {m \in Msg : status[m] \in {"processed", "error"}}
  BY DEF RowStatus
<1>2. S \in SUBSET {m \in Msg : status[m] = "queued"} BY DEF Queued
<1> QED BY <1>1, <1>2, Zenon
        DEF Bursts, Replied, Promise!Begin, Promise!Waiting, Promise!SettledMsg, Promise!Settled

LEMMA PromiseReplies ==
  ASSUME NEW s \in Slot, Bursts[s] # {}, s \notin Replied, Replied' = Replied \cup {s},
         UNCHANGED <<status, Bursts>>
  PROVE  Promise!Reply(s)
BY Zenon DEF Bursts, Replied, Promise!Reply

LEMMA PromiseSettles ==
  ASSUME NEW s \in Slot, NEW S \in (SUBSET Bursts[s]) \ {{}}, NEW new \in [S -> {"processed", "error"}],
         status' = [m \in Msg |-> IF m \in S THEN new[m] ELSE status[m]],
         Bursts' = [Bursts EXCEPT ![s] = {}], Replied' = Replied \ {s}
  PROVE  Promise!Settle(s)
<1>1. \E T \in (SUBSET Bursts[s]) \ {{}} : \E n \in [T -> {"processed", "error"}] :
        status' = [m \in Msg |-> IF m \in T THEN n[m] ELSE status[m]]
  OBVIOUS
<1> QED BY <1>1, Zenon DEF Bursts, Replied, Promise!Settle, Promise!Done, Promise!Settled

LEMMA PromiseAbandons ==
  ASSUME NEW J \in (SUBSET Slot) \ {{}}, UNCHANGED status,
         Bursts' = [s \in Slot |-> IF s \in J THEN {} ELSE Bursts[s]], Replied' = Replied \ J
  PROVE  Promise!Abandon
BY Zenon DEF Bursts, Replied, Promise!Abandon

LEMMA PromiseSkips ==
  ASSUME UNCHANGED <<Bursts, Replied>>,
         status' = [m \in Msg |-> IF m \in Queued THEN "error" ELSE status[m]]
  PROVE  Promise!Skip
BY Zenon DEF Bursts, Replied, Queued, Promise!Skip, Promise!Waiting

LEMMA PromiseReceives ==
  ASSUME NEW S \in SUBSET {m \in Msg : status[m] = "absent"}, UNCHANGED <<Bursts, Replied>>,
         status' = [m \in Msg |-> IF m \in S THEN "queued" ELSE status[m]]
  PROVE  Promise!Receive
<1>1. \E T \in SUBSET {m \in Msg : status[m] = "absent"} :
        status' = [m \in Msg |-> IF m \in T THEN "queued" ELSE status[m]]
  OBVIOUS
<1> QED BY <1>1, Zenon DEF Bursts, Replied, Promise!Receive

\* The step of a job, whatever the other jobs have in hand.
LEMMA JobFollows ==
  ASSUME PathInv, NEW s \in Slot, JobStep(s)
  PROVE  Follows
<1>0. TypeInv /\ s \in Coroutine BY DEF PathInv, Coroutine
<1>1. /\ pc \in [Coroutine -> Stage] /\ status \in [Msg -> RowStatus]
      /\ head \in [Slot -> Msg \cup {NoMsg}] /\ extras \in [Slot -> SUBSET Msg]
      /\ result \in [Slot -> Result]
  BY <1>0 DEF TypeInv, TypeOK
<1>2. \A t \in Slot \ {s} : Unmoved(t) BY <1>0, OthersKeep, UnmovedIf
<1>3. Burst(s) # {} BY DEF Burst
<1>4. Bursts \in [Slot -> SUBSET (Msg \cup {NoMsg})] BY <1>1 DEF Bursts
\* Nothing of the mapping moves.
<1>5. ASSUME status' = status, Unmoved(s) PROVE Follows
  BY <1>2, <1>5, MappingStays DEF Follows
\* The job gives its burst up.
<1>7. ASSUME status' = status, WithEngine(s), ~WithEngine(s)' PROVE Follows
  <2>1. ~Answering(s)' BY <1>7 DEF Answering, WithEngine
  <2>2. Bursts' = [Bursts EXCEPT ![s] = {}] /\ Replied' = Replied \ {s}
    BY <1>2, <1>7, <2>1, MappingAt
  <2>3. Bursts' = [t \in Slot |-> IF t \in {s} THEN {} ELSE Bursts[t]] BY <1>4, <2>2
  <2> QED BY <1>7, <2>2, <2>3, PromiseAbandons DEF Follows, Promise!Next
\* The job settles rows of its burst.
<1>8. ASSUME WithEngine(s), ~WithEngine(s)', NEW S \in (SUBSET Burst(s)) \ {{}},
             NEW new \in [S -> {"processed", "error"}],
             status' = [m \in Msg |-> IF m \in S THEN new[m] ELSE status[m]]
      PROVE  Follows
  <2>1. ~Answering(s)' BY <1>8 DEF Answering, WithEngine
  <2>2. Bursts' = [Bursts EXCEPT ![s] = {}] /\ Replied' = Replied \ {s} /\ Bursts[s] = Burst(s)
    BY <1>2, <1>8, <2>1, MappingAt
  <2>3. S \in (SUBSET Bursts[s]) \ {{}} BY <2>2
  <2> QED BY <1>8, <2>2, <2>3, PromiseSettles DEF Follows, Promise!Next
<1>9. CASE TryLock(s) \/ LoadLead(s) \/ Unlock(s) \/ CloseSession(s) \/ FetchNext(s)
  <2>1. status' = status /\ ~WithEngine(s) /\ ~WithEngine(s)'
    BY <1>0, <1>1, <1>9 DEF TryLock, LoadLead, Unlock, CloseSession, FetchNext, Goto, WithEngine, rows
  <2> QED BY <1>5, <2>1 DEF Unmoved, Answering, WithEngine
<1>10. CASE SkipQueued(s)
  <2>1. ~WithEngine(s) /\ ~WithEngine(s)' BY <1>0, <1>1, <1>10 DEF SkipQueued, Goto, WithEngine
  <2>2. Unmoved(s) BY <2>1 DEF Unmoved, Answering, WithEngine
  <2>3. UNCHANGED <<Bursts, Replied>> BY <1>2, <2>2, MappingStays
  <2> QED BY <1>10, <2>3, PromiseSkips DEF SkipQueued, Follows, Promise!Next
<1>11. CASE LockWindow(s)
  <2>1. pc'[s] = "turn" /\ pc[s] = "window" BY <1>0, <1>1, <1>11 DEF LockWindow, Goto
  <2>2. ~WithEngine(s) /\ WithEngine(s)' /\ ~Answering(s) /\ ~Answering(s)' BY <2>1 DEF WithEngine, Answering
  <2>3. head[s] \in Msg /\ status[head[s]] # "absent" BY <2>1 DEF PathInv, HeadStored
  <2>4. Burst(s)' = (Companions(head[s]) \ {head[s]}) \cup {head[s]}
    BY <1>1, <1>11 DEF LockWindow, Burst
  <2>5. Companions(head[s]) \ {head[s]} \in SUBSET Queued BY DEF Companions
  <2>6. /\ Bursts[s] = {} /\ Bursts' = [Bursts EXCEPT ![s] = Burst(s)']
        /\ s \notin Replied /\ Replied' = Replied \ {s}
    BY <1>2, <2>2, MappingAt
  <2>7. status' = status /\ Replied' = Replied BY <1>11, <2>6 DEF LockWindow
  <2>8. status[head[s]] \in RowStatus BY <1>1, <2>3
  <2> DEFINE S == Companions(head[s]) \ {head[s]}
             h == head[s]
  <2>9. Bursts' = [Bursts EXCEPT ![s] = S \cup {h}] BY <2>4, <2>6
  <2>10. S \in SUBSET Queued /\ h \in Msg /\ status[h] # "absent" /\ status[h] \in RowStatus
    BY <2>3, <2>5, <2>8
  <2>11. Bursts[s] = {} /\ UNCHANGED <<status, Replied>> BY <2>6, <2>7
  <2> HIDE DEF S, h
  <2>12. Promise!Begin(s) BY <2>9, <2>10, <2>11, PromiseBegins
  <2> QED BY <2>12 DEF Follows, Promise!Next
<1>12. CASE RejectAudio(s)
  <2>1. WithEngine(s) /\ ~WithEngine(s)' BY <1>0, <1>1, <1>12 DEF RejectAudio, Goto, WithEngine
  <2> DEFINE S == {head[s]}
             new == [m \in S |-> "processed"]
  <2>2. S \in (SUBSET Burst(s)) \ {{}} /\ new \in [S -> {"processed", "error"}] BY DEF Burst
  <2>3. status' = [m \in Msg |-> IF m \in S THEN new[m] ELSE status[m]]
    BY <1>1, <1>12 DEF RejectAudio
  <2> HIDE DEF S, new
  <2> QED BY <1>8, <2>1, <2>2, <2>3
<1>13. CASE HandleError(s)
  <2>1. WithEngine(s) /\ ~WithEngine(s)' BY <1>0, <1>1, <1>13 DEF HandleError, Goto, WithEngine
  <2> DEFINE S == {head[s]}
             new == [m \in S |-> "error"]
  <2>2. S \in (SUBSET Burst(s)) \ {{}} /\ new \in [S -> {"processed", "error"}] BY DEF Burst
  <2>3. status' = [m \in Msg |-> IF m \in S THEN new[m] ELSE status[m]]
    BY <1>1, <1>13 DEF HandleError
  <2> HIDE DEF S, new
  <2> QED BY <1>8, <2>1, <2>2, <2>3
<1>14. CASE Settle(s)
  <2>1. WithEngine(s) /\ ~WithEngine(s)'
    BY <1>0, <1>1, <1>14 DEF Settle, SettleRows, Goto, WithEngine
  <2> DEFINE S == Burst(s)
             new == [m \in S |-> IF m = head[s] /\ result[s] = "skipped_human" THEN "error" ELSE "processed"]
  <2>2. S \in (SUBSET Burst(s)) \ {{}} /\ new \in [S -> {"processed", "error"}] BY <1>3
  <2>3. status' = [m \in Msg |-> IF m \in S THEN new[m] ELSE status[m]]
    BY <1>14 DEF Settle, SettleRows, Burst
  <2> HIDE DEF S, new
  <2> QED BY <1>8, <2>1, <2>2, <2>3
<1>15. CASE Preprocess(s) \/ AcquireTurnLock(s) \/ Decide(s) \/ CommitTurn(s)
  <2>1. status' = status /\ WithEngine(s) /\ WithEngine(s)' /\ Burst(s)' = Burst(s)
    BY <1>0, <1>1, <1>15 DEF Preprocess, AcquireTurnLock, Decide, CommitTurn, Goto, WithEngine, Burst, rows, turn
  <2>2. Answering(s)' <=> Answering(s)
    BY <1>0, <1>1, <1>15 DEF Preprocess, AcquireTurnLock, Decide, CommitTurn, Goto, Answering, turn
  <2> QED BY <1>5, <2>1, <2>2 DEF Unmoved
<1>16. CASE Timeout(s) \/ Fail(s)
  <2>1. status' = status /\ WithEngine(s) /\ ~WithEngine(s)'
    BY <1>0, <1>1, <1>16 DEF Timeout, Fail, Goto, WithEngine, rows
  <2> QED BY <1>7, <2>1
<1>17. CASE SendFails(s)
  <2>1. status' = status /\ Burst(s)' = Burst(s) /\ pc[s] = "send" /\ pc'[s] \in {"unlock", "handle"}
    BY <1>0, <1>1, <1>17, FaultAssumption DEF SendFails, Goto, Burst, rows
  <2>2. WithEngine(s) /\ ~Answering(s) /\ ~Answering(s)' BY <2>1 DEF WithEngine, Answering
  <2> QED BY <1>5, <1>7, <2>1, <2>2 DEF Unmoved
<1>18. CASE SendReply(s)
  <2>1. /\ status' = status /\ Burst(s)' = Burst(s) /\ pc[s] = "send" /\ pc'[s] = "commit"
        /\ result' = result
    BY <1>0, <1>1, <1>18 DEF SendReply, Goto, Burst, rows, turn
  <2>2. WithEngine(s) /\ WithEngine(s)' /\ ~Answering(s) /\ Answering(s)'
    BY <2>1 DEF WithEngine, Answering, PathInv, Sends
  <2>3. /\ Bursts[s] # {} /\ Bursts' = [Bursts EXCEPT ![s] = Burst(s)] /\ Bursts[s] = Burst(s)
        /\ s \notin Replied /\ Replied' = Replied \cup {s}
    BY <1>2, <1>3, <2>1, <2>2, MappingAt
  <2>4. Bursts' = Bursts BY <1>4, <2>3
  <2> QED BY <2>1, <2>3, <2>4, PromiseReplies DEF Follows, Promise!Next
<1> QED BY <1>9, <1>10, <1>11, <1>12, <1>13, <1>14, <1>15, <1>16, <1>17, <1>18 DEF JobStep

LEMMA PromiseInit == Init => Promise!Init
<1> SUFFICES ASSUME Init PROVE Promise!Init OBVIOUS
<1>1. \A s \in Slot : ~WithEngine(s) /\ ~Answering(s) BY DEF Init, WithEngine, Answering, Coroutine
<1>2. Bursts = [s \in Slot |-> {}] BY <1>1 DEF Bursts
<1>3. Replied = {} BY <1>1 DEF Replied, Answering
<1>4. status = [m \in Msg |-> "absent"] BY DEF Init
<1> QED BY <1>2, <1>3, <1>4, Zenon DEF Bursts, Replied, Promise!Init

LEMMA PromiseStep ==
  ASSUME PathInv, [Next]_vars PROVE Follows
<1>0. TypeInv BY DEF PathInv
<1>1. \A s \in Slot : s \in Coroutine BY DEF Coroutine
<1>2. pc \in [Coroutine -> Stage] BY <1>0 DEF TypeInv, TypeOK
<1>4. ASSUME UNCHANGED <<status, pc, head, extras, result>> PROVE Follows
  <2>1. \A t \in Slot : Unmoved(t) BY <1>4, UnmovedIf
  <2> QED BY <1>4, <2>1, MappingStays DEF Follows
<1>5. ASSUME NEW s \in Slot, JobStep(s) PROVE Follows BY <1>5, JobFollows
<1>6. ASSUME NEW s \in Slot, StartJob(s) PROVE Follows
  <2>1. status' = status /\ UNCHANGED <<head, extras, result>> BY <1>6 DEF StartJob, rows, turn
  <2>2. pc[s] = "idle" /\ pc'[s] = "lock" /\ \A t \in Slot \ {s} : pc'[t] = pc[t]
    BY <1>1, <1>2, <1>6 DEF StartJob, Goto
  <2>3. \A t \in Slot \ {s} : Unmoved(t) BY <2>1, <2>2, UnmovedIf
  <2>4. Unmoved(s) BY <2>2 DEF Unmoved, WithEngine, Answering
  <2> QED BY <2>1, <2>3, <2>4, MappingStays DEF Follows
<1>7. ASSUME NEW g \in Guest, GuestBegins(g) \/ GuestEnds(g) PROVE Follows
  BY <1>4, <1>7 DEF GuestBegins, GuestEnds, rows, turn
<1>8. ASSUME NEW w \in Worker, Crash(w) PROVE Follows
  <2> DEFINE J == {t \in Slot : WorkerOf[t] = w}
  <2>1. status' = status BY <1>8 DEF Crash
  <2>2. \A t \in Slot : IF WorkerOf[t] = w THEN pc'[t] = "idle"
                        ELSE pc'[t] = pc[t] /\ UNCHANGED <<head[t], extras[t], result[t]>>
    BY <1>1, <1>2, <1>8 DEF Crash
  <2>3. \A t \in Slot : IF t \in J THEN ~WithEngine(t)' /\ ~Answering(t)' ELSE Unmoved(t)
    <3>1. \A t \in J : ~WithEngine(t)' /\ ~Answering(t)' BY <2>2 DEF WithEngine, Answering
    <3>2. \A t \in Slot \ J : Unmoved(t) BY <2>2, UnmovedIf
    <3> QED BY <3>1, <3>2
  <2> HIDE DEF J
  <2>4. J \subseteq Slot BY DEF J
  <2>5. CASE J = {} BY <2>1, <2>3, <2>5, MappingStays DEF Follows
  <2>6. CASE J # {}
    <3>1. Bursts' = [t \in Slot |-> IF t \in J THEN {} ELSE Bursts[t]]
      BY <2>3 DEF Bursts, Burst, Unmoved
    <3>2. \A t : t \in Replied' <=> t \in Replied \ J BY <2>3 DEF Replied, Answering, Unmoved
    <3>3. Replied' = Replied \ J BY <3>2
    <3> QED BY <2>1, <2>4, <2>6, <3>1, <3>3, PromiseAbandons DEF Follows, Promise!Next
  <2> QED BY <2>5, <2>6
<1>9. ASSUME NEW S \in SUBSET Msg, Ingest(S) PROVE Follows
  <2> DEFINE new == {m \in S : status[m] = "absent"}
  <2>0. \A t \in Slot : Unmoved(t) BY <1>9, UnmovedIf DEF Ingest, turn
  <2>1. UNCHANGED <<Bursts, Replied>> BY <2>0, MappingStays
  <2>2. new \in SUBSET {m \in Msg : status[m] = "absent"} OBVIOUS
  <2>3. status' = [m \in Msg |-> IF m \in new THEN "queued" ELSE status[m]] BY <1>9 DEF Ingest
  <2> HIDE DEF new
  <2> QED BY <2>1, <2>2, <2>3, PromiseReceives DEF Follows, Promise!Next
<1>10. CASE AssignLead \/ EnqueueJob \/ LoseEnqueue \/ UNCHANGED vars
  BY <1>4, <1>10 DEF AssignLead, EnqueueJob, LoseEnqueue, vars, rows, turn
<1> QED BY <1>5, <1>6, <1>7, <1>8, <1>9, <1>10 DEF Next

\* However many jobs of the lead drain its queue at once and whichever connections
\* the pools hand out, every job answers at most once for a burst, only settling a
\* burst or skipping the queue takes messages out of the queue, and none returns to
\* it: the inbound path keeps the promise of process_lead_inbox, whatever fails.
THEOREM PromiseKept == Spec => KeepsPromise
<1>1. Init => PathInv BY PathInvInit
<1>2. PathInv /\ [Next]_vars => PathInv' BY PathInvStep
<1>3. PathInv /\ [Next]_vars => [Promise!Next]_(Promise!vars)
  BY PromiseStep DEF Follows, Bursts, Replied, Promise!vars
<1> QED BY <1>1, <1>2, <1>3, PromiseInit, PTL DEF Spec, KeepsPromise, Promise!Spec


-----------------------------------------------------------------------------
(* What is folded was read.                                                *)

\* A text that waits carries its own words.
WaitingText == \A m \in Queued \ Audio : m \in text[m]

\* A turn about to read has the words of the texts it took along, and of its own
\* head if the text in memory is not the row's; nothing is joined before the burst
\* is locked.
TurnText == \A s \in Slot :
  /\ pc[s] = "window" => body[s] = orig[s]
  /\ pc[s] = "turn" => extras[s] \ Audio \subseteq body[s]
  /\ pc[s] = "turn" /\ head[s] \in Queued \ Audio /\ body[s] # orig[s] => head[s] \in body[s]

\* A turn that has read has read them.
TurnRead == \A s \in Slot : WithEngine(s) /\ pc[s] # "turn" => extras[s] \ Audio \subseteq read

TextInv == PathInv /\ WaitingText /\ TurnText /\ TurnRead /\ FoldedWasRead

\* What a job writes into a text: that of its own head, settled, not a text, or
\* with the words in memory.
LEMMA TextMoves ==
  ASSUME TypeInv, NEW s \in Slot, JobStep(s), NEW m \in Msg
  PROVE  \/ text'[m] = text[m]
         \/ m \in Audio \/ status'[m] # "queued"
         \/ m = head[s] /\ pc[s] = "turn" /\ body[s] # orig[s] /\ text'[m] = body[s]
<1> USE DEF TypeInv, TypeOK
<1>1. CASE TryLock(s) \/ LoadLead(s) \/ SkipQueued(s) \/ Unlock(s) \/ CloseSession(s)
  BY <1>1 DEF TryLock, LoadLead, SkipQueued, Unlock, CloseSession, rows
<1>2. CASE FetchNext(s) \/ LockWindow(s) \/ AcquireTurnLock(s) \/ Timeout(s) \/ Decide(s)
  BY <1>2 DEF FetchNext, LockWindow, AcquireTurnLock, Timeout, Decide, rows
<1>3. CASE Fail(s) \/ SendReply(s) \/ SendFails(s) \/ CommitTurn(s)
  BY <1>3 DEF Fail, SendReply, SendFails, CommitTurn, rows
<1>4. CASE RejectAudio(s) BY <1>4 DEF RejectAudio, FlushText
<1>5. CASE Preprocess(s) BY <1>5 DEF Preprocess, FlushText, Goto
<1>6. CASE HandleError(s) BY <1>6 DEF HandleError
<1>7. CASE Settle(s) BY <1>7 DEF Settle, SettleRows, FlushText
<1> QED BY <1>1, <1>2, <1>3, <1>4, <1>5, <1>6, <1>7 DEF JobStep

\* Where a job comes to read, has read and folds.
LEMMA ReadMoves ==
  ASSUME TypeInv, NEW s \in Slot, JobStep(s)
  PROVE  /\ pc'[s] = "window" => body'[s] = orig'[s]
         /\ pc'[s] = "turn" => LockWindow(s) /\ pc[s] = "window"
         /\ \/ ~WithEngine(s)' \/ pc'[s] = "turn"
            \/ Preprocess(s) /\ pc[s] = "turn" /\ extras' = extras
            \/ WithEngine(s) /\ pc[s] # "turn" /\ extras' = extras
         /\ read \subseteq read'
         /\ \A m \in Msg : detail'[m] = "folded" =>
              \/ detail[m] = "folded"
              \/ pc[s] = "settle" /\ m \in extras[s]
<1> USE DEF TypeInv, TypeOK, Coroutine, Goto, WithEngine
<1>1. CASE TryLock(s) \/ LoadLead(s) \/ SkipQueued(s) \/ Unlock(s) \/ CloseSession(s)
  BY <1>1 DEF TryLock, LoadLead, SkipQueued, Unlock, CloseSession, rows
<1>2. CASE FetchNext(s) BY <1>2 DEF FetchNext, rows
<1>3. CASE LockWindow(s) BY <1>3 DEF LockWindow
<1>4. CASE AcquireTurnLock(s) \/ Timeout(s) \/ Decide(s)
  BY <1>4 DEF AcquireTurnLock, Timeout, Decide, rows, turn
<1>5. CASE Fail(s) \/ SendReply(s) \/ CommitTurn(s)
  BY <1>5 DEF Fail, SendReply, CommitTurn, rows, turn
<1>6. CASE SendFails(s) BY <1>6, FaultAssumption DEF SendFails, rows
<1>7. CASE RejectAudio(s) BY <1>7 DEF RejectAudio
<1>8. CASE Preprocess(s) BY <1>8 DEF Preprocess
<1>9. CASE HandleError(s) BY <1>9 DEF HandleError, Handling, Result
<1>10. CASE Settle(s)
  <2>1. pc[s] = "settle" /\ pc'[s] = "fetch" /\ read' = read BY <1>10 DEF Settle, SettleRows
  <2>2. \A m \in Msg : m \notin extras[s] => detail'[m] # "folded" \/ detail[m] = "folded"
    BY <1>10 DEF Settle, SettleRows, Result
  <2> QED BY <2>1, <2>2
<1> QED BY <1>1, <1>2, <1>3, <1>4, <1>5, <1>6, <1>7, <1>8, <1>9, <1>10 DEF JobStep

\* The burst as LockWindow takes it, with the words it joins.
LEMMA BurstRead ==
  ASSUME TextInv, NEW s \in Slot, LockWindow(s)
  PROVE  /\ extras'[s] \ Audio \subseteq body'[s]
         /\ head'[s] \in Queued \ Audio /\ body'[s] # orig'[s] => head'[s] \in body'[s]
<1> DEFINE burst == Companions(head[s])
<1>1. /\ head' = head /\ orig' = orig /\ pc[s] = "window"
      /\ extras'[s] = burst \ {head[s]} /\ body'[s] = Consolidated(s, burst)
  BY DEF LockWindow, Goto, TextInv, PathInv, TypeInv, TypeOK
<1>2. body[s] = orig[s] BY <1>1 DEF TextInv, TurnText
<1>3. head[s] \in Msg BY <1>1 DEF TextInv, PathInv, HeadStored
<1>4. burst \subseteq Queued BY DEF Companions
<1>5. head[s] \in Queued => head[s] \in burst
  <2>1. \A i, n \in Nat : i <= i /\ i <= i + n OBVIOUS
  <2>2. head[s] \in Nat /\ Window \in Nat BY <1>3, MsgAssumption, BoundAssumption
  <2> QED BY <2>1, <2>2 DEF Companions
<1>6. \A m \in Queued \ Audio : m \in Words(m) BY DEF TextInv, WaitingText, Words
<1> HIDE DEF burst
<1>7. CASE burst \subseteq {head[s]}
  <2>1. body'[s] = orig'[s] BY <1>1, <1>2, <1>7 DEF Consolidated
  <2> QED BY <1>1, <1>7, <2>1
<1>8. CASE ~(burst \subseteq {head[s]})
  <2>1. body'[s] = UNION {Words(m) : m \in burst} BY <1>1, <1>8 DEF Consolidated
  <2>2. \A m \in burst \ Audio : m \in body'[s] BY <1>4, <1>6, <2>1
  <2> QED BY <1>1, <1>5, <2>2
<1> QED BY <1>7, <1>8

LEMMA TextInvStep == TextInv /\ [Next]_vars => TextInv'
<1> SUFFICES ASSUME TextInv, [Next]_vars PROVE TextInv' OBVIOUS
<1>0. PathInv /\ TypeInv /\ PathInv' BY PathInvStep DEF TextInv, PathInv
<1> DEFINE Own(t) ==
      /\ pc'[t] = "window" => body'[t] = orig'[t]
      /\ pc'[t] = "turn" => extras'[t] \ Audio \subseteq body'[t]
      /\ pc'[t] = "turn" /\ head'[t] \in Queued' \ Audio /\ body'[t] # orig'[t] => head'[t] \in body'[t]
      /\ WithEngine(t)' /\ pc'[t] # "turn" => extras'[t] \ Audio \subseteq read'
<1>1. SUFFICES ASSUME TRUE PROVE WaitingText' /\ FoldedWasRead' /\ \A t \in Slot : Own(t)
  BY <1>0, <1>1 DEF TextInv, TurnText, TurnRead
<1>2. ASSUME NEW t \in Slot, read \subseteq read',
             head[t] \in Msg /\ head[t] \in Queued' /\ WithEngine(t) => head[t] \in Queued,
             pc'[t] = pc[t], head'[t] = head[t], extras'[t] = extras[t], body'[t] = body[t], orig'[t] = orig[t]
      PROVE  Own(t)
  <2>1. pc[t] = "turn" => WithEngine(t) /\ head[t] \in Msg
    BY DEF TextInv, PathInv, HeadStored, WithEngine
  <2> QED BY <1>2, <2>1 DEF TextInv, TurnText, TurnRead, WithEngine
<1>3. ASSUME NEW s \in Slot, JobStep(s) PROVE WaitingText' /\ FoldedWasRead' /\ \A t \in Slot : Own(t)
  <2>1. Queued' \subseteq Queued BY <1>0, <1>3, JobRows
  <2>2. WaitingText'
    <3> SUFFICES ASSUME NEW m \in Queued' \ Audio PROVE m \in text'[m] BY DEF WaitingText
    <3>1. m \in Msg /\ m \in Queued \ Audio /\ status'[m] = "queued" BY <2>1 DEF Queued
    <3>2. m \in text[m] BY <3>1 DEF TextInv, WaitingText
    <3>3. CASE m = head[s] /\ pc[s] = "turn" /\ body[s] # orig[s] /\ text'[m] = body[s]
      BY <3>1, <3>3 DEF TextInv, TurnText
    <3> QED BY <1>0, <1>3, <3>1, <3>2, <3>3, TextMoves
  <2>3. FoldedWasRead'
    <3> SUFFICES ASSUME NEW m \in Msg \ Audio, detail'[m] = "folded" PROVE m \in read' BY DEF FoldedWasRead
    <3>0. /\ read \subseteq read'
          /\ \A n \in Msg : detail'[n] = "folded" => detail[n] = "folded" \/ (pc[s] = "settle" /\ n \in extras[s])
      BY <1>0, <1>3, ReadMoves, Zenon
    <3>1. read \subseteq read' /\ (detail[m] = "folded" \/ (pc[s] = "settle" /\ m \in extras[s]))
      BY <3>0
    <3>2. CASE detail[m] = "folded" BY <3>1, <3>2 DEF TextInv, FoldedWasRead
    <3>3. CASE pc[s] = "settle" /\ m \in extras[s] BY <3>1, <3>3 DEF TextInv, TurnRead, WithEngine
    <3> QED BY <3>1, <3>2, <3>3
  <2>4. \A t \in Slot \ {s} : Own(t) BY <1>0, <1>2, <1>3, <2>1, OthersKeep, ReadMoves
  <2>5. Own(s)
    <3>1. pc'[s] = "window" => body'[s] = orig'[s] BY <1>0, <1>3, ReadMoves
    <3>2. ASSUME pc'[s] = "turn"
          PROVE  /\ extras'[s] \ Audio \subseteq body'[s]
                 /\ head'[s] \in Queued' \ Audio /\ body'[s] # orig'[s] => head'[s] \in body'[s]
      <4>1. LockWindow(s) BY <1>0, <1>3, <3>2, ReadMoves
      <4> QED BY <2>1, <4>1, BurstRead
    <3>3. ASSUME WithEngine(s)', pc'[s] # "turn" PROVE extras'[s] \ Audio \subseteq read'
      <4>1. CASE Preprocess(s) /\ pc[s] = "turn" /\ extras' = extras
        <5>1. extras[s] \ Audio \subseteq body[s] BY <4>1 DEF TextInv, TurnText
        <5>2. body[s] # {} => body[s] \subseteq read' BY <4>1 DEF Preprocess, Inbound
        <5> QED BY <4>1, <5>1, <5>2
      <4>2. CASE WithEngine(s) /\ pc[s] # "turn" /\ extras' = extras
        <5>1. read \subseteq read' BY <1>0, <1>3, ReadMoves
        <5> QED BY <4>2, <5>1 DEF TextInv, TurnRead
      <4> QED BY <1>0, <1>3, <3>3, <4>1, <4>2, ReadMoves
    <3> QED BY <3>1, <3>2, <3>3
  <2> QED BY <2>2, <2>3, <2>4, <2>5
<1>4. ASSUME UNCHANGED <<status, text, detail, read>>,
             \A t \in Slot : \/ pc'[t] \in {"idle", "lock"}
                             \/ /\ pc'[t] = pc[t] /\ head'[t] = head[t] /\ extras'[t] = extras[t]
                                /\ body'[t] = body[t] /\ orig'[t] = orig[t]
      PROVE  WaitingText' /\ FoldedWasRead' /\ \A t \in Slot : Own(t)
  <2>1. WaitingText' /\ FoldedWasRead' /\ Queued' = Queued
    BY <1>4 DEF TextInv, WaitingText, FoldedWasRead, Queued
  <2>2. ASSUME NEW t \in Slot PROVE Own(t)
    <3>1. CASE pc'[t] \in {"idle", "lock"} BY <3>1 DEF WithEngine
    <3> QED BY <1>2, <1>4, <2>1, <2>2, <3>1
  <2> QED BY <2>1, <2>2
<1>5. ASSUME NEW s \in Slot, StartJob(s) PROVE WaitingText' /\ FoldedWasRead' /\ \A t \in Slot : Own(t)
  BY <1>0, <1>4, <1>5 DEF StartJob, Goto, rows, turn, TypeInv, TypeOK, Coroutine
<1>6. ASSUME NEW g \in Guest, GuestBegins(g) \/ GuestEnds(g)
      PROVE  WaitingText' /\ FoldedWasRead' /\ \A t \in Slot : Own(t)
  BY <1>4, <1>6 DEF GuestBegins, GuestEnds, rows, turn
<1>7. ASSUME NEW w \in Worker, Crash(w) PROVE WaitingText' /\ FoldedWasRead' /\ \A t \in Slot : Own(t)
  BY <1>0, <1>4, <1>7 DEF Crash, TypeInv, TypeOK, Coroutine
<1>8. ASSUME NEW S \in SUBSET Msg, Ingest(S) PROVE WaitingText' /\ FoldedWasRead' /\ \A t \in Slot : Own(t)
  <2>1. WaitingText' BY <1>8 DEF Ingest, TextInv, WaitingText, Queued, PathInv, TypeInv, TypeOK
  <2>2. FoldedWasRead' BY <1>8 DEF Ingest, TextInv, FoldedWasRead
  <2>3. \A m \in Msg : m \in Queued' /\ status[m] # "absent" => m \in Queued BY <1>8 DEF Ingest, Queued
  <2>4. ASSUME NEW t \in Slot PROVE Own(t)
    <3>1. WithEngine(t) => status[head[t]] # "absent" BY DEF TextInv, PathInv, HeadStored
    <3> QED BY <1>2, <1>8, <2>3, <2>4, <3>1 DEF Ingest, turn
  <2> QED BY <2>1, <2>2, <2>4
<1>9. CASE AssignLead \/ EnqueueJob \/ LoseEnqueue \/ UNCHANGED vars
  BY <1>4, <1>9 DEF AssignLead, EnqueueJob, LoseEnqueue, vars, rows, turn
<1> QED BY <1>3, <1>5, <1>6, <1>7, <1>8, <1>9 DEF Next

LEMMA TextInvInit == Init => TextInv
BY PathInvInit DEF Init, TextInv, WaitingText, TurnText, TurnRead, FoldedWasRead, WithEngine, Queued, Coroutine

\* A text marked as folded into another message was in what a turn read, whatever
\* failed and however many jobs drained the queue at once.
THEOREM FoldedTextRead == Spec => []FoldedWasRead
<1>1. Init => TextInv BY TextInvInit
<1>2. TextInv /\ [Next]_vars => TextInv' BY TextInvStep
<1>3. TextInv => FoldedWasRead BY DEF TextInv
<1> QED BY <1>1, <1>2, <1>3, PTL DEF Spec
=============================================================================
