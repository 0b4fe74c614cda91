----------------------------- MODULE PoolProofs -----------------------------
(***************************************************************************)
(* Proofs about Pool, for every set of items, workers and stoppers and     *)
(* every queue size.                                                       *)
(*                                                                         *)
(* ExactlyOnce and ClosedOnce are inductive once ShutdownInv is added:     *)
(* nobody has left "new" before the flag is set, the channel is closed     *)
(* only after it, and a worker that has left saw the channel closed and    *)
(* empty, which it then stays because a closed channel accepts nothing.    *)
(* GracefulDrain follows from the conjunction.                             *)
(***************************************************************************)
EXTENDS Pool, FiniteSetTheorems, TLAPS

\* What the flag, the channel and the workers' exits say about each other.
ShutdownInv ==
    /\ closed => stopped
    /\ cancelled => stopped
    /\ \A s \in Stoppers : stop[s] # "new" => stopped
    /\ \A w \in Workers : worker[w] = Exited => closed /\ work = <<>>
    /\ \A s \in Stoppers : stop[s] = "drained" => \A w \in Workers : worker[w] = Exited

IInv == TypeOK /\ ExactlyOnce /\ ClosedOnce /\ ShutdownInv

-----------------------------------------------------------------------------
(* Facts about the buffer. *)

\* What a send does to the buffer (Accept).
LEMMA AppendFacts ==
  ASSUME NEW S, NEW q \in Seq(S), NEW x \in S
  PROVE  /\ Append(q, x) \in Seq(S)
         /\ Len(Append(q, x)) = Len(q) + 1
         /\ \A k \in 1..Len(q) : Append(q, x)[k] = q[k]
         /\ Append(q, x)[Len(q) + 1] = x
         /\ Append(q, x) # <<>>
  OBVIOUS

\* What a receive does to the buffer (Receive).
LEMMA TailFacts ==
  ASSUME NEW S, NEW q \in Seq(S), q # <<>>
  PROVE  /\ Len(q) \in Nat /\ Len(q) > 0
         /\ Head(q) \in S
         /\ Head(q) = q[1]
         /\ Tail(q) \in Seq(S)
         /\ Len(Tail(q)) = Len(q) - 1
         /\ \A k \in 1..Len(q) - 1 : Tail(q)[k] = q[k + 1]
  OBVIOUS

-----------------------------------------------------------------------------
(* What a step moves. *)

\* A successful send puts its item in the buffer and moves no other.
LEMMA AcceptPlaces ==
  ASSUME TypeOK, NEW i \in Items, Accept(i)
  PROVE  \A j \in Items : (Queued(j)' <=> Queued(j) \/ j = i) /\ (Running(j)' <=> Running(j))
<1>a. /\ Len(work) \in Nat
      /\ Len(work') = Len(work) + 1
      /\ \A k \in 1..Len(work) : work'[k] = work[k]
      /\ work'[Len(work) + 1] = i
  BY AppendFacts DEF Accept, TypeOK
<1> TAKE j \in Items
<1>1. Queued(j) \/ j = i => Queued(j)'
  BY <1>a DEF Queued
<1>2. Queued(j)' => Queued(j) \/ j = i
  <2> SUFFICES ASSUME NEW k \in 1..Len(work'), work'[k] = j PROVE Queued(j) \/ j = i
    BY DEF Queued
  <2>1. CASE k \in 1..Len(work)
    BY <2>1, <1>a DEF Queued
  <2>2. CASE k = Len(work) + 1
    BY <2>2, <1>a
  <2> QED
    BY <2>1, <2>2, <1>a
<1>3. Running(j)' <=> Running(j)
  BY DEF Running, Accept
<1> QED
  BY <1>1, <1>2, <1>3

\* A receive moves the oldest item, which nobody has yet, to the worker.
LEMMA ReceivePlaces ==
  ASSUME TypeOK, ExactlyOnce, NEW w \in Workers, Receive(w)
  PROVE  /\ Head(work) \in Items
         /\ Queued(Head(work)) /\ ~Running(Head(work))
         /\ pc[Head(work)] = "accepted" /\ done[Head(work)] = 0
         /\ \A j \in Items : /\ Queued(j)' <=> Queued(j) /\ j # Head(work)
                             /\ Running(j)' <=> Running(j) \/ j = Head(work)
<1> DEFINE i == Head(work)
<1>a. /\ Len(work) \in Nat /\ Len(work) > 0
      /\ i \in Items /\ i = work[1]
      /\ Len(work') = Len(work) - 1
      /\ \A k \in 1..Len(work') : work'[k] = work[k + 1]
      /\ worker' = [worker EXCEPT ![w] = i]
  BY TailFacts DEF Receive, TypeOK
<1> HIDE DEF i
<1>b. Queued(i) /\ pc[i] = "accepted" /\ done[i] = 0 /\ ~Running(i)
  BY <1>a DEF ExactlyOnce, Queued
<1>c. ASSUME NEW j \in Items PROVE Queued(j)' => Queued(j) /\ j # i
  <2> SUFFICES ASSUME NEW k \in 1..Len(work') PROVE work'[k] # i /\ k + 1 \in 1..Len(work)
    BY <1>a DEF Queued
  <2> QED
    BY <1>a DEF ExactlyOnce
<1>d. ASSUME NEW j \in Items PROVE Queued(j) => Queued(j)' \/ j = i
  <2> SUFFICES ASSUME NEW k \in 1..Len(work), work[k] # i
               PROVE  \E m \in 1..Len(work') : work'[m] = work[k]
    BY DEF Queued
  <2>1. k - 1 \in 1..Len(work') /\ work'[k - 1] = work[k]
    BY <1>a
  <2> QED
    BY <2>1
<1>e. ASSUME NEW j \in Items PROVE Running(j)' <=> Running(j) \/ j = i
  <2>1. worker[w] = Idle
    BY DEF Receive
  <2> QED
    BY <1>a, <2>1, ItemsAssumption DEF Running, TypeOK
<1> QED
  BY <1>a, <1>b, <1>c, <1>d, <1>e DEF i

\* A Process function that returns takes its item out of the pool.
LEMMA ProcessPlaces ==
  ASSUME TypeOK, ExactlyOnce, NEW w \in Workers, Process(w)
  PROVE  /\ worker[w] \in Items
         /\ Running(worker[w]) /\ ~Queued(worker[w])
         /\ pc[worker[w]] = "accepted" /\ done[worker[w]] = 0
         /\ \A j \in Items : /\ Queued(j)' <=> Queued(j)
                             /\ Running(j)' <=> Running(j) /\ j # worker[w]
<1> DEFINE i == worker[w]
<1>a. /\ i \in Items /\ Running(i) /\ ~Queued(i) /\ pc[i] = "accepted" /\ done[i] = 0
      /\ worker' = [worker EXCEPT ![w] = Idle]
  BY DEF Process, ExactlyOnce, Running
<1>b. \A j \in Items : Queued(j)' <=> Queued(j)
  BY DEF Process, Queued
<1>c. \A j \in Items : Running(j)' <=> Running(j) /\ j # i
  <2>1. \A v \in Workers : v # w => worker[v] # i
    BY <1>a DEF ExactlyOnce
  <2> QED
    BY <1>a, <2>1, ItemsAssumption DEF Running, TypeOK
<1> QED
  BY <1>a, <1>b, <1>c

-----------------------------------------------------------------------------

\* NewPool starts in a state that satisfies the inductive invariant.
LEMMA InitIInv == Init => IInv
<1> SUFFICES ASSUME Init PROVE IInv
  OBVIOUS
<1>1. TypeOK
  <2>1. work \in Seq(Items) /\ Len(work) <= QueueSize
    BY QueueSizeAssumption DEF Init
  <2>2. worker \in [Workers -> Items \cup {Idle, Exited}]
    BY DEF Init
  <2>3. pc \in [Items -> CallerStates] /\ stop \in [Stoppers -> StopStates] /\ done \in [Items -> Nat]
    BY DEF Init, CallerStates, StopStates
  <2> QED
    BY <2>1, <2>2, <2>3 DEF Init, TypeOK
<1>2. ExactlyOnce
  BY ItemsAssumption DEF Init, ExactlyOnce, Queued, Running
<1>3. ClosedOnce
  BY DEF Init, ClosedOnce
<1>4. ShutdownInv
  BY DEF Init, ShutdownInv, Idle, Exited
<1> QED
  BY <1>1, <1>2, <1>3, <1>4 DEF IInv

\* Refusing an item that was never accepted.
LEMMA RefusePreserves ==
  ASSUME IInv, NEW i \in Items, pc[i] \in {"new", "full"}, Refuse(i)
  PROVE  IInv'
<1> USE DEF IInv
<1>1. TypeOK'
  BY DEF TypeOK, Refuse, Complete, CallerStates
<1>2. ExactlyOnce'
  BY DEF TypeOK, ExactlyOnce, Refuse, Complete, Queued, Running, CallerStates
<1>3. ClosedOnce' /\ ShutdownInv'
  BY DEF ClosedOnce, ShutdownInv, Refuse
<1> QED
  BY <1>1, <1>2, <1>3

\* A successful send of an item that is nowhere yet.
LEMMA AcceptPreserves ==
  ASSUME IInv, NEW i \in Items, pc[i] \in {"checked", "full"}, ~closed, ~Full, Accept(i)
  PROVE  IInv'
<1> USE DEF IInv
<1>a. /\ work' \in Seq(Items)
      /\ Len(work') = Len(work) + 1
      /\ \A k \in 1..Len(work) : work'[k] = work[k]
      /\ work'[Len(work) + 1] = i
      /\ Len(work) \in Nat
  BY AppendFacts DEF Accept, TypeOK
<1>1. TypeOK'
  BY <1>a, QueueSizeAssumption DEF TypeOK, Accept, CallerStates, Full
<1>b. ~Queued(i) /\ ~Running(i) /\ done[i] = 0
  BY DEF ExactlyOnce
<1>c. \A j \in Items : (Queued(j)' <=> Queued(j) \/ j = i) /\ (Running(j)' <=> Running(j))
  BY AcceptPlaces
<1>2. ExactlyOnce'
  <2>1. \A j, k \in 1..Len(work') : work'[j] = work'[k] => j = k
    <3> SUFFICES ASSUME NEW j \in 1..Len(work'), NEW k \in 1..Len(work'), work'[j] = work'[k]
                 PROVE  j = k
      OBVIOUS
    <3>1. CASE j \in 1..Len(work) /\ k \in 1..Len(work)
      BY <3>1, <1>a DEF ExactlyOnce
    <3>2. CASE j = Len(work) + 1 /\ k \in 1..Len(work)
      BY <3>2, <1>a, <1>b DEF Queued
    <3>3. CASE k = Len(work) + 1 /\ j \in 1..Len(work)
      BY <3>3, <1>a, <1>b DEF Queued
    <3> QED
      BY <3>1, <3>2, <3>3, <1>a
  <2>2. \A v, w \in Workers : worker'[v] = worker'[w] /\ worker'[v] \in Items => v = w
    BY DEF ExactlyOnce, Accept
  <2>3. ASSUME NEW j \in Items
        PROVE  /\ Queued(j)' => pc'[j] = "accepted" /\ done'[j] = 0 /\ ~Running(j)'
               /\ Running(j)' => pc'[j] = "accepted" /\ done'[j] = 0
               /\ pc'[j] = "accepted" => Queued(j)' \/ Running(j)' \/ done'[j] = 1
               /\ pc'[j] = "refused" => done'[j] = 1
               /\ pc'[j] \in {"new", "checked", "full", "panicked"} => done'[j] = 0
    <3>1. CASE j = i
      BY <3>1, <1>b, <1>c DEF Accept, TypeOK
    <3>2. CASE j # i
      BY <3>2, <1>c DEF Accept, TypeOK, ExactlyOnce
    <3> QED
      BY <3>1, <3>2
  <2> QED
    BY <2>1, <2>2, <2>3 DEF ExactlyOnce
<1>3. ClosedOnce'
  BY DEF ClosedOnce, Accept
<1>4. ShutdownInv'
  BY DEF ShutdownInv, Accept
<1> QED
  BY <1>1, <1>2, <1>3, <1>4

\* Every step of a caller of Submit.
LEMMA SubmitPreserves ==
  ASSUME IInv, NEW i \in Items, Submit(i)
  PROVE  IInv'
<1>1. CASE CheckStopped(i)
  <2>1. CASE Refuse(i)
    BY <1>1, <2>1, RefusePreserves DEF CheckStopped
  <2>2. CASE ~stopped /\ pc' = [pc EXCEPT ![i] = "checked"]
             /\ UNCHANGED <<stopped, closed, cancelled, work, worker, stop, done>>
    <3>1. TypeOK'
      BY <2>2 DEF IInv, TypeOK, CallerStates
    <3>2. ExactlyOnce'
      BY <1>1, <2>2 DEF IInv, TypeOK, ExactlyOnce, Queued, Running, CheckStopped
    <3>3. ClosedOnce' /\ ShutdownInv'
      BY <2>2 DEF IInv, ClosedOnce, ShutdownInv
    <3> QED
      BY <3>1, <3>2, <3>3 DEF IInv
  <2> QED
    BY <1>1, <2>1, <2>2 DEF CheckStopped
<1>2. CASE TrySend(i)
  BY <1>2, AcceptPreserves DEF TrySend
<1>3. CASE Backpressure(i)
  <2>1. TypeOK'
    BY <1>3 DEF IInv, TypeOK, CallerStates, Backpressure
  <2>2. ExactlyOnce'
    BY <1>3 DEF IInv, TypeOK, ExactlyOnce, Queued, Running, Backpressure
  <2>3. ClosedOnce' /\ ShutdownInv'
    BY <1>3 DEF IInv, ClosedOnce, ShutdownInv, Backpressure
  <2> QED
    BY <2>1, <2>2, <2>3 DEF IInv
<1>4. CASE BlockingSend(i)
  BY <1>4, AcceptPreserves DEF BlockingSend
<1>5. CASE SubmitCancelled(i)
  BY <1>5, RefusePreserves DEF SubmitCancelled
<1>6. CASE SendPanics(i)
  <2>1. TypeOK'
    BY <1>6 DEF IInv, TypeOK, CallerStates, SendPanics
  <2>2. ExactlyOnce'
    BY <1>6 DEF IInv, TypeOK, ExactlyOnce, Queued, Running, SendPanics
  <2>3. ClosedOnce' /\ ShutdownInv'
    BY <1>6 DEF IInv, ClosedOnce, ShutdownInv, SendPanics
  <2> QED
    BY <2>1, <2>2, <2>3 DEF IInv
<1> QED
  BY <1>1, <1>2, <1>3, <1>4, <1>5, <1>6 DEF Submit

\* Every step of a worker: receive, process, leave.
LEMMA WorkPreserves ==
  ASSUME IInv, NEW w \in Workers, Work(w)
  PROVE  IInv'
<1> USE DEF IInv
<1>1. CASE Receive(w)
  <2> DEFINE i == Head(work)
  <2>a. /\ Len(work) \in Nat /\ Len(work) > 0
        /\ i \in Items /\ i = work[1]
        /\ work' = Tail(work)
        /\ work' \in Seq(Items)
        /\ Len(work') = Len(work) - 1
        /\ \A k \in 1..Len(work') : work'[k] = work[k + 1]
        /\ worker' = [worker EXCEPT ![w] = i]
    BY <1>1, TailFacts DEF Receive, TypeOK
  <2> HIDE DEF i
  <2>b. /\ Queued(i) /\ pc[i] = "accepted" /\ done[i] = 0 /\ ~Running(i)
        /\ \A j \in Items : /\ Queued(j)' <=> Queued(j) /\ j # i
                            /\ Running(j)' <=> Running(j) \/ j = i
    BY <1>1, ReceivePlaces DEF i
  <2>1. TypeOK'
    BY <1>1, <2>a, QueueSizeAssumption DEF TypeOK, Receive
  <2>2. ExactlyOnce'
    <3>1. \A j, k \in 1..Len(work') : work'[j] = work'[k] => j = k
      BY <2>a DEF ExactlyOnce
    <3>2. \A v, u \in Workers : worker'[v] = worker'[u] /\ worker'[v] \in Items => v = u
      BY <2>a, <2>b DEF ExactlyOnce, Running, TypeOK
    <3>3. ASSUME NEW j \in Items
          PROVE  /\ Queued(j)' => pc'[j] = "accepted" /\ done'[j] = 0 /\ ~Running(j)'
                 /\ Running(j)' => pc'[j] = "accepted" /\ done'[j] = 0
                 /\ pc'[j] = "accepted" => Queued(j)' \/ Running(j)' \/ done'[j] = 1
                 /\ pc'[j] = "refused" => done'[j] = 1
                 /\ pc'[j] \in {"new", "checked", "full", "panicked"} => done'[j] = 0
      BY <1>1, <2>b DEF Receive, ExactlyOnce
    <3> QED
      BY <3>1, <3>2, <3>3 DEF ExactlyOnce
  <2>3. ClosedOnce'
    BY <1>1 DEF ClosedOnce, Receive
  <2>4. ShutdownInv'
    <3>1. \A v \in Workers : worker'[v] # Exited
      BY <1>1, <2>a, ItemsAssumption DEF Receive, ShutdownInv, TypeOK
    <3>2. \A s \in Stoppers : stop[s] # "drained"
      BY <1>1 DEF Receive, ShutdownInv, Idle, Exited
    <3> QED
      BY <1>1, <3>1, <3>2 DEF Receive, ShutdownInv
  <2> QED
    BY <2>1, <2>2, <2>3, <2>4
<1>2. CASE Process(w)
  <2> DEFINE i == worker[w]
  <2>a. /\ i \in Items /\ Running(i) /\ ~Queued(i) /\ pc[i] = "accepted" /\ done[i] = 0
        /\ \A j \in Items : (Queued(j)' <=> Queued(j)) /\ (Running(j)' <=> Running(j) /\ j # i)
        /\ worker' = [worker EXCEPT ![w] = Idle]
        /\ done' = [done EXCEPT ![i] = done[i] + 1]
    BY <1>2, ProcessPlaces DEF Process, Complete
  <2> HIDE DEF i
  <2>1. TypeOK'
    BY <1>2, <2>a DEF TypeOK, Process
  <2>2. ExactlyOnce'
    <3>1. \A j, k \in 1..Len(work') : work'[j] = work'[k] => j = k
      BY <1>2 DEF ExactlyOnce, Process
    <3>2. \A v, u \in Workers : worker'[v] = worker'[u] /\ worker'[v] \in Items => v = u
      BY <2>a, ItemsAssumption DEF ExactlyOnce, TypeOK
    <3>3. ASSUME NEW j \in Items
          PROVE  /\ Queued(j)' => pc'[j] = "accepted" /\ done'[j] = 0 /\ ~Running(j)'
                 /\ Running(j)' => pc'[j] = "accepted" /\ done'[j] = 0
                 /\ pc'[j] = "accepted" => Queued(j)' \/ Running(j)' \/ done'[j] = 1
                 /\ pc'[j] = "refused" => done'[j] = 1
                 /\ pc'[j] \in {"new", "checked", "full", "panicked"} => done'[j] = 0
      <4>1. CASE j = i
        BY <4>1, <1>2, <2>a DEF Process, TypeOK
      <4>2. CASE j # i
        BY <4>2, <1>2, <2>a DEF Process, TypeOK, ExactlyOnce
      <4> QED
        BY <4>1, <4>2
    <3> QED
      BY <3>1, <3>2, <3>3 DEF ExactlyOnce
  <2>3. ClosedOnce'
    BY <1>2 DEF ClosedOnce, Process
  <2>4. ShutdownInv'
    <3>1. \A v \in Workers : worker'[v] = Exited => worker[v] = Exited
      BY <2>a DEF TypeOK, Idle, Exited
    <3>2. \A s \in Stoppers : stop[s] # "drained"
      BY <1>2, ItemsAssumption DEF Process, ShutdownInv
    <3> QED
      BY <1>2, <3>1, <3>2 DEF Process, ShutdownInv
  <2> QED
    BY <2>1, <2>2, <2>3, <2>4
<1>3. CASE Exit(w)
  <2>a. /\ worker[w] = Idle /\ closed /\ work = <<>>
        /\ worker' = [worker EXCEPT ![w] = Exited]
        /\ UNCHANGED <<stopped, closed, cancelled, work, pc, stop, done>>
    BY <1>3 DEF Exit
  <2>1. TypeOK'
    BY <2>a DEF TypeOK
  <2>b. \A j \in Items : (Running(j)' <=> Running(j)) /\ (Queued(j)' <=> Queued(j))
    BY <2>a, ItemsAssumption DEF Running, Queued, TypeOK
  <2>c. \A v, u \in Workers : worker'[v] = worker'[u] /\ worker'[v] \in Items => v = u
    BY <2>a, ItemsAssumption DEF ExactlyOnce, TypeOK
  <2>2. ExactlyOnce'
    BY <2>a, <2>b, <2>c DEF ExactlyOnce
  <2>3. ClosedOnce'
    BY <2>a DEF ClosedOnce
  <2>4. ShutdownInv'
    BY <2>a DEF ShutdownInv, TypeOK
  <2> QED
    BY <2>1, <2>2, <2>3, <2>4
<1> QED
  BY <1>1, <1>2, <1>3 DEF Work

\* Every step of a caller of Shutdown.
LEMMA ShutdownPreserves ==
  ASSUME IInv, NEW s \in Stoppers, Shutdown(s)
  PROVE  IInv'
<1> USE DEF IInv
<1>0. work' = work /\ pc' = pc /\ worker' = worker /\ done' = done
  BY DEF Shutdown, Swap, CloseWork, Drained, Deadline
<1>1. ExactlyOnce'
  BY <1>0 DEF ExactlyOnce, Queued, Running
<1>2. TypeOK'
  BY <1>0 DEF TypeOK, Shutdown, Swap, CloseWork, Drained, Deadline, StopStates
<1>3. ClosedOnce' /\ ShutdownInv'
  <2>1. CASE Swap(s)
    BY <2>1 DEF Swap, ClosedOnce, ShutdownInv, TypeOK
  <2>2. CASE CloseWork(s)
    BY <2>2 DEF CloseWork, ClosedOnce, ShutdownInv, TypeOK
  <2>3. CASE Drained(s)
    BY <2>3 DEF Drained, ClosedOnce, ShutdownInv, TypeOK
  <2>4. CASE Deadline(s)
    BY <2>4 DEF Deadline, ClosedOnce, ShutdownInv, TypeOK
  <2> QED
    BY <2>1, <2>2, <2>3, <2>4 DEF Shutdown
<1> QED
  BY <1>1, <1>2, <1>3

\* IInv is inductive.
LEMMA NextIInv == IInv /\ [Next]_vars => IInv'
<1> SUFFICES ASSUME IInv, [Next]_vars PROVE IInv'
  OBVIOUS
<1>1. CASE UNCHANGED vars
  BY <1>1 DEF vars, IInv, TypeOK, ExactlyOnce, ClosedOnce, ShutdownInv, Queued, Running
<1>2. CASE \E i \in Items : Submit(i)
  BY <1>2, SubmitPreserves
<1>3. CASE \E w \in Workers : Work(w)
  BY <1>3, WorkPreserves
<1>4. CASE \E s \in Stoppers : Shutdown(s)
  BY <1>4, ShutdownPreserves
<1> QED
  BY <1>1, <1>2, <1>3, <1>4 DEF Next, Terminated

\* The inductive invariant is an invariant of the pool.
THEOREM PoolInductive == Spec => []IInv
  BY InitIInv, NextIInv, PTL DEF Spec

\* The types of the pool's state, and the bound on its queue.
THEOREM PoolTypeCorrect == Spec => []TypeOK
<1>1. IInv => TypeOK
  BY DEF IInv
<1> QED
  BY <1>1, PoolInductive, PTL

\* No work item is lost, duplicated or completed twice, whatever the
\* interleaving of Submit, the workers and Shutdown.
THEOREM PoolExactlyOnce == Spec => []ExactlyOnce
<1>1. IInv => ExactlyOnce
  BY DEF IInv
<1> QED
  BY <1>1, PoolInductive, PTL

\* Concurrent Shutdown calls close the work channel once.
THEOREM PoolClosedOnce == Spec => []ClosedOnce
<1>1. IInv => ClosedOnce
  BY DEF IInv
<1> QED
  BY <1>1, PoolInductive, PTL

\* The Shutdown call that waited and returned nil has drained the pool.
THEOREM PoolGracefulDrain == Spec => []GracefulDrain
<1>1. IInv => GracefulDrain
  <2> SUFFICES ASSUME IInv, NEW s \in Stoppers, stop[s] = "drained",
                      NEW i \in Items, pc[i] = "accepted"
               PROVE  (\A w \in Workers : worker[w] = Exited) /\ done[i] = 1
    <3>1. ASSUME IInv, NEW s \in Stoppers, stop[s] = "drained"
          PROVE  \A w \in Workers : worker[w] = Exited
      BY <3>1 DEF IInv, ShutdownInv
    <3> QED
      BY <3>1 DEF GracefulDrain
  <2>1. \A w \in Workers : worker[w] = Exited
    BY DEF IInv, ShutdownInv
  <2>2. work = <<>>
    BY <2>1, WorkersAssumption DEF IInv, ShutdownInv
  <2>3. ~Queued(i) /\ ~Running(i)
    BY <2>1, <2>2, ItemsAssumption DEF Queued, Running
  <2> QED
    BY <2>1, <2>3 DEF IInv, ExactlyOnce
<1> QED
  BY <1>1, PoolInductive, PTL

-----------------------------------------------------------------------------
(* The pool implements WorkQueue. *)

\* What the pool knows of an item and where WorkQueue finds it.
PlaceFacts(i) ==
    /\ Queued(i) => PlaceOf(i) = "queued"
    /\ Running(i) <=> PlaceOf(i) = "running"
    /\ pc[i] = "accepted" /\ ~Queued(i) /\ ~Running(i) => PlaceOf(i) = "ended"
    /\ pc[i] = "refused" => PlaceOf(i) = "refused"
    /\ pc[i] = "panicked" => PlaceOf(i) = "panicked"
    /\ pc[i] \in {"new", "checked", "full"} => PlaceOf(i) = "outside"

\* The cases of PlaceOf exclude each other: no item is queued and running.
LEMMA PlaceAt == IInv => \A i \in Items : PlaceFacts(i)
<1> SUFFICES ASSUME IInv, NEW i \in Items PROVE PlaceFacts(i)
  OBVIOUS
<1>1. /\ Queued(i) => pc[i] = "accepted" /\ ~Running(i)
      /\ Running(i) => pc[i] = "accepted" /\ ~Queued(i)
  BY DEF IInv, ExactlyOnce
<1>2. pc[i] \in CallerStates
  BY DEF IInv, TypeOK
<1> QED
  BY <1>1, <1>2 DEF PlaceFacts, PlaceOf, CallerStates

\* The same after a step.
LEMMA PlaceAtNext == IInv' => (\A i \in Items : PlaceFacts(i))'
  BY PlaceAt, PTL

\* An item for which nothing changes stays where it is.
LEMMA PlaceKept ==
  ASSUME NEW j \in Items,
         Queued(j)' <=> Queued(j), Running(j)' <=> Running(j), pc'[j] = pc[j]
  PROVE  PlaceOf(j)' = PlaceOf(j)
  BY DEF PlaceOf

\* One item moves and the others stay.
LEMMA MoveOne ==
  ASSUME NEW i \in Items, NEW to,
         PlaceOf(i)' = to,
         \A j \in Items : j # i => PlaceOf(j)' = PlaceOf(j)
  PROVE  Queue!Move(i, to)
  BY DEF Queue!Move

\* Nothing moves.
LEMMA MoveNone ==
  ASSUME \A j \in Items : PlaceOf(j)' = PlaceOf(j)
  PROVE  [i \in Items |-> PlaceOf(i)]' = [i \in Items |-> PlaceOf(i)]
  OBVIOUS

\* WorkQueue counts as this module does: its instance has a copy of the operator.
LEMMA SameCount == ASSUME NEW S PROVE Queue!Cardinality(S) = Cardinality(S)
  BY DEF Queue!Cardinality, Cardinality

\* A worker that runs nothing is one the others leave free: the running items
\* are fewer than the workers.
LEMMA FreeWorker ==
  ASSUME IInv, NEW w \in Workers, worker[w] \notin Items
  PROVE  Cardinality(Queue!Running) < Cardinality(Workers)
<1> DEFINE others == Workers \ {w}
           held == {worker[v] : v \in others}
           f == [v \in others |-> worker[v]]
<1>1. IsFiniteSet(others) /\ Cardinality(others) = Cardinality(Workers) - 1
  BY WorkersAssumption, FS_RemoveElement
<1>2. IsFiniteSet(held) /\ Cardinality(held) <= Cardinality(others)
  <2>1. f \in Surjection(others, held)
    BY DEF Surjection
  <2> QED
    BY <1>1, <2>1, FS_Surjection
<1>3. Queue!Running \subseteq held
  <2> SUFFICES ASSUME NEW i \in Items, PlaceOf(i) = "running" PROVE i \in held
    BY DEF Queue!Running
  <2>1. Running(i)
    BY PlaceAt DEF PlaceFacts
  <2> QED
    BY <2>1 DEF Running
<1>4. Cardinality(Queue!Running) <= Cardinality(held)
  BY <1>2, <1>3, FS_Subset
<1>5. Cardinality(Workers) \in Nat /\ Cardinality(held) \in Nat /\ Cardinality(Queue!Running) \in Nat
  BY <1>2, <1>3, WorkersAssumption, FS_CardinalityType, FS_Subset
<1> QED
  BY <1>1, <1>2, <1>4, <1>5

\* A successful send is an acceptance.
LEMMA AcceptRefines ==
  ASSUME IInv, IInv', NEW i \in Items, pc[i] \in {"checked", "full"}, ~closed, ~Full, Accept(i)
  PROVE  Queue!Accept(i)
<1>1. \A j \in Items : (Queued(j)' <=> Queued(j) \/ j = i) /\ (Running(j)' <=> Running(j))
  BY AcceptPlaces DEF IInv
<1>2. PlaceOf(i) = "outside"
  BY PlaceAt DEF PlaceFacts
<1>3. PlaceOf(i)' = "queued"
  BY <1>1, PlaceAtNext DEF PlaceFacts
<1>4. ASSUME NEW j \in Items, j # i PROVE PlaceOf(j)' = PlaceOf(j)
  <2>1. pc'[j] = pc[j]
    BY <1>4 DEF Accept, IInv, TypeOK
  <2> QED
    BY <2>1, <1>1, <1>4, PlaceKept
<1>5. Queue!Move(i, "queued")
  BY <1>3, <1>4, MoveOne
<1>6. Len(work) < QueueSize
  BY QueueSizeAssumption DEF IInv, TypeOK, Full
<1> QED
  BY <1>2, <1>5, <1>6 DEF Queue!Accept, Accept

\* A step of one caller that leaves buffer and workers alone moves its item only.
LEMMA CallerMoves ==
  ASSUME IInv, NEW i \in Items, NEW state, NEW to,
         pc' = [pc EXCEPT ![i] = state], UNCHANGED <<work, worker>>,
         PlaceOf(i)' = to
  PROVE  Queue!Move(i, to)
<1>1. ASSUME NEW j \in Items, j # i PROVE PlaceOf(j)' = PlaceOf(j)
  <2>1. pc'[j] = pc[j]
    BY <1>1 DEF IInv, TypeOK
  <2>2. (Queued(j)' <=> Queued(j)) /\ (Running(j)' <=> Running(j))
    BY DEF Queued, Running
  <2> QED
    BY <2>1, <2>2, PlaceKept
<1> QED
  BY <1>1, MoveOne

\* A submission that returns false finds the pool stopped.
LEMMA RefuseRefines ==
  ASSUME IInv, IInv', NEW i \in Items, pc[i] \in {"new", "full"}, stopped, Refuse(i)
  PROVE  Queue!Refuse(i)
<1>1. PlaceOf(i) = "outside"
  BY PlaceAt DEF PlaceFacts
<1>2. pc'[i] = "refused"
  BY DEF Refuse, IInv, TypeOK
<1>3. PlaceOf(i)' = "refused"
  BY <1>2, PlaceAtNext DEF PlaceFacts
<1>4. Queue!Move(i, "refused")
  BY <1>3, CallerMoves DEF Refuse
<1> QED
  BY <1>1, <1>4 DEF Queue!Refuse, Refuse

\* The steps inside Submit that do not return leave the item outside.
LEMMA SubmitStutters ==
  ASSUME IInv, IInv', NEW i \in Items, pc[i] \in {"new", "checked"},
         NEW state \in {"checked", "full"}, pc' = [pc EXCEPT ![i] = state],
         UNCHANGED <<stopped, closed, work, worker>>
  PROVE  UNCHANGED Queue!vars
<1>1. PlaceOf(i) = "outside"
  BY PlaceAt DEF PlaceFacts
<1>2. pc'[i] = state
  BY DEF IInv, TypeOK
<1>3. PlaceOf(i)' = "outside"
  BY <1>2, PlaceAtNext DEF PlaceFacts
<1>4. Queue!Move(i, "outside")
  BY <1>3, CallerMoves
<1> QED
  BY <1>1, <1>4 DEF Queue!Move, Queue!vars

\* Every step of a caller of Submit is one of the queue, or none.
LEMMA SubmitRefines ==
  ASSUME IInv, IInv', NEW i \in Items, Submit(i)
  PROVE  [Queue!Next]_Queue!vars
<1>1. CASE CheckStopped(i)
  <2>1. CASE stopped /\ Refuse(i)
    <3>1. Queue!Refuse(i)
      BY <1>1, <2>1, RefuseRefines DEF CheckStopped
    <3> QED
      BY <3>1 DEF Queue!Next
  <2>2. CASE ~stopped /\ pc' = [pc EXCEPT ![i] = "checked"]
             /\ UNCHANGED <<stopped, closed, cancelled, work, worker, stop, done>>
    BY <1>1, <2>2, SubmitStutters DEF CheckStopped
  <2> QED
    BY <1>1, <2>1, <2>2 DEF CheckStopped
<1>2. CASE TrySend(i) \/ BlockingSend(i)
  <2>1. Queue!Accept(i)
    BY <1>2, AcceptRefines DEF TrySend, BlockingSend
  <2> QED
    BY <2>1 DEF Queue!Next
<1>3. CASE Backpressure(i)
  BY <1>3, SubmitStutters DEF Backpressure
<1>4. CASE SubmitCancelled(i)
  <2>1. stopped
    BY <1>4 DEF SubmitCancelled, IInv, ShutdownInv
  <2>2. Queue!Refuse(i)
    BY <1>4, <2>1, RefuseRefines DEF SubmitCancelled
  <2> QED
    BY <2>2 DEF Queue!Next
<1>5. CASE SendPanics(i)
  <2>1. PlaceOf(i) = "outside"
    BY <1>5, PlaceAt DEF PlaceFacts, SendPanics
  <2>2. pc'[i] = "panicked"
    BY <1>5 DEF SendPanics, IInv, TypeOK
  <2>3. PlaceOf(i)' = "panicked"
    BY <2>2, PlaceAtNext DEF PlaceFacts
  <2>4. Queue!Move(i, "panicked")
    BY <1>5, <2>3, CallerMoves DEF SendPanics
  <2>5. Queue!Panic(i)
    BY <1>5, <2>1, <2>4 DEF Queue!Panic, SendPanics
  <2> QED
    BY <2>5 DEF Queue!Next
<1> QED
  BY <1>1, <1>2, <1>3, <1>4, <1>5 DEF Submit

\* Every step of a worker: a receive takes the oldest item, a Process function
\* that returns ends one, leaving the loop moves none.
LEMMA WorkRefines ==
  ASSUME IInv, IInv', NEW w \in Workers, Work(w)
  PROVE  [Queue!Next]_Queue!vars
<1>1. CASE Receive(w)
  <2>1. PICK x \in Items :
           /\ x = Head(work) /\ Queued(x)
           /\ \A j \in Items : /\ Queued(j)' <=> Queued(j) /\ j # x
                               /\ Running(j)' <=> Running(j) \/ j = x
    BY <1>1, ReceivePlaces DEF IInv
  <2>2. PlaceOf(x) = "queued" /\ PlaceOf(x)' = "running"
    BY <2>1, PlaceAt, PlaceAtNext DEF PlaceFacts
  <2>3. ASSUME NEW j \in Items, j # x PROVE PlaceOf(j)' = PlaceOf(j)
    <3>1. pc'[j] = pc[j]
      BY <1>1 DEF Receive
    <3> QED
      BY <2>1, <2>3, <3>1, PlaceKept
  <2>4. Queue!Move(x, "running")
    BY <2>2, <2>3, MoveOne
  <2>5. Cardinality(Queue!Running) < Cardinality(Workers)
    BY <1>1, FreeWorker, ItemsAssumption DEF Receive
  <2>6. Queue!Take(x)
    BY <1>1, <2>1, <2>2, <2>4, <2>5, SameCount DEF Queue!Take, Receive
  <2> QED
    BY <2>6 DEF Queue!Next
<1>2. CASE Process(w)
  <2>1. PICK x \in Items :
           /\ Running(x) /\ ~Queued(x) /\ pc[x] = "accepted"
           /\ \A j \in Items : (Queued(j)' <=> Queued(j)) /\ (Running(j)' <=> Running(j) /\ j # x)
    BY <1>2, ProcessPlaces DEF IInv
  <2>2. pc' = pc
    BY <1>2 DEF Process
  <2>3. PlaceOf(x) = "running" /\ PlaceOf(x)' = "ended"
    BY <2>1, <2>2, PlaceAt, PlaceAtNext DEF PlaceFacts
  <2>4. ASSUME NEW j \in Items, j # x PROVE PlaceOf(j)' = PlaceOf(j)
    BY <2>1, <2>2, <2>4, PlaceKept
  <2>5. Queue!Move(x, "ended")
    BY <2>3, <2>4, MoveOne
  <2>6. Queue!Finish(x)
    BY <1>2, <2>3, <2>5 DEF Queue!Finish, Process
  <2> QED
    BY <2>6 DEF Queue!Next
<1>3. CASE Exit(w)
  <2>1. ASSUME NEW j \in Items PROVE PlaceOf(j)' = PlaceOf(j)
    <3>1. (Queued(j)' <=> Queued(j)) /\ (Running(j)' <=> Running(j)) /\ pc'[j] = pc[j]
      BY <1>3, ItemsAssumption DEF Exit, Queued, Running, IInv, TypeOK
    <3> QED
      BY <3>1, PlaceKept
  <2> QED
    BY <1>3, <2>1, MoveNone DEF Exit, Queue!vars
<1> QED
  BY <1>1, <1>2, <1>3 DEF Work

\* Every step of a caller of Shutdown: the swap that wins stops the queue, the
\* close closes it, and the rest is invisible.
LEMMA ShutdownRefines ==
  ASSUME IInv, NEW s \in Stoppers, Shutdown(s)
  PROVE  [Queue!Next]_Queue!vars
<1>0. work' = work /\ pc' = pc /\ worker' = worker
  BY DEF Shutdown, Swap, CloseWork, Drained, Deadline
<1>1. ASSUME NEW j \in Items PROVE PlaceOf(j)' = PlaceOf(j)
  BY <1>0, PlaceKept DEF Queued, Running
<1>2. [i \in Items |-> PlaceOf(i)]' = [i \in Items |-> PlaceOf(i)]
  BY <1>1, MoveNone
<1>3. CASE Swap(s)
  <2>1. CASE stopped
    BY <1>2, <1>3, <2>1 DEF Swap, Queue!vars, IInv, TypeOK
  <2>2. CASE ~stopped
    <3>1. Queue!Stop
      BY <1>2, <1>3, <2>2 DEF Swap, Queue!Stop
    <3> QED
      BY <3>1 DEF Queue!Next
  <2> QED
    BY <2>1, <2>2
<1>4. CASE CloseWork(s)
  <2>1. Queue!Close
    BY <1>2, <1>4 DEF CloseWork, Queue!Close, IInv, ClosedOnce, ShutdownInv
  <2> QED
    BY <2>1 DEF Queue!Next
<1>5. CASE Drained(s) \/ Deadline(s)
  BY <1>2, <1>5 DEF Drained, Deadline, Queue!vars
<1> QED
  BY <1>3, <1>4, <1>5 DEF Shutdown

\* NewPool gives an open and empty queue.
LEMMA InitRefines == Init => Queue!Init
<1> SUFFICES ASSUME Init PROVE Queue!Init
  OBVIOUS
<1>1. IInv
  BY InitIInv
<1>2. \A i \in Items : PlaceOf(i) = "outside"
  BY <1>1, PlaceAt DEF Init, PlaceFacts
<1> QED
  BY <1>2 DEF Init, Queue!Init

\* Every step of the pool is a step of the queue, or changes nothing of it.
LEMMA NextRefines == IInv /\ IInv' /\ [Next]_vars => [Queue!Next]_Queue!vars
<1> SUFFICES ASSUME IInv, IInv', [Next]_vars PROVE [Queue!Next]_Queue!vars
  OBVIOUS
<1>1. CASE UNCHANGED vars
  <2>1. ASSUME NEW j \in Items PROVE PlaceOf(j)' = PlaceOf(j)
    BY <1>1, PlaceKept DEF vars, Queued, Running
  <2> QED
    BY <1>1, <2>1, MoveNone DEF vars, Queue!vars
<1>2. CASE \E i \in Items : Submit(i)
  BY <1>2, SubmitRefines
<1>3. CASE \E w \in Workers : Work(w)
  BY <1>3, WorkRefines
<1>4. CASE \E s \in Stoppers : Shutdown(s)
  BY <1>4, ShutdownRefines
<1> QED
  BY <1>1, <1>2, <1>3, <1>4 DEF Next, Terminated

\* The pool implements the bounded FIFO queue that Auditor.Version relies on,
\* for every number of callers, workers and Shutdown calls (app/pool.go).
THEOREM PoolImplementsQueue == Spec => ImplementsQueue
<1>1. Init => Queue!Init
  BY InitRefines
<1>2. IInv /\ IInv' /\ [Next]_vars => [Queue!Next]_Queue!vars
  BY NextRefines
<1> QED
  BY <1>1, <1>2, PoolInductive, PTL DEF Spec, ImplementsQueue, Queue!Spec

=============================================================================
