--------------------- MODULE BackpressureChannelProofs ---------------------
(***************************************************************************)
(* Proofs about the delivery buffer for any finite set of producers and    *)
(* any capacities.  The order of delivery needs the ring's window (Pop     *)
(* returns the event numbered tail) and the fact that the drain of Close   *)
(* runs only after forwardLoop has exited (LoopControl).  The accounting   *)
(* adds that the loop abandons one event at most and only as it exits      *)
(* (LostOnce), and that a drop missing from totalDropped has a producer    *)
(* that is about to count it (DropsCovered).                               *)
(***************************************************************************)
EXTENDS BackpressureChannel, SequenceTheorems, FiniteSetTheorems, TLAPS

-----------------------------------------------------------------------------
(* Arithmetic of the slot index.                                            *)

\* Time for the provers: a leaf that names no prover of its own is one for SMT.
USE SMTT(60)

\* A slot index is in the buffer.
LEMMA ModRange ==
  ASSUME NEW C \in Nat \ {0}, NEW i \in Nat
  PROVE  i % C \in 0..C-1
OBVIOUS

\* Quotient and remainder.
LEMMA DivMod ==
  ASSUME NEW C \in Nat \ {0}, NEW i \in Nat
  PROVE  i \div C \in Int /\ i = C * (i \div C) + (i % C)
OBVIOUS

\* Two positions less than the capacity apart use different slots.
LEMMA ModInjective ==
  ASSUME NEW C \in Nat \ {0}, NEW i \in Nat, NEW j \in Nat, i < j, j - i < C
  PROVE  i % C # j % C
<1> DEFINE q == i \div C
           r == j \div C
<1>1. i = C * q + (i % C) /\ j = C * r + (j % C) /\ q \in Int /\ r \in Int
  BY DivMod
<1>2. SUFFICES ASSUME i % C = j % C PROVE FALSE
  OBVIOUS
<1>3. i % C \in Int
  BY ModRange
<1>4. j - i = C * r - C * q
  BY <1>1, <1>2, <1>3
<1>5. C * r - C * q = C * (r - q)
  BY <1>1
<1>6. CASE r - q <= 0
  <2>1. C * (r - q) <= 0
    BY <1>6, <1>1
  <2> QED BY <2>1, <1>4, <1>5
<1>7. CASE r - q >= 1
  <2>1. C * (r - q) >= C
    BY <1>7, <1>1
  <2> QED BY <2>1, <1>4, <1>5
<1> QED BY <1>6, <1>7, <1>1

\* Two positions exactly the capacity apart share a slot.
LEMMA ModPeriod ==
  ASSUME NEW C \in Nat \ {0}, NEW i \in Nat
  PROVE  (i + C) % C = i % C
<1> DEFINE q == i \div C
           r == (i + C) \div C
<1>1. /\ i = C * q + (i % C) /\ q \in Int /\ i % C \in 0..C-1
      /\ i + C = C * r + ((i + C) % C) /\ r \in Int /\ (i + C) % C \in 0..C-1
  <2>1. i + C \in Nat
    OBVIOUS
  <2> HIDE DEF q, r
  <2>2. i = C * (i \div C) + (i % C) /\ i \div C \in Int /\ i % C \in 0..C-1
    BY DivMod, ModRange
  <2>3. /\ i + C = C * ((i + C) \div C) + ((i + C) % C)
        /\ (i + C) \div C \in Int /\ (i + C) % C \in 0..C-1
    BY <2>1, DivMod, ModRange, ZenonT(60)
  <2> QED BY <2>2, <2>3 DEF q, r
<1>2. C * (r - q) = C + (i % C) - ((i + C) % C)
  BY <1>1
<1>3. r - q = 1
  <2>1. CASE r - q <= 0
    <3>1. C * (r - q) <= 0 BY <2>1, <1>1
    <3> QED BY <3>1, <1>1, <1>2
  <2>2. CASE r - q >= 2
    <3>1. C * (r - q) >= C + C BY <2>2, <1>1
    <3> QED BY <3>1, <1>1, <1>2
  <2> QED BY <2>1, <2>2, <1>1
<1>4. C * (r - q) = C
  BY <1>3, <1>1
<1> QED BY <1>4, <1>2, <1>1

-----------------------------------------------------------------------------
(* Type correctness.                                                        *)

\* The variables keep their types under every interleaving.
THEOREM TypeCorrect == Spec => []TypeOK
<1> USE ChannelAssumption DEF Event
<1>1. Init => TypeOK
  <2> SUFFICES ASSUME Init PROVE TypeOK
    OBVIOUS
  <2>1. buf \in [0..Cap-1 -> Event] /\ pc \in [Producers -> {"idle"}]
        /\ prev \in [Producers -> Nat]
    BY DEF Init
  <2>2. forwardC \in Seq(Event) /\ lost \subseteq Event
    BY DEF Init
  <2> QED BY <2>1, <2>2 DEF Init, TypeOK
<1>2. TypeOK /\ [Next]_vars => TypeOK'
  <2> SUFFICES ASSUME TypeOK, [Next]_vars PROVE TypeOK'
    OBVIOUS
  <2> USE DEF TypeOK, ringVars, sendVars, loopVars, chanVars, closeVars, dropVars
  <2>0. head % Cap \in 0..Cap-1 /\ tail % Cap \in 0..Cap-1
    BY ModRange
  <2>1. ASSUME NEW p \in Producers, Producer(p) PROVE TypeOK'
    <3>1. CASE SendStart(p) BY <3>1 DEF SendStart
    <3>2. CASE ReadPrev(p) BY <3>2 DEF ReadPrev
    <3>3. CASE Push(p) BY <3>3, <2>0 DEF Push, PushWrite, Wake
    <3>4. CASE PushTooOld(p) BY <3>4 DEF PushTooOld
    <3>5. CASE Account(p)
      <4> DEFINE d == ringDropped - prev[p]
      <4>1. d \in Int
        OBVIOUS
      <4>2. totalDropped' \in Nat /\ consecutive' \in Nat
        <5>1. CASE d > 0 BY <3>5, <4>1, <5>1 DEF Account
        <5>2. CASE ~(d > 0) BY <3>5, <4>1, <5>2 DEF Account
        <5> QED BY <5>1, <5>2
      <4>3. pc' \in [Producers -> {"idle", "prev", "push", "account", "check"}]
        BY <3>5 DEF Account
      <4> QED BY <3>5, <4>2, <4>3 DEF Account
    <3>6. CASE CheckThreshold(p) BY <3>6 DEF CheckThreshold
    <3> QED BY <2>1, <3>1, <3>2, <3>3, <3>4, <3>5, <3>6, ZenonT(60) DEF Producer
  <2>2. CASE Loop
    <3>1. CASE LoopWait BY <3>1 DEF LoopWait
    <3>2. CASE LoopPop BY <3>2, <2>0 DEF LoopPop, PopWrite, Peek
    <3>3. CASE LoopForward BY <3>3 DEF LoopForward
    <3>4. CASE LoopStop BY <3>4 DEF LoopStop
    <3> QED BY <2>2, <3>1, <3>2, <3>3, <3>4, ZenonT(60) DEF Loop
  <2>3. CASE Closer
    <3>1. CASE CloseStopCh BY <3>1 DEF CloseStopCh, CloserGoes
    <3>2. CASE CloseBroadcast BY <3>2 DEF CloseBroadcast, CloserGoes, Wake
    <3>3. CASE CloseJoin BY <3>3 DEF CloseJoin, CloserGoes
    <3>4. CASE CloseDrain
      <4>1. Peek \in Event /\ buf' \in [0..Cap-1 -> Event] /\ tail' \in Nat
        BY <3>4, <2>0 DEF CloseDrain, PopWrite, Peek
      <4>2. forwardC' \in Seq(Event) /\ totalDropped' \in Nat /\ closeDropped' \in Nat
        <5>1. CASE Len(forwardC) < FwdCap
          <6>1. forwardC' = Append(forwardC, Peek)
            BY <3>4, <5>1 DEF CloseDrain
          <6>2. forwardC' \in Seq(Event)
            BY <6>1, <4>1
          <6> QED BY <3>4, <5>1, <6>2 DEF CloseDrain
        <5>2. CASE ~(Len(forwardC) < FwdCap) BY <3>4, <5>2 DEF CloseDrain
        <5> QED BY <5>1, <5>2
      <4> QED BY <3>4, <4>1, <4>2 DEF CloseDrain, PopWrite
    <3>5. CASE CloseDrained BY <3>5 DEF CloseDrained, CloserGoes
    <3>6. CASE CloseForwardC BY <3>6 DEF CloseForwardC, CloserGoes
    <3> QED BY <2>3, <3>1, <3>2, <3>3, <3>4, <3>5, <3>6, ZenonT(60) DEF Closer
  <2>4. CASE Receive BY <2>4 DEF Receive
  <2>5. CASE CloseStart BY <2>5 DEF CloseStart, CloserGoes
  <2>6. CASE OnDisconnect BY <2>6, ZenonT(60) DEF OnDisconnect
  <2>7. CASE ResetDrops BY <2>7 DEF ResetDrops
  <2>8. CASE UNCHANGED vars BY <2>8 DEF vars
  <2> QED BY <2>1, <2>2, <2>3, <2>4, <2>5, <2>6, <2>7, <2>8, ZenonT(60) DEF Next
<1> QED BY <1>1, <1>2, PTL DEF Spec

-----------------------------------------------------------------------------
(* The ring.                                                                *)

\* A push keeps the window: the slot it overwrites is free, or holds the
\* oldest event, which the same critical section gives up.
LEMMA PushWindow ==
  ASSUME NEW b \in [0..Cap-1 -> Event], NEW t \in Nat, NEW h \in Nat,
         Window(b, t, h), NEW u \in Nat, u = IF h - t >= Cap THEN t + 1 ELSE t
  PROVE  Window([b EXCEPT ![h % Cap] = h], u, h + 1)
<1> DEFINE c == [b EXCEPT ![h % Cap] = h]
<1>0. Cap \in Nat \ {0}
  BY ChannelAssumption
<1>1. t <= u /\ u <= h /\ h + 1 - u <= Cap /\ t <= h /\ h - t <= Cap
  BY <1>0 DEF Window
<1>2. h % Cap \in 0..Cap-1
  BY <1>0, ModRange, ZenonT(60)
<1>3. ASSUME NEW i \in u..h PROVE c[i % Cap] = i
  <2>1. CASE i = h BY <2>1, <1>2
  <2>2. CASE i < h
    <3>1. i \in Nat /\ h - i < Cap /\ i \in t..h-1
      BY <1>0, <1>1, <2>2
    <3>2. i % Cap # h % Cap /\ i % Cap \in 0..Cap-1
      BY <3>1, <2>2, <1>0, ModInjective, ModRange, ZenonT(60)
    <3>3. b[i % Cap] = i
      BY <3>1 DEF Window
    <3> QED BY <3>2, <3>3, <1>2
  <2> QED BY <2>1, <2>2
<1>4. ASSUME NEW j \in 0..Cap-1, c[j] # Nil
      PROVE  c[j] \in u..h /\ c[j] % Cap = j
  <2>1. CASE j = h % Cap BY <2>1, <1>1, <1>2
  <2>2. CASE j # h % Cap
    <3>1. c[j] = b[j]
      BY <2>2, <1>2
    <3>2. b[j] \in t..h-1 /\ b[j] % Cap = j
      BY <3>1, <1>4 DEF Window
    <3>3. CASE h - t >= Cap
      <4>1. u = t + 1 /\ h = t + Cap
        BY <3>3, <1>0, <1>1
      <4>2. t % Cap = h % Cap
        BY <4>1, <1>0, ModPeriod, ZenonT(60)
      <4> QED BY <4>1, <4>2, <3>1, <3>2, <2>2
    <3>4. CASE ~(h - t >= Cap)
      BY <3>4, <3>1, <3>2
    <3> QED BY <3>3, <3>4
  <2> QED BY <2>1, <2>2
<1>5. u <= h + 1 /\ (h + 1) - 1 = h
  BY <1>1
<1> HIDE DEF c
<1>6. Window(c, u, h + 1)
  BY <1>1, <1>3, <1>4, <1>5 DEF Window
<1> QED BY <1>6 DEF c

\* A pop takes the oldest event, and returns exactly it.
LEMMA PopWindow ==
  ASSUME NEW b \in [0..Cap-1 -> Event], NEW t \in Nat, NEW h \in Nat,
         Window(b, t, h), t < h
  PROVE  /\ b[t % Cap] = t
         /\ Window([b EXCEPT ![t % Cap] = Nil], t + 1, h)
<1> DEFINE c == [b EXCEPT ![t % Cap] = Nil]
<1>0. Cap \in Nat \ {0} /\ h - t <= Cap
  BY ChannelAssumption DEF Window
<1>1. t % Cap \in 0..Cap-1
  BY <1>0, ModRange
<1>2. ASSUME NEW i \in t+1..h-1 PROVE c[i % Cap] = i
  <2>1. i \in Nat /\ t < i /\ i - t < Cap /\ i \in t..h-1
    BY <1>0
  <2>2. i % Cap # t % Cap /\ i % Cap \in 0..Cap-1
    BY <2>1, <1>0, ModInjective, ModRange, ZenonT(60)
  <2>3. b[i % Cap] = i
    BY <2>1 DEF Window
  <2> QED BY <2>2, <2>3, <1>1
<1>3. ASSUME NEW j \in 0..Cap-1, c[j] # Nil
      PROVE  c[j] \in t+1..h-1 /\ c[j] % Cap = j
  <2>1. j # t % Cap /\ c[j] = b[j]
    BY <1>1, <1>3
  <2>2. b[j] \in t..h-1 /\ b[j] % Cap = j
    BY <2>1, <1>3 DEF Window
  <2> QED BY <2>1, <2>2
<1>4. t + 1 <= h /\ h - (t + 1) <= Cap
  BY <1>0
<1> HIDE DEF c
<1>5. Window(c, t + 1, h)
  BY <1>2, <1>3, <1>4 DEF Window
<1>6. b[t % Cap] = t
  BY DEF Window
<1> QED BY <1>5, <1>6 DEF c

\* Every step of the channel is a push, a pop of an unread event, or leaves the
\* ring alone.
LEMMA RingSteps ==
  ASSUME [Next]_vars
  PROVE  \/ PushWrite
         \/ PopWrite /\ tail < head
         \/ UNCHANGED <<buf, head, tail>>
<1> DEFINE RingStep == \/ PushWrite
                       \/ PopWrite /\ tail < head
                       \/ UNCHANGED <<buf, head, tail>>
<1> USE DEF ringVars
<1>1. ASSUME NEW p \in Producers, Producer(p) PROVE RingStep
  BY <1>1 DEF Producer, SendStart, ReadPrev, Push, PushTooOld, Account,
              CheckThreshold
<1>2. CASE Loop
  <2>1. CASE LoopPop BY <2>1 DEF LoopPop
  <2> QED BY <1>2, <2>1 DEF Loop, LoopWait, LoopForward, LoopStop
<1>3. CASE Closer
  BY <1>3 DEF Closer, CloseStopCh, CloseBroadcast, CloseJoin, CloseDrain,
              CloseDrained, CloseForwardC
<1> QED BY <1>1, <1>2, <1>3 DEF Next, Receive, CloseStart, OnDisconnect,
                                ResetDrops, vars

\* The ring holds exactly the newest unread events, in their slots, whatever
\* the interleaving of producers, forwardLoop and Close (Ring.Push, Ring.Pop).
THEOREM RingCorrect == Spec => []RingWindow
<1>1. Init => RingWindow
  BY ChannelAssumption DEF Init, RingWindow, Window
<1>2. TypeOK /\ RingWindow /\ [Next]_vars => RingWindow'
  <2> SUFFICES ASSUME TypeOK, RingWindow, [Next]_vars PROVE RingWindow'
    OBVIOUS
  <2>1. CASE PushWrite
    <3> DEFINE u == IF head - tail >= Cap THEN tail + 1 ELSE tail
    <3>1. head' = head + 1 /\ tail' = u /\ buf' = [buf EXCEPT ![head % Cap] = head]
      BY <2>1 DEF PushWrite
    <3>2. /\ buf \in [0..Cap-1 -> Event] /\ tail \in Nat /\ head \in Nat /\ u \in Nat
          /\ Window(buf, tail, head)
      BY DEF TypeOK, RingWindow
    <3>3. Window([buf EXCEPT ![head % Cap] = head], u, head + 1)
      BY <3>2, PushWindow, ZenonT(60)
    <3> QED BY <3>1, <3>3 DEF RingWindow
  <2>2. CASE PopWrite /\ tail < head
    <3>1. head' = head /\ tail' = tail + 1 /\ buf' = [buf EXCEPT ![tail % Cap] = Nil]
      BY <2>2 DEF PopWrite
    <3>2. /\ buf \in [0..Cap-1 -> Event] /\ tail \in Nat /\ head \in Nat
          /\ Window(buf, tail, head)
      BY DEF TypeOK, RingWindow
    <3>3. Window([buf EXCEPT ![tail % Cap] = Nil], tail + 1, head)
      BY <3>2, <2>2, PopWindow, ZenonT(60)
    <3> QED BY <3>1, <3>3 DEF RingWindow
  <2>3. CASE UNCHANGED <<buf, head, tail>> BY <2>3 DEF RingWindow
  <2> QED BY <2>1, <2>2, <2>3, RingSteps
<1> QED BY <1>1, <1>2, TypeCorrect, PTL DEF Spec


-----------------------------------------------------------------------------
(* The ring implements the abstract queue.                                  *)

Positions(t, h) == [i \in 1..h-t |-> t + i - 1]

\* The positions t..h-1 as a sequence, and how a push and a pop change it.
LEMMA PositionsProperties ==
  ASSUME NEW t \in Nat, NEW h \in Nat, t <= h
  PROVE  /\ Positions(t, h) \in Seq(Nat) /\ Len(Positions(t, h)) = h - t
         /\ Append(Positions(t, h), h) = Positions(t, h + 1)
         /\ t < h => Tail(Positions(t, h)) = Positions(t + 1, h)
<1>1. h - t \in Nat /\ h + 1 - t = (h - t) + 1 /\ h + 1 - t \in Nat
  OBVIOUS
<1>2. Positions(t, h) \in Seq(Nat) /\ Len(Positions(t, h)) = h - t
  BY <1>1 DEF Positions
<1>3. Positions(t, h + 1) \in Seq(Nat) /\ Len(Positions(t, h + 1)) = h + 1 - t
  BY <1>1 DEF Positions
<1>4. Append(Positions(t, h), h) = Positions(t, h + 1)
  <2> DEFINE s == Append(Positions(t, h), h)
  <2>1. s \in Seq(Nat) /\ Len(s) = (h - t) + 1
    BY <1>2
  <2>2. ASSUME NEW i \in 1..Len(s) PROVE s[i] = Positions(t, h + 1)[i]
    <3>1. i \in 1..h+1-t /\ Positions(t, h + 1)[i] = t + i - 1
      BY <1>1, <2>1 DEF Positions
    <3>2. CASE i = h - t + 1
      <4>1. s[i] = h
        BY <3>2, <1>1, <1>2
      <4> QED BY <4>1, <3>1, <3>2
    <3>3. CASE i # h - t + 1
      <4>1. i \in 1..h-t
        BY <3>1, <3>3, <1>1
      <4>2. s[i] = Positions(t, h)[i]
        BY <4>1, <1>2
      <4> QED BY <4>1, <4>2, <3>1 DEF Positions
    <3> QED BY <3>2, <3>3
  <2> HIDE DEF s
  <2>3. s = Positions(t, h + 1)
    BY <2>1, <2>2, <1>1, <1>3, SeqEqual
  <2> QED BY <2>3 DEF s
<1>5. ASSUME t < h PROVE Tail(Positions(t, h)) = Positions(t + 1, h)
  <2> DEFINE s == Tail(Positions(t, h))
             w == Positions(t + 1, h)
  <2>0. h - t \in Nat \ {0} /\ h - (t + 1) = h - t - 1 /\ h - (t + 1) \in Nat
    BY <1>5
  <2>1. Positions(t, h) # <<>>
    BY <1>2, <2>0
  <2>2. s \in Seq(Nat) /\ Len(s) = h - t - 1
    BY <1>2, <2>1, HeadTailProperties
  <2>3. w \in Seq(Nat) /\ Len(w) = h - (t + 1)
    BY <2>0 DEF Positions
  <2>4. ASSUME NEW i \in 1..Len(s) PROVE s[i] = w[i]
    <3>1. s[i] = Positions(t, h)[i + 1]
      BY <1>2, <2>1, HeadTailProperties
    <3>2. i + 1 \in 1..h-t /\ i \in 1..h-(t+1)
      BY <2>2, <2>0
    <3>3. Positions(t, h)[i + 1] = t + (i + 1) - 1 /\ w[i] = (t + 1) + i - 1
      BY <3>2 DEF Positions
    <3>4. t + (i + 1) - 1 = (t + 1) + i - 1
      BY <3>2
    <3> QED BY <3>1, <3>3, <3>4
  <2> HIDE DEF s, w
  <2>5. s = w
    BY <2>0, <2>2, <2>3, <2>4, SeqEqual
  <2> QED BY <2>5 DEF s, w
<1> QED BY <1>2, <1>4, <1>5

\* Within the window, reading the slots from tail on gives the positions.
LEMMA UnreadPositions ==
  ASSUME NEW b \in [0..Cap-1 -> Event], NEW t \in Nat, NEW h \in Nat,
         Window(b, t, h)
  PROVE  [i \in 1..h-t |-> b[(t + i - 1) % Cap]] = Positions(t, h)
<1>1. ASSUME NEW i \in 1..h-t PROVE b[(t + i - 1) % Cap] = t + i - 1
  <2>1. t + i - 1 \in t..h-1
    BY DEF Window
  <2> QED BY <2>1 DEF Window
<1> QED BY <1>1, ZenonT(60) DEF Positions

\* The ring implements the drop-oldest queue under every interleaving.
THEOREM RingImplementsQueue == Spec => RingIsQueue
<1>1. Init => Queue!Init
  <2> SUFFICES ASSUME Init PROVE Queue!Init
    OBVIOUS
  <2>1. head = 0 /\ tail = 0 /\ 1..head-tail = {}
    BY DEF Init
  <2>2. Unread = <<>>
    BY <2>1 DEF Unread
  <2> QED BY <2>1, <2>2 DEF Queue!Init
<1>2. TypeOK /\ RingWindow /\ TypeOK' /\ RingWindow' /\ [Next]_vars
        => [Queue!Next]_<<Unread, head>>
  <2> SUFFICES ASSUME TypeOK, RingWindow, TypeOK', RingWindow', [Next]_vars
               PROVE  [Queue!Next]_<<Unread, head>>
    OBVIOUS
  <2>0. Cap \in Nat \ {0}
    BY ChannelAssumption
  <2>1. /\ tail \in Nat /\ head \in Nat /\ tail <= head /\ head - tail <= Cap
        /\ Unread = Positions(tail, head)
    <3>1. buf \in [0..Cap-1 -> Event] /\ Window(buf, tail, head)
      BY DEF TypeOK, RingWindow
    <3>2. tail \in Nat /\ head \in Nat
      BY DEF TypeOK
    <3>3. Unread = Positions(tail, head)
      BY <3>1, <3>2, UnreadPositions, ZenonT(60) DEF Unread
    <3> QED BY <3>1, <3>2, <3>3 DEF Window
  <2>2. Unread' = Positions(tail', head')
    <3>1. buf' \in [0..Cap-1 -> Event] /\ Window(buf', tail', head')
      BY DEF TypeOK, RingWindow
    <3>2. tail' \in Nat /\ head' \in Nat
      BY DEF TypeOK
    <3> QED BY <3>1, <3>2, UnreadPositions, ZenonT(60) DEF Unread
  <2>3. CASE PushWrite
    <3>1. Len(Unread) = head - tail /\ Append(Unread, head) = Positions(tail, head + 1)
      BY <2>1, PositionsProperties, ZenonT(60)
    <3>2. head' = head + 1
      BY <2>3 DEF PushWrite
    <3>3. CASE head - tail >= Cap
      <4>1. tail' = tail + 1 /\ tail < head /\ Len(Unread) = Cap
        <5>1. tail' = tail + 1
          BY <2>3, <3>3 DEF PushWrite
        <5>2. head - tail = Cap
          BY <3>3, <2>0, <2>1
        <5>3. tail < head
          BY <5>2, <2>0, <2>1
        <5> QED BY <5>1, <5>2, <5>3, <3>1
      <4>2. Tail(Unread) = Positions(tail + 1, head)
        BY <2>1, <4>1, PositionsProperties, ZenonT(60)
      <4>3. Append(Positions(tail + 1, head), head) = Positions(tail + 1, head + 1)
        <5>1. tail + 1 \in Nat /\ tail + 1 <= head
          BY <2>1, <4>1
        <5> QED BY <5>1, <2>1, PositionsProperties, ZenonT(60)
      <4> QED BY <4>1, <4>2, <4>3, <3>2, <2>2, ZenonT(60) DEF Queue!Next, Queue!Enqueue
    <3>4. CASE ~(head - tail >= Cap)
      <4>1. tail' = tail /\ Len(Unread) # Cap
        <5>1. tail' = tail
          BY <2>3, <3>4 DEF PushWrite
        <5>2. Len(Unread) # Cap
          BY <3>4, <3>1, <2>0, <2>1
        <5> QED BY <5>1, <5>2
      <4> QED BY <4>1, <3>1, <3>2, <2>2 DEF Queue!Next, Queue!Enqueue
    <3> QED BY <3>3, <3>4
  <2>4. CASE PopWrite /\ tail < head
    <3>1. head' = head /\ tail' = tail + 1
      BY <2>4 DEF PopWrite
    <3>2. Tail(Unread) = Positions(tail + 1, head) /\ Len(Unread) = head - tail
      BY <2>1, <2>4, PositionsProperties, ZenonT(60)
    <3>3. Unread # <<>>
      BY <3>2, <2>1, <2>4
    <3> QED BY <3>1, <3>2, <3>3, <2>2 DEF Queue!Next, Queue!Dequeue
  <2>5. CASE UNCHANGED <<buf, head, tail>>
    BY <2>5 DEF Unread
  <2> QED BY <2>3, <2>4, <2>5, RingSteps
<1> QED BY <1>1, <1>2, TypeCorrect, RingCorrect, PTL DEF Spec, RingIsQueue, Queue!Spec

-----------------------------------------------------------------------------
(* forwardLoop and Close.                                                   *)

\* forwardLoop holds an event exactly while it is blocked in its select, and
\* Close drains and closes forwardC only once the loop has exited.
THEOREM LoopControlled == Spec => []LoopControl
<1> USE DEF ringVars, sendVars, loopVars, chanVars, closeVars, dropVars
<1>1. Init => LoopControl
  BY DEF Init, LoopControl
<1>2. TypeOK /\ RingWindow /\ LoopControl /\ [Next]_vars => LoopControl'
  <2> SUFFICES ASSUME TypeOK, RingWindow, LoopControl, [Next]_vars
               PROVE  LoopControl'
    OBVIOUS
  <2> USE DEF LoopControl
  <2>1. ASSUME NEW p \in Producers, Producer(p) PROVE LoopControl'
    BY <2>1 DEF Producer, SendStart, ReadPrev, Push, PushTooOld, Account,
                CheckThreshold, Wake
  <2>2. CASE LoopWait BY <2>2 DEF LoopWait
  <2>3. CASE LoopPop
    <3>1. tail \in Nat /\ buf[tail % Cap] = tail
      BY <2>3, PopWindow, ZenonT(60) DEF LoopPop, TypeOK, RingWindow
    <3>2. held' # Nil
      BY <2>3, <3>1 DEF LoopPop, Peek, Nil
    <3> QED BY <2>3, <3>2 DEF LoopPop
  <2>4. CASE LoopForward BY <2>4 DEF LoopForward
  <2>5. CASE LoopStop BY <2>5 DEF LoopStop
  <2>6. CASE Closer
    BY <2>6 DEF Closer, CloserGoes, CloseStopCh, CloseBroadcast, CloseJoin,
                CloseDrain, CloseDrained, CloseForwardC, Wake
  <2>7. CASE Receive BY <2>7 DEF Receive
  <2>8. CASE CloseStart BY <2>8 DEF CloseStart, CloserGoes
  <2>9. CASE OnDisconnect BY <2>9 DEF OnDisconnect, closed
  <2>10. CASE ResetDrops BY <2>10 DEF ResetDrops
  <2>11. CASE UNCHANGED vars BY <2>11 DEF vars
  <2> QED BY <2>1, <2>2, <2>3, <2>4, <2>5, <2>6, <2>7, <2>8, <2>9, <2>10, <2>11
          DEF Next, Loop
<1> QED BY <1>1, <1>2, TypeCorrect, RingCorrect, PTL DEF Spec

\* No goroutine ever sends on the closed forwardC.
THEOREM NeverSendOnClosed == Spec => []NoSendOnClosed
<1>1. LoopControl => NoSendOnClosed
  BY DEF LoopControl, NoSendOnClosed
<1> QED BY <1>1, LoopControlled, PTL

-----------------------------------------------------------------------------
(* Delivery order.                                                          *)

\* The order survives a newer bound: an overwrite only raises tail.
LEMMA OrderedWeaken ==
  ASSUME NEW r \in Int, NEW s \in Seq(Int), NEW t \in Int, NEW u \in Int,
         Ordered(r, s, t), t <= u
  PROVE  Ordered(r, s, u)
BY DEF Ordered

\* Appending the event numbered t, the one a pop returns.
LEMMA OrderedAppend ==
  ASSUME NEW r \in Int, NEW s \in Seq(Int), NEW t \in Int, Ordered(r, s, t)
  PROVE  Ordered(r, Append(s, t), t + 1)
<1> DEFINE w == Append(s, t)
<1>1. /\ Len(w) = Len(s) + 1 /\ Len(s) \in Nat /\ w[Len(s) + 1] = t
      /\ \A i \in 1..Len(s) : w[i] = s[i] /\ s[i] \in Int
  OBVIOUS
<1>2. r < t + 1
  BY DEF Ordered
<1>3. ASSUME NEW i \in 1..Len(w) PROVE r < w[i] /\ w[i] < t + 1
  BY <1>1 DEF Ordered
<1>4. ASSUME NEW i \in 1..Len(w), NEW j \in 1..Len(w), i < j PROVE w[i] < w[j]
  <2>1. CASE j = Len(s) + 1 BY <2>1, <1>1, <1>4 DEF Ordered
  <2>2. CASE j # Len(s) + 1 BY <2>2, <1>1, <1>4 DEF Ordered
  <2> QED BY <2>1, <2>2
<1> HIDE DEF w
<1> QED BY <1>2, <1>3, <1>4 DEF Ordered, w

\* Receiving the head.
LEMMA OrderedTail ==
  ASSUME NEW r \in Int, NEW s \in Seq(Int), NEW t \in Int, Ordered(r, s, t),
         s # <<>>
  PROVE  Ordered(Head(s), Tail(s), t)
<1> DEFINE w == Tail(s)
<1>1. /\ Len(w) = Len(s) - 1 /\ Len(s) \in Nat \ {0} /\ Head(s) = s[1]
      /\ \A i \in 1..Len(w) : w[i] = s[i+1]
      /\ \A i \in 1..Len(s) : s[i] \in Int
  OBVIOUS
<1>2. ASSUME NEW i \in 1..Len(w), NEW j \in 1..Len(w), i < j PROVE w[i] < w[j]
  BY <1>1, <1>2 DEF Ordered
<1>3. s[1] < t
  BY <1>1 DEF Ordered
<1>4. \A i \in 1..Len(w) : w[i] < t
  BY <1>1 DEF Ordered
<1>5. \A i \in 1..Len(w) : s[1] < w[i]
  BY <1>1 DEF Ordered
<1> HIDE DEF w
<1> QED BY <1>1, <1>2, <1>3, <1>4, <1>5 DEF Ordered, w

\* Dropping the last element, the event forwardLoop abandons.
LEMMA OrderedDropLast ==
  ASSUME NEW r \in Int, NEW s \in Seq(Int), NEW e \in Int, NEW t \in Int,
         Ordered(r, Append(s, e), t)
  PROVE  Ordered(r, s, t)
<1> DEFINE w == Append(s, e)
<1>1. /\ Len(w) = Len(s) + 1 /\ Len(s) \in Nat
      /\ \A i \in 1..Len(s) : w[i] = s[i]
  OBVIOUS
<1>2. Ordered(r, w, t)
  OBVIOUS
<1> HIDE DEF w
<1> QED BY <1>1, <1>2 DEF Ordered

\* The consumer receives strictly increasing positions: events arrive in push
\* order and never twice, across forwardLoop's deliveries and Close's drain.
THEOREM DeliveredInOrder == Spec => []DeliveryInOrder
<1> USE DEF ringVars, sendVars, loopVars, chanVars, closeVars, dropVars
<1>1. Init => DeliveryInOrder
  BY DEF Init, DeliveryInOrder, Ordered, InFlight, Nil
<1>2. TypeOK /\ RingWindow /\ LoopControl /\ DeliveryInOrder /\ [Next]_vars
        => DeliveryInOrder'
  <2> SUFFICES ASSUME TypeOK, RingWindow, LoopControl, DeliveryInOrder, [Next]_vars
               PROVE  DeliveryInOrder'
    OBVIOUS
  <2>1. /\ received \in Int /\ tail \in Int /\ held \in Int
        /\ forwardC \in Seq(Int) /\ InFlight \in Seq(Int)
    <3>1. Event \subseteq Int
      BY DEF Event, Nil
    <3>2. received \in Int /\ tail \in Int /\ held \in Int
      BY <3>1 DEF TypeOK
    <3>3. forwardC \in Seq(Int)
      <4>1. forwardC \in Seq(Event)
        BY DEF TypeOK
      <4> QED BY <4>1, <3>1, SeqMonotonic, ZenonT(60)
    <3>4. InFlight \in Seq(Int)
      BY <3>2, <3>3 DEF InFlight
    <3> QED BY <3>2, <3>3, <3>4
  <2>2. Ordered(received, InFlight, tail)
    BY DEF DeliveryInOrder
  <2>3. CASE UNCHANGED <<received, forwardC, held, tail>>
    BY <2>3 DEF DeliveryInOrder, InFlight, Ordered
  <2>4. ASSUME NEW p \in Producers, Push(p) PROVE DeliveryInOrder'
    <3>1. UNCHANGED <<received, forwardC, held>>
      BY <2>4 DEF Push
    <3>2. InFlight' = InFlight
      BY <3>1 DEF InFlight
    <3> DEFINE u == IF head - tail >= Cap THEN tail + 1 ELSE tail
    <3>3. tail' = u /\ u \in Int /\ tail <= u
      BY <2>4, <2>1 DEF Push, PushWrite
    <3>4. Ordered(received, InFlight, u)
      BY <2>1, <2>2, <3>3, OrderedWeaken
    <3> QED BY <3>1, <3>2, <3>3, <3>4 DEF DeliveryInOrder
  <2>5. CASE LoopPop
    <3>1. Peek = tail
      BY <2>5, PopWindow, ZenonT(60) DEF LoopPop, Peek, TypeOK, RingWindow
    <3>2. /\ held' = tail /\ tail' = tail + 1 /\ held = Nil
          /\ UNCHANGED <<received, forwardC>>
      BY <2>5, <3>1 DEF LoopPop, PopWrite, LoopControl
    <3>3. InFlight = forwardC /\ InFlight' = Append(forwardC, tail)
      BY <3>2, <2>1 DEF InFlight, Nil, TypeOK
    <3>4. Ordered(received, Append(forwardC, tail), tail + 1)
      BY <2>1, <2>2, <3>3, OrderedAppend
    <3> QED BY <3>2, <3>3, <3>4 DEF DeliveryInOrder
  <2>6. CASE LoopForward
    <3>1. /\ held # Nil /\ forwardC' = Append(forwardC, held) /\ held' = Nil
          /\ UNCHANGED <<received, tail>>
      BY <2>6 DEF LoopForward, LoopControl
    <3>2. InFlight' = InFlight
      BY <3>1 DEF InFlight
    <3> QED BY <3>1, <3>2, <2>2 DEF DeliveryInOrder
  <2>7. CASE LoopStop
    <3>1. held # Nil /\ held' = Nil /\ UNCHANGED <<received, forwardC, tail>>
      BY <2>7 DEF LoopStop, LoopControl
    <3>2. InFlight = Append(forwardC, held) /\ InFlight' = forwardC
      BY <3>1 DEF InFlight
    <3>3. Ordered(received, forwardC, tail)
      BY <3>2, <2>1, <2>2, OrderedDropLast, ZenonT(60)
    <3> QED BY <3>1, <3>2, <3>3 DEF DeliveryInOrder
  <2>8. CASE Receive
    <3>1. /\ forwardC # <<>> /\ received' = Head(forwardC)
          /\ forwardC' = Tail(forwardC) /\ UNCHANGED <<held, tail>>
      BY <2>8 DEF Receive
    <3>2. InFlight # <<>> /\ Head(InFlight) = Head(forwardC) /\ InFlight' = Tail(InFlight)
      <4>1. CASE held = Nil BY <4>1, <3>1 DEF InFlight
      <4>2. CASE held # Nil
        <5>1. InFlight = Append(forwardC, held)
          BY <4>2 DEF InFlight
        <5>2. InFlight' = Append(Tail(forwardC), held)
          BY <4>2, <3>1 DEF InFlight
        <5>3. Tail(Append(forwardC, held)) = Append(Tail(forwardC), held)
          BY <2>1, <3>1
        <5>4. /\ Append(forwardC, held) # <<>>
              /\ Head(Append(forwardC, held)) = Head(forwardC)
          BY <2>1, <3>1
        <5> QED BY <5>1, <5>2, <5>3, <5>4
      <4> QED BY <4>1, <4>2
    <3>3. Ordered(Head(InFlight), Tail(InFlight), tail)
      BY <3>2, <2>1, <2>2, OrderedTail
    <3> QED BY <3>1, <3>2, <3>3 DEF DeliveryInOrder
  <2>9. CASE CloseDrain
    <3>1. Peek = tail
      BY <2>9, PopWindow, ZenonT(60) DEF CloseDrain, Peek, TypeOK, RingWindow
    <3>2. held = Nil /\ held' = Nil /\ tail' = tail + 1 /\ received' = received
      BY <2>9 DEF CloseDrain, PopWrite, LoopControl
    <3>3. CASE Len(forwardC) < FwdCap
      <4>1. forwardC' = Append(forwardC, tail)
        BY <2>9, <3>1, <3>3 DEF CloseDrain
      <4>2. InFlight = forwardC /\ InFlight' = Append(forwardC, tail)
        BY <4>1, <3>2 DEF InFlight
      <4>3. Ordered(received, Append(forwardC, tail), tail + 1)
        BY <4>2, <2>1, <2>2, OrderedAppend
      <4> QED BY <3>2, <4>2, <4>3 DEF DeliveryInOrder
    <3>4. CASE ~(Len(forwardC) < FwdCap)
      <4>1. forwardC' = forwardC
        BY <2>9, <3>4 DEF CloseDrain
      <4>2. InFlight' = InFlight
        BY <4>1, <3>2 DEF InFlight
      <4>3. Ordered(received, InFlight, tail + 1)
        BY <2>1, <2>2, OrderedWeaken
      <4> QED BY <3>2, <4>2, <4>3 DEF DeliveryInOrder
    <3> QED BY <3>3, <3>4
  <2>10. ASSUME NEW p \in Producers, Producer(p), ~Push(p) PROVE DeliveryInOrder'
    BY <2>10, <2>3, ZenonT(60) DEF Producer, SendStart, ReadPrev, PushTooOld, Account,
                       CheckThreshold
  <2>11. CASE Closer /\ ~CloseDrain
    BY <2>11, <2>3, ZenonT(60) DEF Closer, CloseStopCh, CloseBroadcast, CloseJoin,
                       CloseDrained, CloseForwardC
  <2>12. CASE LoopWait BY <2>12, <2>3 DEF LoopWait
  <2>13. CASE CloseStart \/ OnDisconnect \/ ResetDrops \/ UNCHANGED vars
    BY <2>13, <2>3 DEF CloseStart, OnDisconnect, ResetDrops, vars
  <2> QED BY <2>4, <2>5, <2>6, <2>7, <2>8, <2>9, <2>10, <2>11, <2>12, <2>13
          DEF Next, Loop
<1> QED BY <1>1, <1>2, TypeCorrect, RingCorrect, LoopControlled, PTL DEF Spec

-----------------------------------------------------------------------------
(* Every event is counted.                                                  *)

\* A set of producers is finite; one more or one fewer changes its size by one.
LEMMA ProducerCount ==
  ASSUME NEW S \in SUBSET Producers, NEW p \in Producers
  PROVE  /\ Cardinality(S) \in Nat /\ Cardinality(S) <= Cardinality(Producers)
         /\ p \notin S => Cardinality(S \union {p}) = Cardinality(S) + 1
         /\ p \in S => Cardinality(S \ {p}) = Cardinality(S) - 1
<1>1. IsFiniteSet(Producers)
  BY ChannelAssumption
<1>2. IsFiniteSet(S) /\ Cardinality(S) <= Cardinality(Producers)
  BY <1>1, FS_Subset, ZenonT(60)
<1>3. Cardinality(S) \in Nat
  BY <1>2, FS_CardinalityType, ZenonT(60)
<1>4. Cardinality(S \union {p}) = IF p \in S THEN Cardinality(S) ELSE Cardinality(S) + 1
  BY <1>2, FS_AddElement, ZenonT(60)
<1>5. Cardinality(S \ {p}) = IF p \in S THEN Cardinality(S) - 1 ELSE Cardinality(S)
  BY <1>2, FS_RemoveElement, ZenonT(60)
<1> QED BY <1>2, <1>3, <1>4, <1>5

\* A larger set of producers counts at least as many.
LEMMA ProducerCountMonotonic ==
  ASSUME NEW T \in SUBSET Producers, NEW S \in SUBSET T
  PROVE  Cardinality(S) <= Cardinality(T)
<1>1. IsFiniteSet(T)
  BY ChannelAssumption, FS_Subset, ZenonT(60)
<1> QED BY <1>1, FS_Subset, ZenonT(60)

\* The number of producers between the closed check and Push.
LEMMA PushingCount ==
  ASSUME TypeOK
  PROVE  /\ Pushing \in SUBSET Producers
         /\ Cardinality(Pushing) \in Nat
         /\ Cardinality(Pushing) <= Cardinality(Producers)
<1>1. Pushing \in SUBSET Producers
  BY DEF Pushing
<1>2. IsFiniteSet(Producers)
  BY ChannelAssumption
<1>3. IsFiniteSet(Pushing) /\ Cardinality(Pushing) <= Cardinality(Producers)
  BY <1>1, <1>2, FS_Subset, ZenonT(60)
<1>4. Cardinality(Pushing) \in Nat
  BY <1>3, FS_CardinalityType, ZenonT(60)
<1> QED BY <1>1, <1>3, <1>4

\* A producer enters by SendStart.
LEMMA PushingEnters ==
  ASSUME TypeOK, NEW p \in Producers, SendStart(p)
  PROVE  Cardinality(Pushing') = Cardinality(Pushing) + 1
<1>0. Pushing \in SUBSET Producers
  BY PushingCount, ZenonT(60)
<1>1. p \notin Pushing
  BY DEF SendStart, Pushing
<1>2. Pushing' = Pushing \union {p}
  BY DEF SendStart, Pushing, TypeOK
<1> QED BY <1>0, <1>1, <1>2, ProducerCount, ZenonT(60)

\* A producer leaves by Push, whether or not the event was too old.
LEMMA PushingLeaves ==
  ASSUME TypeOK, NEW p \in Producers, Push(p) \/ PushTooOld(p)
  PROVE  Cardinality(Pushing') = Cardinality(Pushing) - 1
<1>0. Pushing \in SUBSET Producers
  BY PushingCount, ZenonT(60)
<1>1. pc[p] = "push" /\ pc' = [pc EXCEPT ![p] = "account"]
  BY ZenonT(60) DEF Push, PushTooOld
<1>2. p \in Pushing
  BY <1>1 DEF Pushing
<1>3. Pushing' = Pushing \ {p}
  BY <1>1 DEF Pushing, TypeOK
<1> QED BY <1>0, <1>2, <1>3, ProducerCount, ZenonT(60)

\* The other steps of a producer keep the producers that have entered and not left.
LEMMA PushingKeeps ==
  ASSUME TypeOK, NEW p \in Producers, ReadPrev(p) \/ Account(p) \/ CheckThreshold(p)
  PROVE  Pushing' = Pushing
<1>1. CASE ReadPrev(p)
  BY <1>1 DEF ReadPrev, Pushing, TypeOK
<1>2. CASE Account(p)
  <2>1. /\ pc[p] = "account"
        /\ \/ pc' = [pc EXCEPT ![p] = "check"]
           \/ pc' = [pc EXCEPT ![p] = "idle"]
    BY <1>2 DEF Account
  <2> QED BY <2>1 DEF Pushing, TypeOK
<1>3. CASE CheckThreshold(p)
  <2>1. pc[p] = "check" /\ pc' = [pc EXCEPT ![p] = "idle"]
    BY <1>3, ZenonT(60) DEF CheckThreshold
  <2> QED BY <2>1 DEF Pushing, TypeOK
<1> QED BY <1>1, <1>2, <1>3

\* At most one event is abandoned, by the loop as it exits.
LostOnce == lost = {} \/ (loop = "exited" /\ \E e \in Event : lost = {e})

\* What is in flight, as a number: one more by an append or a pop, one fewer by a
\* receive.
LEMMA FlightLength ==
  ASSUME NEW s \in Seq(Event), NEW e \in Event
  PROVE  /\ Len(s) \in Nat /\ Len(Append(s, e)) = Len(s) + 1
         /\ s # <<>> => /\ Len(Tail(s)) = Len(s) - 1
                        /\ Len(Append(Tail(s), e)) = Len(s)
OBVIOUS

\* Every event whose Send reached Push is in exactly one place, whatever the
\* producers, the loop, the consumer and Close do, and the loop abandons at most one.
THEOREM EventsConserved == Spec => [](Conservation /\ LostOnce)
<1> DEFINE Inv == Conservation /\ LostOnce
<1> USE DEF ringVars, sendVars, loopVars, chanVars, closeVars, dropVars
<1>1. Init => Inv
  <2> SUFFICES ASSUME Init PROVE Inv
    OBVIOUS
  <2>1. Pushing = {} /\ InFlight = <<>> /\ lost = {}
    BY DEF Init, Pushing, InFlight
  <2>2. Cardinality(Pushing) = 0 /\ Cardinality(lost) = 0
    BY <2>1, FS_EmptySet, ZenonT(60)
  <2>3. Len(InFlight) = 0
    BY <2>1
  <2> QED BY <2>1, <2>2, <2>3 DEF Init, Conservation, LostOnce
<1>2. TypeOK /\ RingWindow /\ LoopControl /\ Inv /\ [Next]_vars => Inv'
  <2> SUFFICES ASSUME TypeOK, RingWindow, LoopControl, Conservation, LostOnce, [Next]_vars
               PROVE  Conservation' /\ LostOnce'
    OBVIOUS
  <2> DEFINE n == Cardinality(Pushing)
             f == Len(InFlight)
             l == Cardinality(lost)
             m == Cardinality(Pushing')
             g == Len(InFlight')
             k == Cardinality(lost')
  <2>1. n \in Nat /\ f \in Nat /\ l \in Nat /\ sends \in Nat
    <3>1. Cardinality(lost) \in Nat
      <4>1. lost = {} => Cardinality(lost) = 0
        BY FS_EmptySet, ZenonT(60)
      <4>2. \A e \in Event : lost = {e} => Cardinality(lost) = 1
        BY FS_Singleton, ZenonT(60)
      <4> QED BY <4>1, <4>2 DEF LostOnce
    <3>2. Len(InFlight) \in Nat
      BY DEF InFlight, TypeOK
    <3>3. Cardinality(Pushing) \in Nat
      BY PushingCount, ZenonT(60)
    <3> QED BY <3>1, <3>2, <3>3 DEF TypeOK
  <2>2. /\ head \in Nat /\ tail \in Nat /\ ringDropped \in Nat /\ delivered \in Nat
        /\ closeDropped \in Nat
    BY DEF TypeOK
  <2>3. sends - n = ringDropped + delivered + f + (head - tail) + closeDropped + l
    BY DEF Conservation
  <2>c. ASSUME sends' - m = ringDropped' + delivered' + g + (head' - tail') + closeDropped' + k
        PROVE  Conservation'
    BY <2>c DEF Conservation
  <2> HIDE DEF n, f, l, m, g, k
  <2>4. LostOnce'
    <3>1. CASE LoopStop
      <4>1. lost = {}
        BY <3>1, ZenonT(60) DEF LostOnce, LoopStop
      <4>2. lost' = {held} /\ loop' = "exited" /\ held \in Event
        BY <3>1, <4>1 DEF LoopStop, TypeOK
      <4> QED BY <4>2, <3>1, ZenonT(60) DEF LostOnce
    <3>2. CASE ~LoopStop
      <4>1. UNCHANGED lost
        BY <3>2, ZenonT(60) DEF Next, Producer, SendStart, ReadPrev, Push, PushTooOld, Account,
              CheckThreshold, ResetDrops, Loop, LoopWait, LoopPop, LoopForward, Receive,
              Closer, CloseStopCh, CloseBroadcast, CloseJoin, CloseDrain, CloseDrained,
              CloseForwardC, CloseStart, OnDisconnect, vars
      <4>2. loop = "exited" => loop' = "exited"
        <5> SUFFICES ASSUME loop = "exited" PROVE loop' = "exited"
          OBVIOUS
        <5>1. ~LoopWait /\ ~LoopPop /\ ~LoopForward
          BY ZenonT(60) DEF LoopWait, LoopPop, LoopForward
        <5>2. Wake => loop' = "exited"
          BY DEF Wake
        <5> QED BY <5>1, <5>2, <3>2, ZenonT(60) DEF Next, Producer, SendStart, ReadPrev, Push,
              PushTooOld, Account, CheckThreshold, ResetDrops, Loop, Receive,
              Closer, CloseStopCh, CloseBroadcast, CloseJoin, CloseDrain, CloseDrained,
              CloseForwardC, CloseStart, OnDisconnect, vars
      <4> QED BY <4>1, <4>2, ZenonT(60) DEF LostOnce
    <3> QED BY <3>1, <3>2
  <2> SUFFICES Conservation'
    BY <2>4
  <2>4a. lost' = lost => k = l
    BY DEF k, l
  <2>5. UNCHANGED <<forwardC, held>> => g = f
    BY DEF InFlight, g, f
  <2>6. ASSUME NEW p \in Producers, SendStart(p) PROVE Conservation'
    <3>1. m = n + 1
      BY <2>6, PushingEnters, ZenonT(60) DEF m, n
    <3>2. /\ sends' = sends + 1
          /\ UNCHANGED <<ringDropped, delivered, forwardC, held, head, tail, closeDropped, lost>>
      BY <2>6, ZenonT(60) DEF SendStart
    <3>3. g = f /\ k = l
      BY <3>2, <2>4a, <2>5, ZenonT(60)
    <3> QED BY <2>1, <2>2, <2>3, <3>1, <3>2, <3>3, <2>c
  <2>7. ASSUME NEW p \in Producers, Push(p) PROVE Conservation'
    <3>1. m = n - 1
      BY <2>7, PushingLeaves, ZenonT(60) DEF m, n
    <3>2. PushWrite /\ UNCHANGED <<sends, delivered, forwardC, held, closeDropped, lost>>
      BY <2>7, ZenonT(60) DEF Push
    <3>3. /\ head' = head + 1
          /\ \/ ringDropped' = ringDropped + 1 /\ tail' = tail + 1
             \/ ringDropped' = ringDropped /\ tail' = tail
      BY <3>2, ZenonT(60) DEF PushWrite
    <3>4. g = f /\ k = l
      BY <3>2, <2>4a, <2>5, ZenonT(60)
    <3> QED BY <2>1, <2>2, <2>3, <3>1, <3>2, <3>3, <3>4, <2>c
  <2>8. ASSUME NEW p \in Producers, PushTooOld(p) PROVE Conservation'
    <3>1. m = n - 1
      BY <2>8, PushingLeaves, ZenonT(60) DEF m, n
    <3>2. /\ ringDropped' = ringDropped + 1
          /\ UNCHANGED <<sends, delivered, forwardC, held, head, tail, closeDropped, lost>>
      BY <2>8, ZenonT(60) DEF PushTooOld
    <3>3. g = f /\ k = l
      BY <3>2, <2>4a, <2>5, ZenonT(60)
    <3> QED BY <2>1, <2>2, <2>3, <3>1, <3>2, <3>3, <2>c
  <2>9. ASSUME UNCHANGED <<sends, ringDropped, delivered, forwardC, held, head, tail,
                           closeDropped, lost>>,
               m = n
        PROVE  Conservation'
    BY <2>9, <2>3, <2>4a, <2>5, <2>c, ZenonT(60)
  <2>10. ASSUME NEW p \in Producers, ReadPrev(p) \/ Account(p) \/ CheckThreshold(p)
         PROVE  Conservation'
    <3>1. m = n
      BY <2>10, PushingKeeps, ZenonT(60) DEF m, n
    <3>2. UNCHANGED <<sends, ringDropped, delivered, forwardC, held, head, tail, closeDropped,
                      lost>>
      BY <2>10, ZenonT(60) DEF ReadPrev, Account, CheckThreshold
    <3> QED BY <2>9, <3>1, <3>2
  <2>11. UNCHANGED pc => m = n
    BY DEF Pushing, m, n
  <2>12. held \in Event /\ forwardC \in Seq(Event) /\ tail \in Event /\ tail # Nil
    BY <2>2 DEF TypeOK, Event, Nil
  <2>13. CASE LoopPop
    <3>1. Peek = tail
      BY <2>13, PopWindow, ZenonT(60) DEF LoopPop, Peek, TypeOK, RingWindow
    <3>2. /\ held' = tail /\ tail' = tail + 1 /\ held = Nil
          /\ UNCHANGED <<pc, sends, ringDropped, delivered, forwardC, head, closeDropped, lost>>
      BY <2>13, <3>1 DEF LoopPop, PopWrite, LoopControl
    <3>3. InFlight = forwardC /\ InFlight' = Append(forwardC, tail)
      BY <3>2, <2>12, ZenonT(60) DEF InFlight
    <3>4. g = f + 1
      BY <3>3, <2>12, FlightLength, ZenonT(60) DEF g, f
    <3>5. m = n /\ k = l
      BY <3>2, <2>4a, <2>11, ZenonT(60)
    <3> QED BY <2>1, <2>2, <2>3, <3>2, <3>4, <3>5, <2>c
  <2>14. CASE LoopForward
    <3>1. /\ held # Nil /\ forwardC' = Append(forwardC, held) /\ held' = Nil
          /\ UNCHANGED <<pc, sends, ringDropped, delivered, head, tail, closeDropped, lost>>
      BY <2>14, ZenonT(60) DEF LoopForward, LoopControl
    <3>2. g = f
      BY <3>1, ZenonT(60) DEF InFlight, g, f
    <3>3. m = n /\ k = l
      BY <3>1, <2>4a, <2>11, ZenonT(60)
    <3> QED BY <2>3, <3>1, <3>2, <3>3, <2>c, ZenonT(60)
  <2>15. CASE LoopStop
    <3>1. /\ held # Nil /\ held' = Nil
          /\ UNCHANGED <<pc, sends, ringDropped, delivered, forwardC, head, tail, closeDropped>>
      BY <2>15, ZenonT(60) DEF LoopStop, LoopControl
    <3>2. InFlight = Append(forwardC, held) /\ InFlight' = forwardC
      BY <3>1, ZenonT(60) DEF InFlight
    <3>3. f = g + 1 /\ g \in Nat
      BY <3>2, <2>12, FlightLength, ZenonT(60) DEF g, f
    <3>4. lost = {} /\ lost' = {held}
      BY <2>15 DEF LostOnce, LoopStop
    <3>5. l = 0 /\ k = 1
      BY <3>4, FS_EmptySet, FS_Singleton, ZenonT(60) DEF l, k
    <3>6. m = n
      BY <3>1, <2>11, ZenonT(60)
    <3> QED BY <2>1, <2>2, <2>3, <3>1, <3>3, <3>5, <3>6, <2>c
  <2>16. CASE Receive
    <3>1. /\ forwardC # <<>> /\ delivered' = delivered + 1 /\ forwardC' = Tail(forwardC)
          /\ UNCHANGED <<pc, sends, ringDropped, held, head, tail, closeDropped, lost>>
      BY <2>16, ZenonT(60) DEF Receive
    <3>2. g = f - 1
      <4>0. /\ Len(forwardC) \in Nat /\ Len(Tail(forwardC)) = Len(forwardC) - 1
            /\ Len(Append(forwardC, held)) = Len(forwardC) + 1
            /\ Len(Append(Tail(forwardC), held)) = Len(forwardC)
        BY <3>1, <2>12, FlightLength, ZenonT(60)
      <4>1. CASE held = Nil
        <5>1. InFlight = forwardC /\ InFlight' = Tail(forwardC)
          BY <4>1, <3>1, ZenonT(60) DEF InFlight
        <5> QED BY <5>1, <4>0, ZenonT(60) DEF f, g
      <4>2. CASE held # Nil
        <5>1. InFlight = Append(forwardC, held) /\ InFlight' = Append(Tail(forwardC), held)
          BY <4>2, <3>1, ZenonT(60) DEF InFlight
        <5>2. f = Len(forwardC) + 1 /\ g = Len(forwardC)
          BY <5>1, <4>0, ZenonT(60) DEF f, g
        <5> QED BY <5>2, <4>0
      <4> QED BY <4>1, <4>2
    <3>3. m = n /\ k = l
      BY <3>1, <2>4a, <2>11, ZenonT(60)
    <3> QED BY <2>1, <2>2, <2>3, <3>1, <3>2, <3>3, <2>c
  <2>17. CASE CloseDrain
    <3>1. Peek = tail
      BY <2>17, PopWindow, ZenonT(60) DEF CloseDrain, Peek, TypeOK, RingWindow
    <3>2. /\ held = Nil /\ held' = Nil /\ tail' = tail + 1
          /\ UNCHANGED <<pc, sends, ringDropped, delivered, head, lost>>
      BY <2>17, ZenonT(60) DEF CloseDrain, PopWrite, LoopControl
    <3>3. \/ forwardC' = Append(forwardC, tail) /\ closeDropped' = closeDropped
          \/ forwardC' = forwardC /\ closeDropped' = closeDropped + 1
      BY <2>17, <3>1, ZenonT(60) DEF CloseDrain
    <3>4. InFlight = forwardC /\ InFlight' = forwardC'
      BY <3>2, ZenonT(60) DEF InFlight
    <3>5. \/ g = f + 1 /\ closeDropped' = closeDropped
          \/ g = f /\ closeDropped' = closeDropped + 1
      <4>1. Len(Append(forwardC, tail)) = Len(forwardC) + 1
        BY <2>12, FlightLength, ZenonT(60)
      <4>2. f = Len(forwardC) /\ g = Len(forwardC')
        BY <3>4, ZenonT(60) DEF f, g
      <4> QED BY <4>1, <4>2, <3>3, ZenonT(60)
    <3>6. m = n /\ k = l
      BY <3>2, <2>4a, <2>11, ZenonT(60)
    <3> QED BY <2>1, <2>2, <2>3, <3>2, <3>5, <3>6, <2>c
  <2>18. CASE UNCHANGED <<pc, sends, ringDropped, delivered, forwardC, held, head, tail,
                          closeDropped, lost>>
    BY <2>18, <2>9, <2>11
  <2>19. CASE LoopWait \/ (Closer /\ ~CloseDrain)
    BY <2>19, <2>18, ZenonT(60) DEF LoopWait, Closer, CloseStopCh, CloseBroadcast, CloseJoin,
                                    CloseDrained, CloseForwardC
  <2>20. CASE CloseStart \/ OnDisconnect \/ ResetDrops \/ UNCHANGED vars
    BY <2>20, <2>18, ZenonT(60) DEF CloseStart, OnDisconnect, ResetDrops, vars
  <2> QED BY <2>6, <2>7, <2>8, <2>10, <2>13, <2>14, <2>15, <2>16, <2>17, <2>19, <2>20, ZenonT(60)
          DEF Next, Producer, Loop
<1> QED BY <1>1, <1>2, TypeCorrect, RingCorrect, LoopControlled, PTL DEF Spec

\* Once the drain has found the ring empty, what it leaves is at most one event for
\* each producer that was already past the closed check.
LateBounded ==
    closer \in {"closeC", "done"} =>
        (head - tail) + Cardinality(Pushing) <= Cardinality(Producers)

\* Close leaves in the ring at most the event of each producer that had passed the
\* closed check: SendStart admits nobody once Close has begun, and Push takes a
\* producer out of the count for the one event it adds.
THEOREM CloseLeavesFew == Spec => []LateBounded
<1> USE DEF ringVars, sendVars, loopVars, chanVars, closeVars, dropVars
<1>1. Init => LateBounded
  BY DEF Init, LateBounded
<1>2. TypeOK /\ RingWindow /\ LoopControl /\ LateBounded /\ [Next]_vars => LateBounded'
  <2> SUFFICES ASSUME TypeOK, RingWindow, LoopControl, LateBounded, [Next]_vars,
                      closer' \in {"closeC", "done"}
               PROVE  (head' - tail') + Cardinality(Pushing') <= Cardinality(Producers)
    BY DEF LateBounded
  <2> DEFINE n == Cardinality(Pushing)
             m == Cardinality(Pushing')
             N == Cardinality(Producers)
             Few == (head' - tail') + m <= N
  <2>1. n \in Nat /\ n <= N /\ N \in Nat
    <3>1. N \in Nat
      BY ChannelAssumption, FS_CardinalityType, ZenonT(60)
    <3> QED BY <3>1, PushingCount, ZenonT(60)
  <2>2. head \in Nat /\ tail \in Nat /\ tail <= head
    BY DEF TypeOK, RingWindow, Window
  <2>3. closer \in {"closeC", "done"} => (head - tail) + n <= N
    BY DEF LateBounded
  <2> SUFFICES Few
    OBVIOUS
  <2>4. UNCHANGED pc => m = n
    BY DEF Pushing
  <2> HIDE DEF n, m, N
  <2>5. CASE CloseDrained
    <3>1. tail >= head /\ UNCHANGED <<pc, head, tail>>
      BY <2>5, ZenonT(60) DEF CloseDrained
    <3>2. m = n
      BY <3>1, <2>4, ZenonT(60)
    <3> QED BY <3>1, <3>2, <2>1, <2>2
  <2>6. CASE ~CloseDrained
    <3>1. closer \in {"closeC", "done"}
      BY <2>6, ZenonT(60) DEF Next, Producer, SendStart, ReadPrev, Push, PushTooOld, Account,
            CheckThreshold, ResetDrops, Loop, LoopWait, LoopPop, LoopForward, LoopStop,
            Receive, Closer, CloserGoes, CloseStopCh, CloseBroadcast, CloseJoin, CloseDrain,
            CloseForwardC, CloseStart, OnDisconnect, closed, vars
    <3>2. (head - tail) + n <= N /\ closed
      BY <2>3, <3>1 DEF closed
    <3>3. loop = "exited" /\ closer # "drain"
      BY <3>1 DEF LoopControl
    <3>4. ASSUME UNCHANGED <<head, tail>>, m = n PROVE Few
      BY <3>4, <3>2
    <3>5. ASSUME NEW p \in Producers, Push(p) PROVE Few
      <4>1. m = n - 1
        BY <3>5, PushingLeaves, ZenonT(60) DEF m, n
      <4>2. head' = head + 1 /\ (tail' = tail + 1 \/ tail' = tail)
        BY <3>5, ZenonT(60) DEF Push, PushWrite
      <4> QED BY <4>1, <4>2, <3>2, <2>1, <2>2
    <3>6. ASSUME NEW p \in Producers, PushTooOld(p) PROVE Few
      <4>1. m = n - 1
        BY <3>6, PushingLeaves, ZenonT(60) DEF m, n
      <4>2. head' = head /\ tail' = tail
        BY <3>6, ZenonT(60) DEF PushTooOld
      <4> QED BY <4>1, <4>2, <3>2, <2>1, <2>2
    <3>7. ASSUME NEW p \in Producers, ReadPrev(p) \/ Account(p) \/ CheckThreshold(p)
          PROVE  Few
      <4>1. m = n
        BY <3>7, PushingKeeps, ZenonT(60) DEF m, n
      <4>2. UNCHANGED <<head, tail>>
        BY <3>7, ZenonT(60) DEF ReadPrev, Account, CheckThreshold
      <4> QED BY <4>1, <4>2, <3>4
    <3>8. \A p \in Producers : ~SendStart(p)
      BY <3>2, ZenonT(60) DEF SendStart
    <3>9. ~CloseDrain /\ ~LoopPop
      BY <3>3, ZenonT(60) DEF CloseDrain, LoopPop
    <3>10. CASE UNCHANGED <<pc, head, tail>>
      BY <3>10, <3>4, <2>4
    <3>11. CASE LoopWait \/ LoopForward \/ LoopStop \/ Receive \/ ResetDrops
      BY <3>11, <3>10, ZenonT(60) DEF LoopWait, LoopForward, LoopStop, Receive, ResetDrops
    <3>12. CASE Closer
      BY <3>12, <3>9, <2>6, <3>10, ZenonT(60) DEF Closer, CloseStopCh, CloseBroadcast, CloseJoin,
                                              CloseForwardC
    <3>13. CASE CloseStart \/ OnDisconnect \/ UNCHANGED vars
      BY <3>13, <3>10, ZenonT(60) DEF CloseStart, OnDisconnect, vars
    <3> QED BY <3>5, <3>6, <3>7, <3>8, <3>9, <3>11, <3>12, <3>13, ZenonT(60)
            DEF Next, Producer, Loop
  <2> QED BY <2>5, <2>6
<1> QED BY <1>1, <1>2, TypeCorrect, RingCorrect, LoopControlled, PTL DEF Spec

\* Producers back from Push that will count at least one drop.
Uncounted == {p \in Producers : pc[p] = "account" /\ prev[p] < ringDropped}

\* A drop not yet in totalDropped has a producer that will count it.
DropsCovered ==
    /\ \A p \in Producers : prev[p] <= ringDropped
    /\ ringDropped + closeDropped <= totalDropped + Cardinality(Uncounted)

\* Channel.TotalDropped never falls behind by more than the producers that are about
\* to count: each of the concurrent Sends that saw the ring drop adds at least one.
THEOREM DropsAreCovered == Spec => []DropsCovered
<1> USE DEF ringVars, sendVars, loopVars, chanVars, closeVars, dropVars
<1>0. Uncounted \in SUBSET Producers /\ Uncounted' \in SUBSET Producers
  BY DEF Uncounted
<1>1. Init => DropsCovered
  <2> SUFFICES ASSUME Init PROVE DropsCovered
    OBVIOUS
  <2>1. Uncounted = {}
    BY DEF Init, Uncounted
  <2>2. Cardinality(Uncounted) = 0
    BY <2>1, FS_EmptySet, ZenonT(60)
  <2>3. /\ ringDropped = 0 /\ closeDropped = 0 /\ totalDropped = 0
        /\ \A p \in Producers : prev[p] = 0
    BY DEF Init
  <2> QED BY <2>2, <2>3 DEF DropsCovered
<1>2. TypeOK /\ DropsCovered /\ [Next]_vars => DropsCovered'
  <2> SUFFICES ASSUME TypeOK, DropsCovered, [Next]_vars PROVE DropsCovered'
    OBVIOUS
  <2> DEFINE u == Cardinality(Uncounted)
             v == Cardinality(Uncounted')
  <2>0. ringDropped \in Nat /\ closeDropped \in Nat /\ totalDropped \in Nat
    BY DEF TypeOK
  <2>1. ringDropped \in Nat /\ \A p \in Producers : prev[p] \in Nat /\ prev[p] <= ringDropped
    BY DEF TypeOK, DropsCovered
  <2>2. u \in Nat /\ v \in Nat
    <3>1. ASSUME NEW S \in SUBSET Producers PROVE Cardinality(S) \in Nat
      <4>1. IsFiniteSet(S)
        BY ChannelAssumption, FS_Subset, ZenonT(60)
      <4> QED BY <4>1, FS_CardinalityType, ZenonT(60)
    <3> QED BY <3>1, <1>0, ZenonT(60)
  <2>3. ringDropped + closeDropped <= totalDropped + u
    BY DEF DropsCovered
  <2>4. ASSUME \A p \in Producers : prev'[p] <= ringDropped',
               ringDropped' + closeDropped' <= totalDropped' + v
        PROVE  DropsCovered'
    BY <2>4 DEF DropsCovered
  <2>5. Uncounted' = Uncounted => v = u
    OBVIOUS
  <2> HIDE DEF u, v
  <2>6. ASSUME UNCHANGED <<ringDropped, closeDropped, totalDropped>>, Uncounted' = Uncounted,
               \A p \in Producers : prev'[p] <= ringDropped
        PROVE  DropsCovered'
    <3>1. v = u
      BY <2>5, <2>6, ZenonT(60)
    <3> QED BY <3>1, <2>3, <2>4, <2>6
  <2>7. ASSUME NEW p \in Producers, SendStart(p) PROVE DropsCovered'
    <3>1. /\ pc[p] = "idle" /\ pc' = [pc EXCEPT ![p] = "prev"]
          /\ UNCHANGED <<prev, ringDropped, closeDropped, totalDropped>>
      BY <2>7, ZenonT(60) DEF SendStart
    <3>2. Uncounted' = Uncounted
      BY <3>1 DEF Uncounted, TypeOK
    <3> QED BY <3>1, <3>2, <2>1, <2>6
  <2>8. ASSUME NEW p \in Producers, ReadPrev(p) PROVE DropsCovered'
    <3>1. /\ pc[p] = "prev" /\ pc' = [pc EXCEPT ![p] = "push"]
          /\ prev' = [prev EXCEPT ![p] = ringDropped]
          /\ UNCHANGED <<ringDropped, closeDropped, totalDropped>>
      BY <2>8, ZenonT(60) DEF ReadPrev
    <3>2. Uncounted' = Uncounted
      BY <3>1 DEF Uncounted, TypeOK
    <3>3. \A q \in Producers : prev'[q] <= ringDropped
      BY <3>1, <2>1 DEF TypeOK
    <3> QED BY <3>1, <3>2, <3>3, <2>6
  <2>9. ASSUME NEW p \in Producers, Push(p) \/ PushTooOld(p) PROVE DropsCovered'
    <3>1. /\ pc[p] = "push" /\ pc' = [pc EXCEPT ![p] = "account"]
          /\ UNCHANGED <<prev, closeDropped, totalDropped>>
          /\ ringDropped' = ringDropped + 1 \/ ringDropped' = ringDropped
      BY <2>9, ZenonT(60) DEF Push, PushTooOld, PushWrite
    <3>2. \A q \in Producers : prev'[q] <= ringDropped'
      BY <3>1, <2>1
    <3>3. CASE ringDropped' = ringDropped + 1
      <4>1. p \notin Uncounted
        BY <3>1 DEF Uncounted
      <4>2. Uncounted \union {p} \in SUBSET Uncounted'
        BY <3>1, <3>3, <2>1 DEF Uncounted, TypeOK
      <4>3. Cardinality(Uncounted \union {p}) = u + 1
        BY <4>1, <1>0, ProducerCount, ZenonT(60) DEF u
      <4>4. Cardinality(Uncounted \union {p}) <= v
        BY <4>2, <1>0, ProducerCountMonotonic, ZenonT(60) DEF v
      <4>5. u + 1 <= v
        BY <4>3, <4>4, ZenonT(60)
      <4>6. ringDropped' + closeDropped' <= totalDropped' + v
        BY <4>5, <3>1, <3>3, <2>0, <2>2, <2>3
      <4> QED BY <4>6, <3>2, <2>4, ZenonT(60)
    <3>4. CASE ringDropped' = ringDropped
      <4>1. Uncounted \in SUBSET Uncounted'
        BY <3>1, <3>4 DEF Uncounted, TypeOK
      <4>2. u <= v
        BY <4>1, <1>0, ProducerCountMonotonic, ZenonT(60) DEF u, v
      <4>3. ringDropped' + closeDropped' <= totalDropped' + v
        BY <4>2, <3>1, <3>4, <2>0, <2>2, <2>3
      <4> QED BY <4>3, <3>2, <2>4, ZenonT(60)
    <3> QED BY <3>1, <3>3, <3>4, ZenonT(60)
  <2>10. ASSUME NEW p \in Producers, Account(p) PROVE DropsCovered'
    <3>1. pc[p] = "account" /\ UNCHANGED <<prev, ringDropped, closeDropped>>
      BY <2>10, ZenonT(60) DEF Account
    <3>2. \/ pc' = [pc EXCEPT ![p] = "check"]
          \/ pc' = [pc EXCEPT ![p] = "idle"]
      BY <2>10 DEF Account
    <3>3. Uncounted' = Uncounted \ {p}
      BY <3>1, <3>2 DEF Uncounted, TypeOK
    <3>4. CASE prev[p] < ringDropped
      <4> DEFINE d == ringDropped - prev[p]
      <4>1. totalDropped' = totalDropped + d /\ d \in Nat /\ 1 <= d
        BY <2>10, <2>1, <3>4 DEF Account
      <4> HIDE DEF d
      <4>2. p \in Uncounted
        BY <3>1, <3>4 DEF Uncounted
      <4>3. v = u - 1
        BY <3>3, <4>2, <1>0, ProducerCount, ZenonT(60) DEF u, v
      <4>4. ringDropped' + closeDropped' <= totalDropped' + v
        BY <4>1, <4>3, <3>1, <2>0, <2>2, <2>3
      <4>5. \A q \in Producers : prev'[q] <= ringDropped'
        BY <3>1, <2>1
      <4> QED BY <4>4, <4>5, <2>4, ZenonT(60)
    <3>5. CASE ~(prev[p] < ringDropped)
      <4>1. totalDropped' = totalDropped
        BY <2>10, <2>1, <3>5 DEF Account
      <4>2. Uncounted' = Uncounted
        BY <3>3, <3>5 DEF Uncounted
      <4> QED BY <4>1, <4>2, <3>1, <2>1, <2>6
    <3> QED BY <3>4, <3>5
  <2>11. ASSUME NEW p \in Producers, CheckThreshold(p) PROVE DropsCovered'
    <3>1. /\ pc[p] = "check" /\ pc' = [pc EXCEPT ![p] = "idle"]
          /\ UNCHANGED <<prev, ringDropped, closeDropped, totalDropped>>
      BY <2>11, ZenonT(60) DEF CheckThreshold
    <3>2. Uncounted' = Uncounted
      BY <3>1 DEF Uncounted, TypeOK
    <3> QED BY <3>1, <3>2, <2>1, <2>6
  <2>12. CASE CloseDrain
    <3>1. UNCHANGED <<pc, prev, ringDropped>>
      BY <2>12, ZenonT(60) DEF CloseDrain, PopWrite
    <3>2. \/ totalDropped' = totalDropped /\ closeDropped' = closeDropped
          \/ totalDropped' = totalDropped + 1 /\ closeDropped' = closeDropped + 1
      BY <2>12, ZenonT(60) DEF CloseDrain
    <3>3. Uncounted' = Uncounted
      BY <3>1 DEF Uncounted
    <3>4. v = u
      BY <3>3, <2>5, ZenonT(60)
    <3>5. \A q \in Producers : prev'[q] <= ringDropped'
      BY <3>1, <2>1
    <3>6. ringDropped' + closeDropped' <= totalDropped' + v
      BY <3>1, <3>2, <3>4, <2>0, <2>2, <2>3
    <3> QED BY <3>5, <3>6, <2>4, ZenonT(60)
  <2>13. CASE UNCHANGED <<pc, prev, ringDropped, closeDropped, totalDropped>>
    <3>1. Uncounted' = Uncounted
      BY <2>13 DEF Uncounted
    <3> QED BY <2>13, <3>1, <2>1, <2>6
  <2>14. CASE ResetDrops \/ Loop \/ Receive
    BY <2>14, <2>13, ZenonT(60) DEF ResetDrops, Loop, LoopWait, LoopPop, PopWrite, LoopForward,
                                    LoopStop, Receive
  <2>15. CASE Closer /\ ~CloseDrain
    BY <2>15, <2>13, ZenonT(60) DEF Closer, CloseStopCh, CloseBroadcast, CloseJoin,
                                    CloseDrained, CloseForwardC
  <2>16. CASE CloseStart \/ OnDisconnect \/ UNCHANGED vars
    BY <2>16, <2>13, ZenonT(60) DEF CloseStart, OnDisconnect, vars
  <2> QED BY <2>7, <2>8, <2>9, <2>10, <2>11, <2>12, <2>14, <2>15, <2>16, ZenonT(60)
          DEF Next, Producer
<1> QED BY <1>1, <1>2, TypeCorrect, PTL DEF Spec

\* No event is lost without being counted, for any number of producers and any
\* capacities: the ring's window, the conservation of events, the bound on what Close
\* loses, no send on a closed channel, and no drop missing from the count.
THEOREM ChannelAccounts == Spec => []Accounting
<1>1. LostOnce /\ LateBounded => CloseLossBounded
  <2> SUFFICES ASSUME LostOnce, LateBounded PROVE CloseLossBounded
    OBVIOUS
  <2>1. CASE lost = {}
    <3>1. Cardinality(lost) = 0
      BY <2>1, FS_EmptySet, ZenonT(60)
    <3> QED BY <3>1 DEF CloseLossBounded, LateBounded
  <2>2. ASSUME NEW e \in Event, lost = {e} PROVE CloseLossBounded
    <3>1. Cardinality(lost) = 1
      BY <2>2, FS_Singleton, ZenonT(60)
    <3> QED BY <3>1 DEF CloseLossBounded, LateBounded
  <2> QED BY <2>1, <2>2, ZenonT(60) DEF LostOnce
<1>2. TypeOK /\ DropsCovered => DropsNeverUndercounted
  <2> SUFFICES ASSUME TypeOK, DropsCovered, \A p \in Producers : pc[p] = "idle"
               PROVE  totalDropped >= ringDropped + closeDropped
    BY DEF DropsNeverUndercounted
  <2>1. Uncounted = {}
    BY DEF Uncounted
  <2>2. Cardinality(Uncounted) = 0
    BY <2>1, FS_EmptySet, ZenonT(60)
  <2> QED BY <2>2 DEF DropsCovered, TypeOK
<1>3. TypeOK /\ RingWindow /\ Conservation /\ CloseLossBounded /\ NoSendOnClosed
        /\ DropsNeverUndercounted => Accounting
  BY DEF Accounting
<1> QED BY <1>1, <1>2, <1>3, TypeCorrect, RingCorrect, EventsConserved, CloseLeavesFew,
           NeverSendOnClosed, DropsAreCovered, PTL

-----------------------------------------------------------------------------
(* One producer.                                                            *)

\* With one producer the consecutive drops it has counted are among the ring's drops,
\* and among those it read before its present Push.
SoloCount(p) ==
    /\ consecutive <= ringDropped
    /\ pc[p] \in {"push", "account"} => consecutive <= prev[p]

\* A single producer without the drop window is disconnected only after the ring has
\* dropped MaxConsecutiveDrops events (recordDrop, policy.go:75).  With two producers
\* the theorem fails: both may count the same drop.
THEOREM SoloDisconnects ==
  ASSUME NEW p, Producers = {p}, DropWindowOn = FALSE
  PROVE  Spec => []DisconnectAfterMaxDrops
<1> DEFINE Inv == SoloCount(p) /\ DisconnectAfterMaxDrops
<1> USE DEF ringVars, sendVars, loopVars, chanVars, closeVars, dropVars
<1>0. p \in Producers /\ MaxConsecutiveDrops \in Nat \ {0}
  BY ChannelAssumption
<1>1. Init => Inv
  BY DEF Init, SoloCount, DisconnectAfterMaxDrops
<1>2. TypeOK /\ DropsCovered /\ Inv /\ [Next]_vars => Inv'
  <2> SUFFICES ASSUME TypeOK, DropsCovered, SoloCount(p), DisconnectAfterMaxDrops,
                      [Next]_vars
               PROVE  SoloCount(p)' /\ DisconnectAfterMaxDrops'
    OBVIOUS
  <2> DEFINE c == prev[p]
             K == MaxConsecutiveDrops
  <2>1. /\ ringDropped \in Nat /\ consecutive \in Nat /\ c \in Nat /\ c <= ringDropped
        /\ K \in Nat
    BY <1>0 DEF TypeOK, DropsCovered
  <2>2. /\ consecutive <= ringDropped
        /\ pc[p] \in {"push", "account"} => consecutive <= c
    BY DEF SoloCount
  <2>3. disconnect # "armed" => K <= ringDropped
    BY <2>1 DEF DisconnectAfterMaxDrops
  <2>4. ASSUME consecutive' <= ringDropped',
               pc'[p] \in {"push", "account"} => consecutive' <= prev'[p]
        PROVE  SoloCount(p)'
    BY <2>4 DEF SoloCount
  <2>5. ASSUME K <= ringDropped', ringDropped' \in Nat PROVE DisconnectAfterMaxDrops'
    BY <2>5, <2>1 DEF DisconnectAfterMaxDrops
  <2>6. ASSUME disconnect' # "armed" => disconnect # "armed",
               ringDropped' = ringDropped \/ ringDropped' = ringDropped + 1
        PROVE  DisconnectAfterMaxDrops'
    BY <2>6, <2>1, <2>3 DEF DisconnectAfterMaxDrops
  <2>7. pc \in [Producers -> {"idle", "prev", "push", "account", "check"}]
        /\ prev \in [Producers -> Nat]
    BY DEF TypeOK
  <2>8. CASE SendStart(p)
    <3>1. pc' = [pc EXCEPT ![p] = "prev"] /\ UNCHANGED <<consecutive, ringDropped, disconnect>>
      BY <2>8, ZenonT(60) DEF SendStart
    <3>2. pc'[p] = "prev"
      BY <3>1, <2>7, <1>0
    <3> QED BY <3>1, <3>2, <2>2, <2>4, <2>6
  <2>9. CASE ReadPrev(p)
    <3>1. prev' = [prev EXCEPT ![p] = ringDropped]
          /\ UNCHANGED <<consecutive, ringDropped, disconnect>>
      BY <2>9, ZenonT(60) DEF ReadPrev
    <3>2. prev'[p] = ringDropped
      BY <3>1, <2>7, <1>0
    <3> QED BY <3>1, <3>2, <2>2, <2>4, <2>6
  <2>10. CASE Push(p) \/ PushTooOld(p)
    <3>1. /\ pc[p] = "push" /\ UNCHANGED <<prev, consecutive, disconnect>>
          /\ ringDropped' = ringDropped \/ ringDropped' = ringDropped + 1
      BY <2>10, ZenonT(60) DEF Push, PushTooOld, PushWrite
    <3>2. consecutive <= c
      BY <3>1, <2>2
    <3>3. consecutive' <= ringDropped' /\ consecutive' <= prev'[p]
      BY <3>1, <3>2, <2>1
    <3> QED BY <3>1, <3>3, <2>4, <2>6
  <2>11. CASE Account(p)
    <3>1. /\ pc[p] = "account" /\ UNCHANGED <<ringDropped, prev, disconnect>>
          /\ \/ pc' = [pc EXCEPT ![p] = "check"]
             \/ pc' = [pc EXCEPT ![p] = "idle"]
      BY <2>11 DEF Account
    <3>2. pc'[p] \notin {"push", "account"}
      BY <3>1, <2>7, <1>0
    <3>3. consecutive' <= ringDropped
      <4>1. consecutive <= c
        BY <3>1, <2>2
      <4>2. CASE c < ringDropped
        <5>1. consecutive' = consecutive + 1 \/ consecutive' = consecutive
          BY <2>11, <2>1, <4>2 DEF Account
        <5> QED BY <5>1, <4>1, <4>2, <2>1
      <4>3. CASE ~(c < ringDropped)
        <5>1. consecutive' = 0
          BY <2>11, <2>1, <4>3 DEF Account
        <5> QED BY <5>1, <2>1
      <4> QED BY <4>2, <4>3
    <3> QED BY <3>1, <3>2, <3>3, <2>4, <2>6
  <2>12. CASE CheckThreshold(p)
    <3>1. /\ pc' = [pc EXCEPT ![p] = "idle"] /\ UNCHANGED <<ringDropped, consecutive>>
          /\ disconnect' = disconnect \/ consecutive >= K
      <4>1. PICK sustained \in {FALSE, DropWindowOn} :
               disconnect' = IF /\ consecutive >= K \/ sustained
                                /\ disconnect = "armed"
                             THEN "fired" ELSE disconnect
        BY <2>12, ZenonT(60) DEF CheckThreshold
      <4>2. ~sustained
        BY <4>1, ZenonT(60)
      <4>3. disconnect' = disconnect \/ consecutive >= K
        BY <4>1, <4>2, ZenonT(60)
      <4> QED BY <2>12, <4>3, ZenonT(60) DEF CheckThreshold
    <3>2. pc'[p] = "idle"
      BY <3>1, <2>7, <1>0
    <3>3. SoloCount(p)'
      BY <3>1, <3>2, <2>2, <2>4
    <3>4. DisconnectAfterMaxDrops'
      <4>1. CASE disconnect' = disconnect BY <4>1, <3>1, <2>6
      <4>2. CASE consecutive >= K
        <5>1. K <= ringDropped
          BY <4>2, <2>1, <2>2
        <5> QED BY <5>1, <3>1, <2>1, <2>5
      <4> QED BY <3>1, <4>1, <4>2
    <3> QED BY <3>3, <3>4
  <2>13. CASE ResetDrops
    <3>1. consecutive' = 0 /\ UNCHANGED <<ringDropped, pc, prev, disconnect>>
      BY <2>13, ZenonT(60) DEF ResetDrops
    <3> QED BY <3>1, <2>1, <2>4, <2>6
  <2>14. CASE /\ UNCHANGED <<ringDropped, consecutive, pc, prev>>
              /\ disconnect' # "armed" => disconnect # "armed"
    <3>1. SoloCount(p)'
      BY <2>14 DEF SoloCount
    <3> QED BY <2>14, <3>1, <2>6
  <2>15. CASE Loop \/ Receive
    BY <2>15, <2>14, ZenonT(60) DEF Loop, LoopWait, LoopPop, PopWrite, LoopForward, LoopStop,
                                    Receive
  <2>16. CASE Closer
    BY <2>16, <2>14, ZenonT(60) DEF Closer, CloseStopCh, CloseBroadcast, CloseJoin, CloseDrain,
                                    PopWrite, CloseDrained, CloseForwardC
  <2>17. CASE CloseStart \/ OnDisconnect \/ UNCHANGED vars
    BY <2>17, <2>14, ZenonT(60) DEF CloseStart, OnDisconnect, vars
  <2>18. \A q \in Producers : q = p
    OBVIOUS
  <2> QED BY <2>8, <2>9, <2>10, <2>11, <2>12, <2>13, <2>15, <2>16, <2>17, <2>18, ZenonT(60)
          DEF Next, Producer
<1> QED BY <1>1, <1>2, TypeCorrect, DropsAreCovered, PTL DEF Spec
=============================================================================
