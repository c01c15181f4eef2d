------------------------------ MODULE PsimProofs ------------------------------
(***************************************************************************)
(* What holds in psim.c for every number of stations, slots and trials.    *)
(* The argument is about one station: StationOK relates its counters, its  *)
(* list and its arrays, and three lemmas show that a new frame, one slot   *)
(* of waiting and a transmission keep it.  Inv asks it of every station,   *)
(* and adds that a station that retries has a frame, without which a       *)
(* transmission could find an empty list.  The last two parts are about    *)
(* when psim.c sends: under T a station's turn comes round before any of   *)
(* its frames has waited N slots at the head of its list, and under I and  *)
(* B a wait after a collision stays inside the interval it was drawn from. *)
(***************************************************************************)
EXTENDS Psim, SequenceTheorems, TLAPS

\* now is the slot up to which the ages of the waiting frames have been counted.
StationOK(q, x, total, size, pending, delays, gen, sent, now) ==
    /\ q \in Nat /\ x \in Nat /\ total \in Nat /\ size \in Nat
    /\ pending \in Seq(Nat) /\ delays \in Seq(Nat) /\ gen \in Seq(Nat) /\ sent \in Seq(Nat)
    /\ q = Len(pending) /\ x = Len(delays) /\ x = Len(sent) /\ x + q = Len(gen)
    /\ total = x + q /\ x <= size /\ size > 0
    /\ \A k \in 1..x : delays[k] = sent[k] - gen[k] + 1
    /\ \A k \in 1..q : pending[q + 1 - k] = now - gen[x + k]

Now == IF pc = "access" THEN slot + 1 ELSE slot

Station(s) == StationOK(frameQ[s], frameTx[s], frameTotal[s], arraySize[s],
                        pendingFrames[s], frameDelay[s], genAt[s], sentAt[s], Now)

\* The functions over the stations, without what Station says of their values.
Domains ==
    /\ frameQ = [s \in Stations |-> frameQ[s]]
    /\ frameTx = [s \in Stations |-> frameTx[s]]
    /\ frameTotal = [s \in Stations |-> frameTotal[s]]
    /\ arraySize = [s \in Stations |-> arraySize[s]]
    /\ pendingFrames = [s \in Stations |-> pendingFrames[s]]
    /\ frameDelay = [s \in Stations |-> frameDelay[s]]
    /\ genAt = [s \in Stations |-> genAt[s]]
    /\ sentAt = [s \in Stations |-> sentAt[s]]

Frames == /\ Domains
          /\ \A s \in Stations : Station(s)
          /\ frameTxAll \in Nat /\ frameTxAll <= slot

Control ==
    /\ Protocol \in {"T", "P", "I", "B"} /\ trial \in 1..T
    /\ pc \in {"arrive", "access"} /\ slot \in 0..R /\ i \in Stations
    /\ pc = "access" => slot < R

Retries ==
    /\ tryingToTx \in [Stations -> Nat \cup {-1}]
    /\ intExp \in [Stations -> 1..MaxExp]
    /\ RetriesHaveFrames
    /\ Protocol = "P" => \A s \in Stations : tryingToTx[s] \in {0, 1}
    /\ Protocol = "I" => \A s \in Stations : intExp[s] = 1

Inv == Control /\ Frames /\ Retries

-----------------------------------------------------------------------------
(* The list of frame.c.                                                    *)

LEMMA ElementOfNat ==
    ASSUME NEW list \in Seq(Nat)
    PROVE  \A k \in 1..Len(list) : list[k] \in Nat
  OBVIOUS

LEMMA AppendNat ==
    ASSUME NEW list \in Seq(Nat), NEW e \in Nat, NEW n \in Nat, Len(list) = n
    PROVE  /\ Append(list, e) \in Seq(Nat) /\ Len(Append(list, e)) = n + 1
           /\ Append(list, e)[n + 1] = e
           /\ \A k \in 1..n : Append(list, e)[k] = list[k]
  OBVIOUS

LEMMA AddFrameSeq ==
    ASSUME NEW list \in Seq(Nat)
    PROVE  /\ AddFrame(list) \in Seq(Nat)
           /\ Len(AddFrame(list)) = Len(list) + 1
           /\ AddFrame(list)[1] = 0
           /\ \A k \in 1..Len(list) : AddFrame(list)[k + 1] = list[k]
  BY DEF AddFrame

LEMMA IncreaseDelaySeq ==
    ASSUME NEW list \in Seq(Nat)
    PROVE  /\ IncreaseDelay(list) \in Seq(Nat)
           /\ Len(IncreaseDelay(list)) = Len(list)
           /\ \A k \in 1..Len(list) : IncreaseDelay(list)[k] = list[k] + 1
  <1>1. DOMAIN list = 1..Len(list) /\ Len(list) \in Nat
    OBVIOUS
  <1>2. IncreaseDelay(list) = [k \in 1..Len(list) |-> list[k] + 1]
    BY <1>1 DEF IncreaseDelay
  <1>3. \A k \in 1..Len(list) : list[k] + 1 \in Nat
    BY <1>1
  <1>4. IncreaseDelay(list) \in [1..Len(list) -> Nat]
    BY <1>2, <1>3
  <1>5. QED
    BY <1>1, <1>2, <1>4

LEMMA DeleteLastSeq ==
    ASSUME NEW list \in Seq(Nat), NEW n \in Nat, n > 0, Len(list) = n
    PROVE  /\ GetLast(list) \in Nat /\ GetLast(list) = list[n]
           /\ DeleteLast(list) \in Seq(Nat) /\ Len(DeleteLast(list)) = n - 1
           /\ \A k \in 1..(n - 1) : DeleteLast(list)[k] = list[k]
  <1>1. \A k \in 1..n : list[k] \in Nat
    OBVIOUS
  <1>2. GetLast(list) = list[n] /\ n \in 1..n
    BY DEF GetLast
  <1> DEFINE m == n - 1
  <1>3. m \in Nat /\ m <= n /\ DeleteLast(list) = SubSeq(list, 1, m)
    BY DEF DeleteLast
  <1>4. \A k \in 1..m : list[k] \in Nat
    BY <1>1
  <1> HIDE DEF m
  <1>5. SubSeq(list, 1, m) = [k \in 1..m |-> list[k]]
    BY <1>3
  <1>6. /\ SubSeq(list, 1, m) \in Seq(Nat) /\ Len(SubSeq(list, 1, m)) = m
        /\ \A k \in 1..m : SubSeq(list, 1, m)[k] = list[k]
    BY <1>3, <1>4, <1>5
  <1>7. QED
    BY <1>1, <1>2, <1>3, <1>6 DEF m

-----------------------------------------------------------------------------
(* What can happen to a station in a slot.                                 *)

\* A new trial.
LEMMA FreshStation == 
    StationOK(0, 0, 0, ArraySize, <<>>, <<>>, <<>>, <<>>, 0)
  BY SizeAssumption DEF StationOK

\* The waiting frames get one slot older.
LEMMA AgeStation ==
    ASSUME NEW q, NEW x, NEW total, NEW size, NEW pending, NEW delays, NEW gen, NEW sent,
           NEW now \in Nat,
           StationOK(q, x, total, size, pending, delays, gen, sent, now)
    PROVE  StationOK(q, x, total, size, IncreaseDelay(pending), delays, gen, sent, now + 1)
  <1> DEFINE list == IncreaseDelay(pending)
  <1>1. /\ list \in Seq(Nat) /\ Len(list) = q
        /\ \A k \in 1..q : list[k] = pending[k] + 1
    BY IncreaseDelaySeq DEF StationOK
  <1> HIDE DEF list
  <1>2. \A k \in 1..q : list[q + 1 - k] = (now + 1) - gen[x + k]
    <2> SUFFICES ASSUME NEW k \in 1..q PROVE list[q + 1 - k] = (now + 1) - gen[x + k]
      OBVIOUS
    <2>1. /\ q \in Nat /\ x \in Nat /\ x + q = Len(gen) /\ gen \in Seq(Nat)
          /\ pending[q + 1 - k] = now - gen[x + k]
      BY DEF StationOK
    <2>2. q + 1 - k \in 1..q /\ x + k \in 1..Len(gen)
      BY <2>1
    <2>3. gen[x + k] \in Nat
      BY <2>1, <2>2, ElementOfNat
    <2>4. list[q + 1 - k] = pending[q + 1 - k] + 1
      BY <1>1, <2>2
    <2>5. (now - gen[x + k]) + 1 = (now + 1) - gen[x + k]
      BY <2>3
    <2>6. QED
      BY <2>1, <2>4, <2>5, Zenon
  <1>3. /\ q \in Nat /\ x \in Nat /\ total \in Nat /\ size \in Nat
        /\ delays \in Seq(Nat) /\ gen \in Seq(Nat) /\ sent \in Seq(Nat)
        /\ list \in Seq(Nat) /\ q = Len(list)
        /\ x = Len(delays) /\ x = Len(sent) /\ x + q = Len(gen)
        /\ total = x + q /\ x <= size /\ size > 0
        /\ \A k \in 1..x : delays[k] = sent[k] - gen[k] + 1
    BY <1>1 DEF StationOK
  <1>4. StationOK(q, x, total, size, list, delays, gen, sent, now + 1)
    BY <1>2, <1>3 DEF StationOK
  <1>5. QED
    BY <1>4 DEF list

\* A frame is generated, with the age 0 of the slot that has not counted it yet.
LEMMA GenerateStation ==
    ASSUME NEW q, NEW x, NEW total, NEW size, NEW pending, NEW delays, NEW gen, NEW sent,
           NEW now \in Nat,
           StationOK(q, x, total, size, pending, delays, gen, sent, now)
    PROVE  StationOK(q + 1, x, total + 1, size, AddFrame(pending), delays,
                     Append(gen, now), sent, now)
  <1> DEFINE g == Append(gen, now)
             list == AddFrame(pending)
  <1>0. /\ q \in Nat /\ x \in Nat /\ total \in Nat /\ size \in Nat
        /\ pending \in Seq(Nat) /\ gen \in Seq(Nat) /\ Len(pending) = q
        /\ Len(gen) = x + q
    BY DEF StationOK
  <1>1. /\ list \in Seq(Nat) /\ Len(list) = q + 1 /\ list[1] = 0
        /\ \A k \in 1..q : list[k + 1] = pending[k]
    BY <1>0, AddFrameSeq
  <1>2. /\ g \in Seq(Nat) /\ Len(g) = x + q + 1 /\ g[x + q + 1] = now
        /\ \A k \in 1..(x + q) : g[k] = gen[k]
    BY <1>0
  <1> HIDE DEF g, list
  <1>3. \A k \in 1..x : delays[k] = sent[k] - g[k] + 1
    <2> SUFFICES ASSUME NEW k \in 1..x PROVE delays[k] = sent[k] - g[k] + 1
      OBVIOUS
    <2>1. k \in 1..(x + q) /\ delays[k] = sent[k] - gen[k] + 1
      BY <1>0 DEF StationOK
    <2>2. QED
      BY <2>1, <1>2
  <1>4. \A k \in 1..(q + 1) : list[(q + 1) + 1 - k] = now - g[x + k]
    <2> SUFFICES ASSUME NEW k \in 1..(q + 1) PROVE list[(q + 1) + 1 - k] = now - g[x + k]
      OBVIOUS
    <2>1. CASE k = q + 1
      <3>1. (q + 1) + 1 - k = 1 /\ x + k = x + q + 1
        BY <1>0, <2>1
      <3>2. QED
        BY <3>1, <1>1, <1>2
    <2>2. CASE k # q + 1
      <3>1. /\ k \in 1..q /\ q + 1 - k \in 1..q /\ (q + 1) + 1 - k = (q + 1 - k) + 1
            /\ x + k \in 1..(x + q)
        BY <1>0, <2>2
      <3>2. pending[q + 1 - k] = now - gen[x + k]
        BY <3>1 DEF StationOK
      <3>3. QED
        BY <3>1, <3>2, <1>1, <1>2
    <2>3. QED
      BY <2>1, <2>2
  <1>5. /\ q + 1 \in Nat /\ total + 1 \in Nat
        /\ x + (q + 1) = Len(g) /\ total + 1 = x + (q + 1)
    BY <1>0, <1>2 DEF StationOK
  <1>6. StationOK(q + 1, x, total + 1, size, list, delays, g, sent, now)
    BY <1>1, <1>2, <1>3, <1>4, <1>5 DEF StationOK
  <1>7. QED
    BY <1>6 DEF g, list

\* The oldest frame is sent: its age is its delay.
LEMMA TransmitStation ==
    ASSUME NEW q, NEW x, NEW total, NEW size, NEW pending, NEW delays, NEW gen, NEW sent,
           NEW at \in Nat, q > 0,
           StationOK(q, x, total, size, pending, delays, gen, sent, at + 1)
    PROVE  StationOK(q - 1, x + 1, total, IF x + 1 > size THEN 2 * size ELSE size,
                     DeleteLast(pending), Append(delays, GetLast(pending)), gen,
                     Append(sent, at), at + 1)
  <1> DEFINE list == DeleteLast(pending)
             d == Append(delays, GetLast(pending))
             t == Append(sent, at)
             room == IF x + 1 > size THEN 2 * size ELSE size
  <1>0. /\ q \in Nat /\ x \in Nat /\ total \in Nat /\ size \in Nat
        /\ pending \in Seq(Nat) /\ gen \in Seq(Nat) /\ delays \in Seq(Nat)
        /\ sent \in Seq(Nat) /\ Len(pending) = q
        /\ Len(gen) = x + q /\ Len(delays) = x /\ Len(sent) = x
        /\ total = x + q /\ x <= size /\ size > 0
    BY DEF StationOK
  <1>1. /\ GetLast(pending) \in Nat /\ GetLast(pending) = pending[q]
        /\ list \in Seq(Nat) /\ Len(list) = q - 1
        /\ \A k \in 1..(q - 1) : list[k] = pending[k]
    BY <1>0, DeleteLastSeq
  <1>2. /\ d \in Seq(Nat) /\ Len(d) = x + 1 /\ d[x + 1] = GetLast(pending)
        /\ \A k \in 1..x : d[k] = delays[k]
    <2>1. delays \in Seq(Nat) /\ x \in Nat /\ Len(delays) = x
      BY <1>0
    <2>2. GetLast(pending) \in Nat
      BY <1>1
    <2>3. QED
      BY <2>1, <2>2, AppendNat
  <1>3. /\ t \in Seq(Nat) /\ Len(t) = x + 1 /\ t[x + 1] = at
        /\ \A k \in 1..x : t[k] = sent[k]
    <2>1. sent \in Seq(Nat) /\ x \in Nat /\ Len(sent) = x
      BY <1>0
    <2>2. QED
      BY <2>1, AppendNat
  <1>4. \A k \in 1..(x + q) : gen[k] \in Nat
    BY <1>0, ElementOfNat
  <1>5. \A k \in 1..q : pending[q + 1 - k] = (at + 1) - gen[x + k]
    BY DEF StationOK
  <1>6. \A k \in 1..x : delays[k] = sent[k] - gen[k] + 1
    BY DEF StationOK
  <1>7. room \in Nat /\ room > 0 /\ x + 1 <= room
    <2>1. x + 1 > size => x = size
      BY <1>0
    <2>2. QED
      BY <1>0, <2>1
  <1> HIDE DEF list, d, t, room
  <1>8. \A k \in 1..(x + 1) : d[k] = t[k] - gen[k] + 1
    <2> SUFFICES ASSUME NEW k \in 1..(x + 1) PROVE d[k] = t[k] - gen[k] + 1
      OBVIOUS
    <2>1. CASE k = x + 1
      <3>1. 1 \in 1..q /\ q + 1 - 1 = q /\ x + 1 \in 1..(x + q)
        BY <1>0
      <3>2. pending[q] = (at + 1) - gen[x + 1] /\ gen[x + 1] \in Nat
        BY <3>1, <1>5, <1>4
      <3>3. d[k] = pending[q] /\ t[k] = at
        BY <2>1, <1>1, <1>2, <1>3
      <3>4. QED
        BY <2>1, <3>2, <3>3
    <2>2. CASE k # x + 1
      <3>1. k \in 1..x
        BY <2>2, <1>0
      <3>2. QED
        BY <3>1, <1>2, <1>3, <1>6
    <2>3. QED
      BY <2>1, <2>2
  <1>9. \A k \in 1..(q - 1) : list[(q - 1) + 1 - k] = (at + 1) - gen[(x + 1) + k]
    <2> SUFFICES ASSUME NEW k \in 1..(q - 1)
                 PROVE  list[(q - 1) + 1 - k] = (at + 1) - gen[(x + 1) + k]
      OBVIOUS
    <2>1. /\ k + 1 \in 1..q /\ q + 1 - (k + 1) = (q - 1) + 1 - k
          /\ (q - 1) + 1 - k \in 1..(q - 1) /\ x + (k + 1) = (x + 1) + k
      BY <1>0
    <2>2. pending[q + 1 - (k + 1)] = (at + 1) - gen[x + (k + 1)]
      BY <2>1, <1>5
    <2>3. QED
      BY <2>1, <2>2, <1>1
  <1>10. /\ q - 1 \in Nat /\ x + 1 \in Nat /\ (x + 1) + (q - 1) = Len(gen)
         /\ total = (x + 1) + (q - 1)
    BY <1>0
  <1>11. StationOK(q - 1, x + 1, total, room, list, d, gen, t, at + 1)
    BY <1>0, <1>1, <1>2, <1>3, <1>7, <1>8, <1>9, <1>10 DEF StationOK
  <1>12. QED
    BY <1>11 DEF list, d, t, room

-----------------------------------------------------------------------------
(* The same for the state.                                                 *)

LEMMA Transmits ==
    ASSUME Control, Frames, pc = "access", NEW s \in Stations, frameQ[s] > 0,
           TransmitFrame(s), EndOfSlot
    PROVE  Frames'
  <1>1. /\ frameTx' = [frameTx EXCEPT ![s] = frameTx[s] + 1]
        /\ frameQ' = [frameQ EXCEPT ![s] = frameQ[s] - 1]
        /\ arraySize' = [arraySize EXCEPT ![s] = Grown(s)]
        /\ frameDelay' =
              [frameDelay EXCEPT ![s] = Append(frameDelay[s], GetLast(pendingFrames[s]))]
        /\ pendingFrames' = [pendingFrames EXCEPT ![s] = DeleteLast(pendingFrames[s])]
        /\ sentAt' = [sentAt EXCEPT ![s] = Append(sentAt[s], slot)]
        /\ frameTotal' = frameTotal /\ genAt' = genAt
        /\ frameTxAll' = frameTxAll + 1
    BY DEF TransmitFrame, EndOfSlot
  <1>2. slot \in Nat /\ Now = slot + 1 /\ Now' = slot + 1 /\ slot' = slot + 1
    BY DEF Control, Now, EndOfSlot
  <1>3. Domains'
    BY <1>1 DEF Frames, Domains
  <1>4. ASSUME NEW u \in Stations PROVE Station(u)'
    <2>1. Station(u)
      BY DEF Frames
    <2>2. CASE u = s
      <3>1. StationOK(frameQ[s], frameTx[s], frameTotal[s], arraySize[s], pendingFrames[s],
                      frameDelay[s], genAt[s], sentAt[s], slot + 1)
        BY <2>1, <2>2, <1>2 DEF Station
      <3>2. StationOK(frameQ[s] - 1, frameTx[s] + 1, frameTotal[s], Grown(s),
                      DeleteLast(pendingFrames[s]),
                      Append(frameDelay[s], GetLast(pendingFrames[s])), genAt[s],
                      Append(sentAt[s], slot), slot + 1)
        BY <3>1, <1>2, TransmitStation DEF Grown
      <3>3. /\ frameQ'[s] = frameQ[s] - 1 /\ frameTx'[s] = frameTx[s] + 1
            /\ arraySize'[s] = Grown(s)
            /\ pendingFrames'[s] = DeleteLast(pendingFrames[s])
            /\ frameDelay'[s] = Append(frameDelay[s], GetLast(pendingFrames[s]))
            /\ sentAt'[s] = Append(sentAt[s], slot)
        BY <1>1 DEF Frames, Domains
      <3>4. QED
        BY <3>2, <3>3, <2>2, <1>1, <1>2 DEF Station
    <2>3. CASE u # s
      <3>1. /\ frameQ'[u] = frameQ[u] /\ frameTx'[u] = frameTx[u]
            /\ arraySize'[u] = arraySize[u] /\ pendingFrames'[u] = pendingFrames[u]
            /\ frameDelay'[u] = frameDelay[u] /\ sentAt'[u] = sentAt[u]
        BY <2>3, <1>1 DEF Frames, Domains
      <3>2. QED
        BY <3>1, <2>1, <1>1, <1>2 DEF Station
    <2>4. QED
      BY <2>2, <2>3
  <1>5. frameTxAll' \in Nat /\ frameTxAll' <= slot'
    BY <1>1, <1>2 DEF Frames
  <1>6. QED
    BY <1>3, <1>4, <1>5 DEF Frames

\* A slot without a transmission.
LEMMA Silence ==
    ASSUME Control, Frames, pc = "access", UNCHANGED txVars, EndOfSlot
    PROVE  Frames'
  <1>1. /\ UNCHANGED <<frameTxAll, frameQ, frameTx, frameTotal, pendingFrames, frameDelay,
                       arraySize, genAt, sentAt>>
        /\ slot \in Nat /\ Now = slot + 1 /\ Now' = slot + 1 /\ slot' = slot + 1
    BY DEF txVars, Control, Now, EndOfSlot
  <1>2. Domains'
    BY <1>1 DEF Frames, Domains
  <1>3. ASSUME NEW u \in Stations PROVE Station(u)'
    BY <1>1 DEF Frames, Station
  <1>4. QED
    BY <1>1, <1>2, <1>3 DEF Frames

LEMMA Arrives == ASSUME Inv, Arrive PROVE Inv'
  <1> USE DEF Inv
  <1>1. PICK A \in SUBSET Stations :
          LET more(s) == IF s \in A THEN 1 ELSE 0 IN
          /\ frameQ'     = [s \in Stations |-> frameQ[s] + more(s)]
          /\ frameTotal' = [s \in Stations |-> frameTotal[s] + more(s)]
          /\ pendingFrames' =
                [s \in Stations |-> IncreaseDelay(
                    IF s \in A THEN AddFrame(pendingFrames[s]) ELSE pendingFrames[s])]
          /\ genAt' = [s \in Stations |->
                          IF s \in A THEN Append(genAt[s], slot) ELSE genAt[s]]
    BY DEF Arrive
  <1>2. /\ UNCHANGED <<Protocol, trial, slot, i, frameTxAll, frameTx, frameDelay,
                       arraySize, tryingToTx, intExp, sentAt>>
        /\ pc = "arrive" /\ slot < R /\ pc' = "access"
    BY DEF Arrive, backVars
  <1>3. slot \in Nat /\ Now = slot /\ Now' = slot + 1
    BY <1>2 DEF Control, Now
  <1>4. Control'
    BY <1>2 DEF Control
  <1>5. Domains'
    BY <1>1, <1>2 DEF Frames, Domains
  <1>6. ASSUME NEW s \in Stations PROVE Station(s)' /\ frameQ'[s] >= frameQ[s]
    <2>1. /\ StationOK(frameQ[s], frameTx[s], frameTotal[s], arraySize[s], pendingFrames[s],
                       frameDelay[s], genAt[s], sentAt[s], slot)
          /\ frameQ[s] \in Nat /\ frameTotal[s] \in Nat
      BY <1>3 DEF Frames, Station, StationOK
    <2>2. CASE s \in A
      <3>1. StationOK(frameQ[s] + 1, frameTx[s], frameTotal[s] + 1, arraySize[s],
                      AddFrame(pendingFrames[s]), frameDelay[s],
                      Append(genAt[s], slot), sentAt[s], slot)
        BY <2>1, <1>3, GenerateStation
      <3>2. StationOK(frameQ[s] + 1, frameTx[s], frameTotal[s] + 1, arraySize[s],
                      IncreaseDelay(AddFrame(pendingFrames[s])), frameDelay[s],
                      Append(genAt[s], slot), sentAt[s], slot + 1)
        BY <3>1, <1>3, AgeStation
      <3>3. /\ frameQ'[s] = frameQ[s] + 1 /\ frameTotal'[s] = frameTotal[s] + 1
            /\ pendingFrames'[s] = IncreaseDelay(AddFrame(pendingFrames[s]))
            /\ genAt'[s] = Append(genAt[s], slot)
        BY <2>2, <1>1
      <3>4. QED
        BY <3>2, <3>3, <2>1, <1>2, <1>3 DEF Station
    <2>3. CASE s \notin A
      <3>1. StationOK(frameQ[s], frameTx[s], frameTotal[s], arraySize[s],
                      IncreaseDelay(pendingFrames[s]), frameDelay[s], genAt[s], sentAt[s],
                      slot + 1)
        BY <2>1, <1>3, AgeStation
      <3>2. /\ frameQ'[s] = frameQ[s] /\ frameTotal'[s] = frameTotal[s]
            /\ pendingFrames'[s] = IncreaseDelay(pendingFrames[s])
            /\ genAt'[s] = genAt[s]
        BY <2>1, <2>3, <1>1
      <3>3. QED
        BY <3>1, <3>2, <2>1, <1>2, <1>3 DEF Station
    <2>4. QED
      BY <2>2, <2>3
  <1>7. Frames'
    BY <1>2, <1>5, <1>6 DEF Frames
  <1>8. ASSUME NEW s \in Stations, frameQ[s] > 0 PROVE frameQ'[s] > 0
    <2>1. Station(s) /\ Station(s)'
      BY <1>6 DEF Frames
    <2>2. frameQ[s] \in Nat /\ frameQ'[s] \in Nat
      BY <2>1 DEF Station, StationOK
    <2>3. QED
      BY <1>6, <1>8, <2>2
  <1>9. Retries'
    BY <1>2, <1>8 DEF Retries, RetriesHaveFrames
  <1>10. QED
    BY <1>4, <1>7, <1>9

LEMMA Starts ==
    ASSUME NEW protocol \in {"T", "P", "I", "B"}
    PROVE  /\ Fresh(protocol) \in Nat \cup {-1} /\ 1 \in 1..MaxExp /\ 0 \in Stations
           /\ protocol \in {"I", "B"} => Fresh(protocol) = -1
           /\ protocol = "P" => Fresh(protocol) = 0
  BY InputAssumption, SizeAssumption DEF Fresh, Stations

LEMMA InitInv == Init => Inv
  <1> SUFFICES ASSUME Init PROVE Inv
    OBVIOUS
  <1>1. Control
    BY Starts, InputAssumption DEF Init, Control
  <1>2. Domains
    BY DEF Init, Domains
  <1>3. ASSUME NEW s \in Stations PROVE Station(s)
    BY FreshStation DEF Init, Station, Now
  <1>4. Frames
    BY <1>2, <1>3 DEF Init, Frames
  <1>5. Retries
    BY Starts DEF Init, Retries, RetriesHaveFrames
  <1>6. QED
    BY <1>1, <1>4, <1>5 DEF Inv

LEMMA NextTrialInv == ASSUME Inv, NextTrial PROVE Inv'
  <1>1. Control'
    BY Starts, InputAssumption DEF Inv, NextTrial, Control
  <1>2. Domains'
    BY DEF NextTrial, Domains
  <1>3. ASSUME NEW s \in Stations PROVE Station(s)'
    BY FreshStation DEF NextTrial, Station, Now
  <1>4. Frames'
    BY <1>2, <1>3 DEF NextTrial, Frames
  <1>5. Retries'
    BY Starts DEF Inv, Control, NextTrial, Retries, RetriesHaveFrames
  <1>6. QED
    BY <1>1, <1>4, <1>5 DEF Inv

LEMMA EndOfSlotControl == ASSUME Control, pc = "access", EndOfSlot PROVE Control'
  <1>1. NextTurn(i) \in Stations
    BY InputAssumption DEF Control, NextTurn, Stations
  <1>2. slot + 1 \in 0..R
    BY InputAssumption DEF Control
  <1>3. QED
    BY <1>1, <1>2 DEF Control, EndOfSlot

LEMMA TimeDivisionInv == ASSUME Inv, TimeDivision PROVE Inv'
  <1>1. Control'
    BY EndOfSlotControl DEF Inv, TimeDivision
  <1>2. Frames'
    BY Transmits, Silence DEF Inv, TimeDivision
  <1>3. Retries'
    BY DEF Inv, TimeDivision, backVars, EndOfSlot, Retries, RetriesHaveFrames
  <1>4. QED
    BY <1>1, <1>2, <1>3 DEF Inv

\* After a transmission of station s the other stations have their frames.
LEMMA OthersKeepFrames ==
    ASSUME Frames, NEW s \in Stations, TransmitFrame(s), NEW u \in Stations, u # s
    PROVE  frameQ'[u] = frameQ[u]
  BY DEF Frames, Domains, TransmitFrame

LEMMA PersistentInv == ASSUME Inv, Persistent PROVE Inv'
  <1>1. /\ pc = "access" /\ Protocol = "P" /\ Protocol' = "P" /\ intExp' = intExp
        /\ EndOfSlot
    BY DEF Persistent, EndOfSlot
  <1>2. Control'
    BY <1>1, EndOfSlotControl DEF Inv
  <1>3. PICK Again \in SUBSET {s \in Stations : tryingToTx[s] # 0} :
          LET C == {s \in Stations : frameQ[s] > 0 /\ tryingToTx[s] = 0} \cup Again IN
          IF Single(C)
            THEN \E s \in C : /\ TransmitFrame(s)
                              /\ tryingToTx' = Cleared(tryingToTx, s)
            ELSE /\ tryingToTx' = [s \in Stations |-> IF s \in C THEN 1 ELSE tryingToTx[s]]
                 /\ UNCHANGED txVars
    BY DEF Persistent
  <1> DEFINE C == {s \in Stations : frameQ[s] > 0 /\ tryingToTx[s] = 0} \cup Again
  <1>4. ASSUME NEW s \in C PROVE s \in Stations /\ frameQ[s] > 0
    BY <1>1 DEF Inv, Retries, RetriesHaveFrames
  <1>5. CASE Single(C)
    <2>1. PICK s \in C : TransmitFrame(s) /\ tryingToTx' = [tryingToTx EXCEPT ![s] = 0]
      BY <1>3, <1>5 DEF Cleared
    <2>2. s \in Stations /\ frameQ[s] > 0
      BY <1>4
    <2>3. Frames'
      BY <1>1, <2>1, <2>2, Transmits DEF Inv
    <2>4. Retries'
      BY <1>1, <2>1, <2>2, OthersKeepFrames DEF Inv, Retries, RetriesHaveFrames
    <2>5. QED
      BY <1>2, <2>3, <2>4 DEF Inv
  <1>6. CASE ~Single(C)
    <2>1. /\ tryingToTx' = [s \in Stations |-> IF s \in C THEN 1 ELSE tryingToTx[s]]
          /\ UNCHANGED txVars
      BY <1>3, <1>6
    <2>2. Frames'
      BY <1>1, <2>1, Silence DEF Inv
    <2>3. Retries'
      <3>1. frameQ' = frameQ
        BY <2>1 DEF txVars
      <3> HIDE DEF C
      <3>2. QED
        BY <1>1, <1>4, <2>1, <3>1 DEF Inv, Retries, RetriesHaveFrames
    <2>4. QED
      BY <1>2, <2>2, <2>3 DEF Inv
  <1>7. QED
    BY <1>5, <1>6

LEMMA OffsetNat == ASSUME NEW n, NEW k \in TxSlotOffset(n) PROVE k \in Nat /\ k > 0
  BY DEF TxSlotOffset

\* The offsets go down, and no further than 0.
LEMMA DecreasedOffsets ==
    ASSUME NEW trying \in [Stations -> Nat \cup {-1}]
    PROVE  /\ Decreased(trying) \in [Stations -> Nat \cup {-1}]
           /\ \A s \in Stations : Decreased(trying)[s] >= 0 <=> trying[s] >= 0
  BY DEF Decreased

\* Under I and B, a station that sends gives up its offset.
LEMMA SuccessRetries ==
    ASSUME Inv, Protocol \in {"I", "B"}, NEW s \in Stations, TransmitFrame(s), EndOfSlot,
           tryingToTx' = Decreased([tryingToTx EXCEPT ![s] = -1]),
           intExp' = intExp \/ intExp' = [intExp EXCEPT ![s] = 1],
           Protocol = "B" => intExp'[s] = 1
    PROVE  Retries'
  <1>1. Protocol' = Protocol
    BY DEF EndOfSlot
  <1>2. [tryingToTx EXCEPT ![s] = -1] \in [Stations -> Nat \cup {-1}]
    BY DEF Inv, Retries
  <1>3. /\ tryingToTx' \in [Stations -> Nat \cup {-1}]
        /\ \A u \in Stations :
              tryingToTx'[u] >= 0 <=> [tryingToTx EXCEPT ![s] = -1][u] >= 0
    BY <1>2, DecreasedOffsets
  <1>4. ASSUME NEW u \in Stations PROVE tryingToTx'[u] >= 0 => u # s /\ tryingToTx[u] >= 0
    <2>1. [tryingToTx EXCEPT ![s] = -1][u] = IF u = s THEN -1 ELSE tryingToTx[u]
      BY DEF Inv, Retries
    <2>2. tryingToTx[u] \in Nat \cup {-1}
      BY DEF Inv, Retries
    <2>3. tryingToTx'[u] >= 0 <=> [tryingToTx EXCEPT ![s] = -1][u] >= 0
      BY <1>3
    <2>4. ~(-1 >= 0)
      OBVIOUS
    <2>5. QED
      BY <2>1, <2>2, <2>3, <2>4
  <1>5. /\ intExp' \in [Stations -> 1..MaxExp] /\ intExp'[s] = 1
        /\ \A u \in Stations : u # s => intExp'[u] = intExp[u]
    BY SizeAssumption DEF Inv, Retries
  <1>6. ASSUME NEW u \in Stations, tryingToTx'[u] >= 0 \/ intExp'[u] > 1
        PROVE  frameQ'[u] > 0
    <2>1. tryingToTx'[u] >= 0 => u # s /\ tryingToTx[u] >= 0
      BY <1>4
    <2>2. intExp'[u] > 1 => u # s /\ intExp[u] > 1
      BY <1>5
    <2>3. u # s /\ (tryingToTx[u] >= 0 \/ intExp[u] > 1)
      BY <1>6, <2>1, <2>2
    <2>4. frameQ[u] > 0
      BY <2>3 DEF Inv, Retries, RetriesHaveFrames
    <2>5. QED
      BY <2>3, <2>4, OthersKeepFrames DEF Inv
  <1>7. Protocol = "I" => \A u \in Stations : intExp'[u] = 1
    BY <1>5 DEF Inv, Retries
  <1>8. QED
    BY <1>1, <1>3, <1>5, <1>6, <1>7 DEF Retries, RetriesHaveFrames

\* And one that collides draws an offset while its frame waits.
LEMMA CollisionRetries ==
    ASSUME Inv, Protocol \in {"I", "B"}, UNCHANGED txVars, EndOfSlot,
           NEW C, C = {s \in Stations : FirstTry(s)},
           NEW offset \in [C -> Nat],
           tryingToTx' = Decreased([s \in Stations |->
                              IF s \in C THEN offset[s] ELSE tryingToTx[s]]),
           intExp' \in [Stations -> 1..MaxExp],
           \A s \in Stations : s \notin C \/ Protocol = "I" => intExp'[s] = intExp[s]
    PROVE  Retries'
  <1> DEFINE drawn == [s \in Stations |-> IF s \in C THEN offset[s] ELSE tryingToTx[s]]
  <1>1. Protocol' = Protocol /\ frameQ' = frameQ
    BY DEF EndOfSlot, txVars
  <1>2. drawn \in [Stations -> Nat \cup {-1}]
    BY DEF Inv, Retries
  <1>3. /\ tryingToTx' \in [Stations -> Nat \cup {-1}]
        /\ \A s \in Stations : tryingToTx'[s] >= 0 <=> drawn[s] >= 0
    <2> HIDE DEF drawn
    <2> QED BY <1>2, DecreasedOffsets DEF drawn
  <1>4. ASSUME NEW s \in Stations, tryingToTx'[s] >= 0 \/ intExp'[s] > 1
        PROVE  frameQ[s] > 0
    <2>1. CASE s \in C
      BY <2>1 DEF FirstTry
    <2>2. CASE s \notin C
      <3>1. tryingToTx[s] >= 0 \/ intExp[s] > 1
        BY <1>3, <1>4, <2>2
      <3>2. QED
        BY <3>1 DEF Inv, Retries, RetriesHaveFrames
    <2>3. QED
      BY <2>1, <2>2
  <1>5. Protocol = "I" => \A s \in Stations : intExp'[s] = 1
    BY DEF Inv, Retries
  <1>6. QED
    BY <1>1, <1>3, <1>4, <1>5 DEF Retries, RetriesHaveFrames

LEMMA IntervalInv == ASSUME Inv, Interval PROVE Inv'
  <1> DEFINE C == {s \in Stations : FirstTry(s)}
  <1>1. pc = "access" /\ Protocol = "I" /\ intExp' = intExp /\ EndOfSlot
    BY DEF Interval
  <1>2. Control'
    BY <1>1, EndOfSlotControl DEF Inv
  <1>3. intExp' \in [Stations -> 1..MaxExp]
    BY <1>1 DEF Inv, Retries
  <1>4. CASE Single(C)
    <2>1. PICK s \in C : /\ TransmitFrame(s)
                         /\ tryingToTx' = Decreased([tryingToTx EXCEPT ![s] = -1])
      BY <1>4 DEF Interval
    <2>2. s \in Stations /\ frameQ[s] > 0
      BY DEF FirstTry
    <2>3. Frames'
      BY <1>1, <2>1, <2>2, Transmits DEF Inv
    <2>4. Retries'
      BY <1>1, <2>1, <2>2, SuccessRetries
    <2>5. QED
      BY <1>2, <2>3, <2>4 DEF Inv
  <1>5. CASE ~Single(C)
    <2>1. /\ UNCHANGED txVars
          /\ \E offset \in [C -> TxSlotOffset(N)] :
                tryingToTx' = Decreased([s \in Stations |->
                                 IF s \in C THEN offset[s] ELSE tryingToTx[s]])
      BY <1>5 DEF Interval
    <2>2. PICK offset \in [C -> TxSlotOffset(N)] :
                tryingToTx' = Decreased([s \in Stations |->
                                 IF s \in C THEN offset[s] ELSE tryingToTx[s]])
      BY <2>1
    <2>3. offset \in [C -> Nat]
      <3> HIDE DEF C
      <3> QED BY OffsetNat
    <2>4. Retries'
      BY <1>1, <1>3, <2>1, <2>2, <2>3, CollisionRetries
    <2>5. QED
      BY <1>1, <1>2, <2>1, <2>4, Silence DEF Inv
  <1>6. QED
    BY <1>4, <1>5

LEMMA BackoffInv == ASSUME Inv, Backoff PROVE Inv'
  <1> DEFINE C == {s \in Stations : FirstTry(s)}
  <1>1. pc = "access" /\ Protocol = "B" /\ EndOfSlot
    BY DEF Backoff
  <1>2. Control'
    BY <1>1, EndOfSlotControl DEF Inv
  <1>3. CASE Single(C)
    <2>1. PICK s \in C : /\ TransmitFrame(s)
                         /\ tryingToTx' = Decreased([tryingToTx EXCEPT ![s] = -1])
                         /\ intExp' = [intExp EXCEPT ![s] = 1]
      BY <1>3 DEF Backoff
    <2>2. s \in Stations /\ frameQ[s] > 0
      BY DEF FirstTry
    <2>3. Frames'
      BY <1>1, <2>1, <2>2, Transmits DEF Inv
    <2>4. intExp'[s] = 1
      BY <2>1, <2>2 DEF Inv, Retries
    <2>5. Retries'
      BY <1>1, <2>1, <2>2, <2>4, SuccessRetries
    <2>6. QED
      BY <1>2, <2>3, <2>5 DEF Inv
  <1>4. CASE ~Single(C)
    <2>1. /\ UNCHANGED txVars
          /\ intExp' = [s \in Stations |-> IF s \in C THEN Raised(intExp[s]) ELSE intExp[s]]
          /\ \E offset \in [C -> UNION {Intervals(intExp[s]) : s \in C}] :
                /\ \A s \in C : offset[s] \in Intervals(intExp[s])
                /\ tryingToTx' = Decreased([s \in Stations |->
                                 IF s \in C THEN offset[s] ELSE tryingToTx[s]])
      BY <1>4 DEF Backoff
    <2>2. PICK offset \in [C -> UNION {Intervals(intExp[s]) : s \in C}] :
                /\ \A s \in C : offset[s] \in Intervals(intExp[s])
                /\ tryingToTx' = Decreased([s \in Stations |->
                                 IF s \in C THEN offset[s] ELSE tryingToTx[s]])
      BY <2>1
    <2>3. offset \in [C -> Nat]
      <3>1. ASSUME NEW s \in C PROVE offset[s] \in Nat
        BY <2>2, OffsetNat DEF Intervals
      <3> HIDE DEF C
      <3>2. QED
        BY <3>1
    <2>4. /\ intExp' \in [Stations -> 1..MaxExp]
          /\ \A s \in Stations : s \notin C => intExp'[s] = intExp[s]
      <3> HIDE DEF C
      <3> QED BY <2>1, SizeAssumption DEF Raised, Inv, Retries
    <2>5. Retries'
      BY <1>1, <2>1, <2>2, <2>3, <2>4, CollisionRetries
    <2>6. QED
      BY <1>1, <1>2, <2>1, <2>5, Silence DEF Inv
  <1>5. QED
    BY <1>3, <1>4

-----------------------------------------------------------------------------
(* The theorems.                                                           *)

LEMMA InvInductive == Inv /\ [Next]_vars => Inv'
  <1> SUFFICES ASSUME Inv, [Next]_vars PROVE Inv'
    OBVIOUS
  <1>1. CASE Next
    BY <1>1, Arrives, TimeDivisionInv, PersistentInv, IntervalInv, BackoffInv, NextTrialInv
       DEF Next, Access
  <1>2. CASE UNCHANGED vars
    <2>1. Control' /\ Retries'
      BY <1>2 DEF vars, txVars, backVars, Inv, Control, Retries, RetriesHaveFrames
    <2>2. Frames'
      BY <1>2 DEF vars, txVars, Inv, Frames, Domains, Station, Now
    <2>3. QED
      BY <2>1, <2>2 DEF Inv
  <1>3. QED
    BY <1>1, <1>2

LEMMA InvHolds == Spec => []Inv
  BY InitInv, InvInductive, PTL DEF Spec

\* The state has its type whatever the protocol: no counter goes below zero
\* and the station whose turn it is exists.
THEOREM Typed == Spec => []TypeOK
  <1>1. Inv => TypeOK
    <2> SUFFICES ASSUME Inv PROVE TypeOK
      OBVIOUS
    <2>1. ASSUME NEW s \in Stations
          PROVE  /\ frameQ[s] \in Nat /\ frameTx[s] \in Nat /\ frameTotal[s] \in Nat
                 /\ arraySize[s] \in Nat /\ pendingFrames[s] \in Seq(Nat)
                 /\ frameDelay[s] \in Seq(Nat) /\ genAt[s] \in Seq(Nat)
                 /\ sentAt[s] \in Seq(Nat)
      BY DEF Inv, Frames, Station, StationOK
    <2>2. QED
      BY <2>1 DEF Inv, Control, Frames, Domains, Retries, TypeOK
  <1>2. QED
    BY <1>1, InvHolds, PTL

\* Every frame generated is waiting or sent, the list is as long as frameQ says
\* (transmitFrame never reads an empty one), frameDelay has room for what is
\* written, and a slot carries at most one frame.
THEOREM FramesConserved == Spec => []Conservation
  <1>1. Inv => Conservation
    BY DEF Inv, Frames, Station, StationOK, Conservation
  <1>2. QED
    BY <1>1, InvHolds, PTL

\* Frames leave in the order they came and the delays that are averaged are the
\* slots from generation to transmission.
THEOREM DelaysExact == Spec => []OldestFirst
  <1>1. Inv => OldestFirst
    <2> SUFFICES ASSUME Inv, NEW s \in Stations
                 PROVE  /\ \A k \in 1..frameTx[s] :
                              frameDelay[s][k] = sentAt[s][k] - genAt[s][k] + 1
                        /\ \A k \in 1..frameQ[s] :
                              pendingFrames[s][frameQ[s] + 1 - k] =
                                  slot - genAt[s][frameTx[s] + k]
                                       + (IF pc = "access" THEN 1 ELSE 0)
      BY DEF OldestFirst
    <2>1. Station(s) /\ slot \in Nat
      BY DEF Inv, Frames, Control
    <2>2. SUFFICES ASSUME NEW k \in 1..frameQ[s]
                   PROVE  Now - genAt[s][frameTx[s] + k] =
                              slot - genAt[s][frameTx[s] + k]
                                   + (IF pc = "access" THEN 1 ELSE 0)
      BY <2>1 DEF Station, StationOK
    <2>3. /\ frameTx[s] \in Nat /\ frameQ[s] \in Nat /\ genAt[s] \in Seq(Nat)
          /\ Len(genAt[s]) = frameTx[s] + frameQ[s]
      BY <2>1 DEF Station, StationOK
    <2>4. frameTx[s] + k \in 1..Len(genAt[s])
      BY <2>3
    <2>5. genAt[s][frameTx[s] + k] \in Nat
      BY <2>3, <2>4, ElementOfNat
    <2>6. QED
      BY <2>1, <2>5 DEF Now
  <1>2. QED
    BY <1>1, InvHolds, PTL

\* A station that retries has a frame, so that runSim may let it transmit
\* without looking at frameQ again.
THEOREM RetriesWithFrames == Spec => []RetriesHaveFrames
  <1>1. Inv => RetriesHaveFrames
    BY DEF Inv, Retries
  <1>2. QED
    BY <1>1, InvHolds, PTL

-----------------------------------------------------------------------------
(* Turns under T.                                                          *)

\* The station index that runSim steps by hand is the slot modulo N.
LEMMA NextTurnModulo ==
    ASSUME NEW now \in Nat
    PROVE  /\ now % N \in 0..(N-1)
           /\ (now + 1) % N = NextTurn(now % N)
  <1> DEFINE q == now \div N   r == now % N
             p == (now + 1) \div N   u == (now + 1) % N
  <1>1. /\ N \in Nat \ {0} /\ q \in Nat /\ r \in 0..(N-1) /\ p \in Nat /\ u \in 0..(N-1)
        /\ now = N * q + r /\ now + 1 = N * p + u
    BY InputAssumption
  <1> HIDE DEF q, r, p, u
  <1>2. N * p - N * q = N * (p - q) /\ p - q \in Int
    BY <1>1
  <1>3. N * (p - q) = r + 1 - u
    <2>1. N * p \in Int /\ N * q \in Int
      BY <1>1
    <2>2. QED
      BY <1>1, <1>2, <2>1
  <1>4. CASE r + 1 < N
    <2>1. N * (p - q) < N /\ N * (p - q) > -N
      BY <1>1, <1>3, <1>4
    <2>2. p - q = 0
      BY <1>1, <1>2, <2>1
    <2>3. N * (p - q) = 0
      BY <1>1, <2>2
    <2>4. u = r + 1
      BY <1>1, <1>3, <2>3
    <2>5. QED
      BY <1>1, <1>4, <2>4 DEF NextTurn, r, u
  <1>5. CASE r + 1 = N
    <2>1. N * (p - q) = N - u
      BY <1>1, <1>3, <1>5
    <2>2. N * (p - q) - N = N * (p - q - 1) /\ p - q - 1 \in Int
      BY <1>1
    <2>3. N * (p - q - 1) = 0 - u
      BY <1>1, <2>1, <2>2
    <2>4. N * (p - q - 1) < N /\ N * (p - q - 1) > -N
      BY <1>1, <2>3
    <2>5. p - q - 1 = 0
      BY <1>1, <2>2, <2>4
    <2>6. N * (p - q - 1) = 0
      BY <1>1, <2>5
    <2>7. u = 0
      BY <1>1, <2>3, <2>6
    <2>8. QED
      BY <1>1, <1>5, <2>7 DEF NextTurn, r, u
  <1>6. QED
    BY <1>1, <1>4, <1>5

\* Slots until the turn of station s.
Gap(s) == IF s >= i THEN s - i ELSE s - i + N

\* The conjuncts of TurnsComeRound for station s, with the turn to come.
SentInTurn(s) == \A k \in 1..frameTx[s] : /\ sentAt[s][k] % N = s
                                          /\ sentAt[s][k] < Due(s, k) + N
NextInTurn(s) == frameQ[s] > 0 => slot + Gap(s) < Due(s, frameTx[s] + 1) + N

Turns == Protocol = "T" => /\ slot % N = i
                           /\ \A s \in Stations : SentInTurn(s) /\ NextInTurn(s)

LEMMA GapFacts ==
    ASSUME Control, NEW s \in Stations
    PROVE  /\ Gap(s) \in 0..(N-1) /\ N \in Nat \ {0} /\ i \in 0..(N-1) /\ s \in 0..(N-1)
           /\ Gap(s) = 0 <=> s = i
           /\ i' = NextTurn(i) => Gap(s)' = IF s = i THEN N - 1 ELSE Gap(s) - 1
  BY InputAssumption DEF Control, Gap, Stations, NextTurn

\* When the next frame, and every frame before it, is or was next in line.
LEMMA StationTypes ==
    ASSUME Frames, NEW s \in Stations
    PROVE  /\ frameQ[s] \in Nat /\ frameTx[s] \in Nat
           /\ genAt[s] \in Seq(Nat) /\ Len(genAt[s]) = frameTx[s] + frameQ[s]
           /\ sentAt[s] \in Seq(Nat) /\ Len(sentAt[s]) = frameTx[s]
           /\ \A k \in 1..(frameTx[s] + frameQ[s]) : genAt[s][k] \in Nat
           /\ \A k \in 1..frameTx[s] : sentAt[s][k] \in Nat
  <1>1. /\ frameQ[s] \in Nat /\ frameTx[s] \in Nat
        /\ genAt[s] \in Seq(Nat) /\ Len(genAt[s]) = frameTx[s] + frameQ[s]
        /\ sentAt[s] \in Seq(Nat) /\ Len(sentAt[s]) = frameTx[s]
    BY DEF Frames, Station, StationOK
  <1>2. QED
    BY <1>1, ElementOfNat

\* Frames come and go at the ends of the histories, so that what is due stays.
LEMMA DueStays ==
    ASSUME NEW s \in Stations, NEW k \in Nat,
           k > 1 => sentAt'[s][k-1] = sentAt[s][k-1], genAt'[s][k] = genAt[s][k]
    PROVE  Due(s, k)' = Due(s, k)
  BY DEF Due

LEMMA ArriveTurns == ASSUME Inv, Turns, Arrive PROVE Turns'
  <1>1. SUFFICES ASSUME Protocol = "T" PROVE Turns'
    BY DEF Arrive, Turns
  <1>2. PICK A \in SUBSET Stations :
          /\ frameQ' = [s \in Stations |-> frameQ[s] + (IF s \in A THEN 1 ELSE 0)]
          /\ genAt' = [s \in Stations |->
                          IF s \in A THEN Append(genAt[s], slot) ELSE genAt[s]]
    BY DEF Arrive
  <1>3. UNCHANGED <<slot, i, frameTx, sentAt, Protocol>> /\ slot \in Nat
    BY DEF Arrive, Inv, Control
  <1>4. ASSUME NEW s \in Stations PROVE (SentInTurn(s) /\ NextInTurn(s))'
    <2>1. /\ frameQ[s] \in Nat /\ frameTx[s] \in Nat
          /\ genAt[s] \in Seq(Nat) /\ Len(genAt[s]) = frameTx[s] + frameQ[s]
          /\ \A k \in 1..frameTx[s] : sentAt[s][k] \in Nat
          /\ Gap(s) \in 0..(N-1) /\ Gap(s)' = Gap(s) /\ N \in Nat \ {0}
      BY <1>3, StationTypes, GapFacts DEF Inv, Gap
    <2>2. \A k \in 1..(frameTx[s] + frameQ[s]) : genAt'[s][k] = genAt[s][k]
      <3>1. \A k \in 1..(frameTx[s] + frameQ[s]) : Append(genAt[s], slot)[k] = genAt[s][k]
        BY <1>3, <2>1
      <3>2. QED
        BY <1>2, <3>1
    <2>3. \A k \in 1..(frameTx[s] + frameQ[s]) : k \in Nat /\ Due(s, k)' = Due(s, k)
      BY <1>3, <2>1, <2>2, DueStays
    <2>4. SentInTurn(s)'
      <3>1. \A k \in 1..frameTx[s] : k \in 1..(frameTx[s] + frameQ[s])
        BY <2>1
      <3>2. QED
        BY <1>1, <1>3, <2>3, <3>1 DEF Turns, SentInTurn
    <2>5. CASE frameQ[s] > 0
      <3>1. PICK k \in 1..(frameTx[s] + frameQ[s]) : k = frameTx[s] + 1
        BY <2>1, <2>5
      <3>2. Due(s, k)' = Due(s, k)
        BY <2>3
      <3>3. slot + Gap(s) < Due(s, k) + N
        BY <1>1, <2>5, <3>1 DEF Turns, NextInTurn
      <3>4. k = frameTx'[s] + 1 /\ slot' = slot
        BY <1>3, <3>1
      <3>5. QED
        BY <2>1, <2>4, <3>2, <3>3, <3>4 DEF NextInTurn
    <2>6. CASE frameQ[s] = 0 /\ s \in A
      <3>1. genAt'[s][frameTx[s] + 1] = slot
        BY <1>2, <1>3, <2>1, <2>6
      <3>2. PICK k : k = frameTx[s] + 1
        OBVIOUS
      <3>3. Due(s, k)' = IF k > 1 /\ sentAt[s][k-1] >= slot THEN sentAt[s][k-1] + 1 ELSE slot
        BY <1>3, <3>1, <3>2 DEF Due
      <3>4. k > 1 => k - 1 \in 1..frameTx[s]
        BY <2>1, <3>2
      <3>5. slot + Gap(s) < Due(s, k)' + N
        BY <1>3, <2>1, <3>3, <3>4
      <3>6. QED
        BY <1>3, <2>1, <2>4, <3>2, <3>5 DEF NextInTurn
    <2>7. CASE frameQ[s] = 0 /\ s \notin A
      BY <1>2, <2>4, <2>7 DEF NextInTurn
    <2>8. QED
      BY <2>1, <2>5, <2>6, <2>7
  <1>5. QED
    BY <1>1, <1>3, <1>4 DEF Turns

\* The turn of a station that has a frame: the frame goes out, in time, and the
\* next one is due in the slots up to the next turn.
LEMMA TransmitTurns ==
    ASSUME Inv, Turns, Protocol = "T", pc = "access", NEW s \in Stations, s = i,
           frameQ[s] > 0, TransmitFrame(s), EndOfSlot
    PROVE  (SentInTurn(s) /\ NextInTurn(s))'
  <1>0. PICK x : x = frameTx[s]
    OBVIOUS
  <1>1. /\ frameQ[s] \in Nat /\ x \in Nat
        /\ genAt[s] \in Seq(Nat) /\ Len(genAt[s]) = x + frameQ[s]
        /\ sentAt[s] \in Seq(Nat) /\ Len(sentAt[s]) = x
        /\ \A k \in 1..(x + frameQ[s]) : genAt[s][k] \in Nat
        /\ slot \in Nat
    BY <1>0, StationTypes DEF Inv, Control
  <1>2. /\ frameTx'[s] = x + 1 /\ frameQ'[s] = frameQ[s] - 1
        /\ sentAt'[s] = Append(sentAt[s], slot)
        /\ genAt' = genAt /\ slot' = slot + 1 /\ i' = NextTurn(i)
    BY <1>0 DEF TransmitFrame, EndOfSlot, Inv, Frames, Domains
  <1>3. sentAt'[s][x + 1] = slot /\ \A k \in 1..x : sentAt'[s][k] = sentAt[s][k]
    BY <1>1, <1>2
  <1>4. /\ N \in Nat \ {0} /\ Gap(s) = 0 /\ slot % N = s
    BY GapFacts DEF Inv, Turns
  <1>5. slot < Due(s, x + 1) + N
    <2>1. slot + Gap(s) < Due(s, x + 1) + N
      BY <1>0 DEF Turns, NextInTurn
    <2>2. QED
      BY <1>1, <1>4, <2>1
  <1>6. ASSUME NEW k \in 1..(x + 1) PROVE Due(s, k)' = Due(s, k)
    <2>1. k \in Nat /\ (k > 1 => k - 1 \in 1..x)
      BY <1>1
    <2>2. QED
      BY <1>2, <1>3, <2>1, DueStays
  <1>7. ASSUME NEW k \in 1..(x + 1)
        PROVE  sentAt'[s][k] % N = s /\ sentAt'[s][k] < Due(s, k)' + N
    <2>1. CASE k = x + 1
      BY <1>3, <1>4, <1>5, <1>6, <2>1
    <2>2. CASE k # x + 1
      <3>1. k \in 1..x
        BY <1>1, <2>2
      <3>2. QED
        BY <1>0, <1>3, <1>6, <3>1 DEF Turns, SentInTurn
    <2>3. QED
      BY <2>1, <2>2
  <1>8. ASSUME frameQ'[s] > 0 PROVE slot + 1 + (N - 1) < Due(s, x + 2)' + N
    <2>1. x + 2 \in 1..(x + frameQ[s]) /\ (x + 2) - 1 = x + 1 /\ x + 2 > 1
      BY <1>1, <1>2, <1>8
    <2>2. Due(s, x + 2)' = IF slot >= genAt[s][x + 2] THEN slot + 1 ELSE genAt[s][x + 2]
      BY <1>2, <1>3, <2>1 DEF Due
    <2>3. genAt[s][x + 2] \in Nat
      BY <1>1, <2>1
    <2>4. QED
      BY <1>1, <1>4, <2>2, <2>3
  <1>9. Gap(s)' = N - 1
    BY <1>2, GapFacts DEF Inv
  <1>10. (x + 1) + 1 = x + 2
    BY <1>1
  <1>11. SentInTurn(s)'
    BY <1>2, <1>7 DEF SentInTurn
  <1>12. NextInTurn(s)'
    BY <1>2, <1>8, <1>9, <1>10 DEF NextInTurn
  <1>13. QED
    BY <1>11, <1>12

\* A slot in which a station does not send brings its turn nearer.
LEMMA WaitTurns ==
    ASSUME Inv, Turns, Protocol = "T", pc = "access", NEW s \in Stations,
           s # i \/ frameQ[s] = 0,
           UNCHANGED <<frameQ[s], frameTx[s], sentAt[s], genAt>>, EndOfSlot
    PROVE  (SentInTurn(s) /\ NextInTurn(s))'
  <1>1. \A k : Due(s, k)' = Due(s, k)
    BY DEF Due
  <1>2. /\ frameQ[s] \in Nat /\ slot \in Nat /\ slot' = slot + 1 /\ i' = NextTurn(i)
        /\ N \in Nat \ {0} /\ Gap(s) \in 0..(N-1)
        /\ s # i => Gap(s)' = Gap(s) - 1
    BY StationTypes, GapFacts DEF Inv, Control, EndOfSlot
  <1>3. SentInTurn(s)'
    BY <1>1 DEF Turns, SentInTurn
  <1>4. NextInTurn(s)'
    <2>1. CASE frameQ[s] = 0
      BY <2>1 DEF NextInTurn
    <2>2. CASE s # i
      <3>1. PICK g \in 0..(N-1) : g = Gap(s)
        BY <1>2
      <3>2. Gap(s)' = g - 1 /\ slot' = slot + 1 /\ (slot + 1) + (g - 1) = slot + g
        BY <1>2, <2>2, <3>1
      <3>3. frameQ[s] > 0 => slot + g < Due(s, frameTx[s] + 1) + N
        BY <3>1 DEF Turns, NextInTurn
      <3>4. QED
        BY <1>1, <3>2, <3>3 DEF NextInTurn
    <2>3. QED
      BY <2>1, <2>2
  <1>5. QED
    BY <1>3, <1>4

LEMMA TimeDivisionTurns == ASSUME Inv, Turns, TimeDivision PROVE Turns'
  <1>1. /\ Protocol = "T" /\ pc = "access" /\ EndOfSlot /\ i \in Stations /\ slot \in Nat
        /\ slot' = slot + 1 /\ i' = NextTurn(i) /\ genAt' = genAt
    BY DEF TimeDivision, EndOfSlot, Inv, Control
  <1>2. slot' % N = i'
    BY <1>1, NextTurnModulo DEF Turns
  <1>3. ASSUME NEW s \in Stations PROVE (SentInTurn(s) /\ NextInTurn(s))'
    <2>1. CASE s = i /\ frameQ[i] > 0
      BY <1>1, <2>1, TransmitTurns DEF TimeDivision
    <2>2. CASE s # i /\ frameQ[i] > 0
      <3>1. TransmitFrame(i)
        BY <2>2, <1>1 DEF TimeDivision
      <3>2. UNCHANGED <<frameQ[s], frameTx[s], sentAt[s]>>
        BY <1>1, <2>2, <3>1 DEF TransmitFrame, Inv, Frames, Domains
      <3>3. QED
        BY <1>1, <2>2, <3>2, WaitTurns
    <2>3. CASE ~(frameQ[i] > 0)
      <3>1. UNCHANGED <<frameQ[s], frameTx[s], sentAt[s]>>
        BY <2>3 DEF TimeDivision, txVars
      <3>2. s = i => frameQ[s] = 0
        BY <2>3, StationTypes DEF Inv
      <3>3. QED
        BY <1>1, <3>1, <3>2, WaitTurns
    <2>4. QED
      BY <2>1, <2>2, <2>3
  <1>4. QED
    BY <1>2, <1>3 DEF Turns

LEMMA FreshTurns ==
    ASSUME Inv', slot' = 0, i' = 0, frameQ' = [s \in Stations |-> 0],
           frameTx' = [s \in Stations |-> 0]
    PROVE  Turns'
  <1>1. 0 % N = 0
    BY InputAssumption
  <1>2. ASSUME NEW s \in Stations PROVE (SentInTurn(s) /\ NextInTurn(s))'
    BY DEF SentInTurn, NextInTurn
  <1>3. QED
    BY <1>1, <1>2 DEF Turns

LEMMA TurnsHold == Spec => []Turns
  <1>1. Init => Turns
    <2>1. 0 % N = 0
      BY InputAssumption
    <2>2. ASSUME Init, NEW s \in Stations PROVE SentInTurn(s) /\ NextInTurn(s)
      BY <2>2 DEF Init, SentInTurn, NextInTurn
    <2>3. QED
      BY <2>1, <2>2 DEF Init, Turns
  <1>2. Inv /\ Inv' /\ Turns /\ [Next]_vars => Turns'
    <2> SUFFICES ASSUME Inv, Inv', Turns, [Next]_vars PROVE Turns'
      OBVIOUS
    <2>1. CASE Arrive
      BY <2>1, ArriveTurns
    <2>2. CASE TimeDivision
      BY <2>2, TimeDivisionTurns
    <2>3. CASE Persistent \/ Interval \/ Backoff
      BY <2>3 DEF Persistent, Interval, Backoff, EndOfSlot, Turns
    <2>4. CASE NextTrial
      BY <2>4, FreshTurns DEF NextTrial
    <2>5. CASE UNCHANGED vars
      BY <2>5 DEF vars, txVars, Turns, SentInTurn, NextInTurn, Gap, Due
    <2>6. QED
      BY <2>1, <2>2, <2>3, <2>4, <2>5 DEF Next, Access
  <1>3. QED
    BY <1>1, <1>2, InvHolds, PTL DEF Spec

\* Under T every frame that is next in line is sent within N slots, in a slot
\* whose number is its station's modulo N.
THEOREM TurnsCorrect == Spec => []TurnsComeRound
  <1>1. Inv /\ Turns => TurnsComeRound
    <2> SUFFICES ASSUME Inv, Turns, Protocol = "T", NEW s \in Stations
                 PROVE  /\ SentInTurn(s)
                        /\ frameQ[s] > 0 => slot < Due(s, frameTx[s] + 1) + N
      BY DEF TurnsComeRound, SentInTurn
    <2>1. SentInTurn(s) /\ NextInTurn(s)
      BY DEF Turns
    <2>2. ASSUME frameQ[s] > 0 PROVE slot < Due(s, frameTx[s] + 1) + N
      <3>1. /\ slot + Gap(s) < Due(s, frameTx[s] + 1) + N
            /\ Gap(s) \in Nat /\ slot \in Nat /\ N \in Nat
        BY <2>1, <2>2, GapFacts DEF NextInTurn, Inv, Control
      <3>2. PICK d : d = Due(s, frameTx[s] + 1)
        OBVIOUS
      <3>3. d \in Nat
        <4>0. frameTx[s] \in Nat /\ frameQ[s] \in Nat
          BY StationTypes DEF Inv
        <4>1. PICK k \in 1..(frameTx[s] + frameQ[s]) :
                 k = frameTx[s] + 1 /\ (k > 1 => k - 1 \in 1..frameTx[s])
          BY <2>2, <4>0
        <4>2. genAt[s][k] \in Nat /\ (k > 1 => sentAt[s][k-1] \in Nat)
          BY <4>1, StationTypes DEF Inv
        <4>3. QED
          BY <3>2, <4>1, <4>2 DEF Due
      <3>4. QED
        BY <3>1, <3>2, <3>3
    <2>3. QED
      BY <2>1, <2>2
  <1>2. QED
    BY <1>1, InvHolds, TurnsHold, PTL

-----------------------------------------------------------------------------
(* The wait after a collision.                                             *)

\* intExp goes up to 10 in runSim.  The provers compute powers of literals and
\* know no law of exponentiation, hence the bound.
PowerFact(e) == 2^e \in Nat /\ 2^e <= 2^(e + 1)

LEMMA Powers ==
    ASSUME MaxExp <= 10, NEW e \in 0..MaxExp
    PROVE  PowerFact(e)
  <1>1. /\ PowerFact(0) /\ PowerFact(1) /\ PowerFact(2) /\ PowerFact(3) /\ PowerFact(4)
        /\ PowerFact(5) /\ PowerFact(6) /\ PowerFact(7) /\ PowerFact(8) /\ PowerFact(9)
        /\ PowerFact(10)
    BY DEF PowerFact
  <1>2. e \in {0, 1, 2, 3, 4, 5, 6, 7, 8, 9, 10}
    BY SizeAssumption
  <1>3. QED
    BY <1>1, <1>2

\* What is left of a wait t when intExp is e.
WaitBound(e) == 2^(IF e < MaxExp THEN e - 1 ELSE MaxExp)
WaitOK(e, t) == t <= WaitBound(e) /\ (e = 1 /\ MaxExp > 1 => t = -1)

Waits ==
    /\ Protocol = "I" => \A s \in Stations : tryingToTx[s] <= N
    /\ Protocol = "B" => \A s \in Stations : WaitOK(intExp[s], tryingToTx[s])

\* The interval drawn from before the raise bounds the wait after it.
LEMMA RaisedWait ==
    ASSUME MaxExp <= 10, NEW e \in 1..MaxExp, NEW k \in Intervals(e)
    PROVE  k \in Nat /\ WaitOK(Raised(e), k - 1)
  <1>1. 2^e \in Nat
    BY Powers DEF PowerFact
  <1>2. PICK w \in Nat : w = 2^e
    BY <1>1
  <1>3. k \in 1..(w + 1)
    BY <1>2 DEF Intervals, TxSlotOffset
  <1>4. k \in Nat /\ k - 1 <= w /\ Raised(e) \in 1..MaxExp
    BY <1>2, <1>3, SizeAssumption DEF Raised
  <1>5. CASE e + 1 < MaxExp
    <2>1. Raised(e) = e + 1 /\ (e + 1) - 1 = e /\ e + 1 # 1
      BY <1>5, SizeAssumption DEF Raised
    <2>2. QED
      BY <1>2, <1>4, <1>5, <2>1 DEF WaitOK, WaitBound
  <1>6. CASE e + 1 = MaxExp
    <2>1. Raised(e) = MaxExp /\ MaxExp # 1
      BY <1>6, SizeAssumption DEF Raised
    <2>2. w <= 2^MaxExp /\ 2^MaxExp \in Nat
      BY <1>2, <1>6, Powers, SizeAssumption DEF PowerFact
    <2>3. k - 1 <= 2^MaxExp
      BY <1>2, <1>4, <2>2
    <2>4. QED
      BY <1>4, <2>1, <2>3 DEF WaitOK, WaitBound
  <1>7. CASE e = MaxExp
    <2>1. Raised(e) = MaxExp
      BY <1>7 DEF Raised
    <2>2. QED
      BY <1>2, <1>4, <1>7, <2>1 DEF WaitOK, WaitBound
  <1>8. QED
    BY <1>5, <1>6, <1>7, SizeAssumption

LEMMA BoundNat ==
    ASSUME MaxExp <= 10, NEW e \in 1..MaxExp
    PROVE  WaitBound(e) \in Nat
  <1>1. (IF e < MaxExp THEN e - 1 ELSE MaxExp) \in 0..MaxExp
    BY SizeAssumption
  <1>2. QED
    BY <1>1, Powers DEF WaitBound, PowerFact

\* A wait goes down and keeps its bound.
LEMMA DecreasedWait ==
    ASSUME MaxExp <= 10, NEW trying \in [Stations -> Nat \cup {-1}], NEW s \in Stations
    PROVE  /\ Decreased(trying)[s] <= trying[s]
           /\ trying[s] > 0 => Decreased(trying)[s] = trying[s] - 1
           /\ \A e \in 1..MaxExp : WaitOK(e, trying[s]) => WaitOK(e, Decreased(trying)[s])
  <1>1. PICK t \in Nat \cup {-1} : t = trying[s]
    OBVIOUS
  <1>2. PICK d : d = Decreased(trying)[s]
    OBVIOUS
  <1>3. d = IF t > 0 THEN t - 1 ELSE t
    BY <1>1, <1>2 DEF Decreased
  <1>4. ASSUME NEW e \in 1..MaxExp, WaitOK(e, t) PROVE WaitOK(e, d)
    <2>1. PICK b \in Nat : b = WaitBound(e)
      BY BoundNat
    <2>2. d <= b /\ (t = -1 => d = -1)
      BY <1>3, <1>4, <2>1 DEF WaitOK
    <2>3. QED
      BY <1>4, <2>1, <2>2 DEF WaitOK
  <1>5. QED
    BY <1>1, <1>2, <1>3, <1>4

LEMMA FreshWait ==
    ASSUME MaxExp <= 10 PROVE WaitOK(1, -1) /\ -1 <= N
  <1>1. 1 \in 1..MaxExp
    BY SizeAssumption
  <1>2. WaitBound(1) \in Nat
    BY <1>1, BoundNat
  <1>3. QED
    BY <1>2, InputAssumption DEF WaitOK

LEMMA SentWaits ==
    ASSUME MaxExp <= 10, Inv, Waits, NEW s \in Stations, Protocol' = Protocol,
           Protocol \in {"I", "B"},
           tryingToTx' = Decreased([tryingToTx EXCEPT ![s] = -1]),
           intExp' = IF Protocol = "B" THEN [intExp EXCEPT ![s] = 1] ELSE intExp
    PROVE  Waits'
  <1>. DEFINE trying == [tryingToTx EXCEPT ![s] = -1]
  <1>1. /\ tryingToTx \in [Stations -> Nat \cup {-1}] /\ intExp \in [Stations -> 1..MaxExp]
        /\ N \in Nat
    BY InputAssumption DEF Inv, Retries
  <1>2. /\ trying \in [Stations -> Nat \cup {-1}]
        /\ \A u \in Stations : trying[u] = IF u = s THEN -1 ELSE tryingToTx[u]
    BY <1>1
  <1>. HIDE DEF trying
  <1>3. ASSUME NEW u \in Stations
        PROVE  /\ tryingToTx'[u] <= trying[u] /\ tryingToTx'[u] \in Nat \cup {-1}
               /\ \A e \in 1..MaxExp : WaitOK(e, trying[u]) => WaitOK(e, tryingToTx'[u])
    <2>1. tryingToTx' = Decreased(trying) /\ Decreased(trying) \in [Stations -> Nat \cup {-1}]
      BY <1>2, DecreasedOffsets DEF trying
    <2>2. QED
      BY <1>2, <2>1, DecreasedWait
  <1>4. ASSUME Protocol = "I", NEW u \in Stations PROVE tryingToTx'[u] <= N
    <2>1. trying[u] <= N /\ trying[u] \in Nat \cup {-1}
      BY <1>1, <1>2, <1>4, FreshWait DEF Waits
    <2>2. PICK a \in Nat \cup {-1}, b \in Nat \cup {-1} : a = trying[u] /\ b = tryingToTx'[u]
      BY <1>3, <2>1
    <2>3. b <= a /\ a <= N
      BY <1>3, <2>1, <2>2
    <2>4. QED
      BY <1>1, <2>2, <2>3
  <1>5. ASSUME Protocol = "B", NEW u \in Stations PROVE WaitOK(intExp'[u], tryingToTx'[u])
    <2>1. intExp'[u] = (IF u = s THEN 1 ELSE intExp[u]) /\ intExp'[u] \in 1..MaxExp
      BY <1>1, <1>5, SizeAssumption
    <2>2. WaitOK(intExp'[u], trying[u])
      BY <1>2, <1>5, <2>1, FreshWait DEF Waits
    <2>3. QED
      BY <1>3, <2>1, <2>2
  <1>6. QED
    BY <1>4, <1>5 DEF Waits

LEMMA CollidedWaits ==
    ASSUME MaxExp <= 10, Inv, Waits, NEW C, C = {s \in Stations : FirstTry(s)},
           Protocol' = Protocol, Protocol \in {"I", "B"},
           NEW offset \in [C -> Nat],
           \A s \in C : IF Protocol = "B" THEN offset[s] \in Intervals(intExp[s])
                                          ELSE offset[s] \in TxSlotOffset(N),
           tryingToTx' = Decreased([s \in Stations |->
                              IF s \in C THEN offset[s] ELSE tryingToTx[s]]),
           intExp' = IF Protocol = "B"
                       THEN [s \in Stations |->
                                IF s \in C THEN Raised(intExp[s]) ELSE intExp[s]]
                       ELSE intExp
    PROVE  Waits'
  <1>. DEFINE drawn == [s \in Stations |-> IF s \in C THEN offset[s] ELSE tryingToTx[s]]
  <1>1. /\ tryingToTx \in [Stations -> Nat \cup {-1}] /\ intExp \in [Stations -> 1..MaxExp]
        /\ N \in Nat
    BY InputAssumption DEF Inv, Retries
  <1>2. /\ drawn \in [Stations -> Nat \cup {-1}]
        /\ \A u \in Stations : drawn[u] = IF u \in C THEN offset[u] ELSE tryingToTx[u]
    BY <1>1
  <1>. HIDE DEF drawn
  <1>3. tryingToTx' = Decreased(drawn) /\ tryingToTx' \in [Stations -> Nat \cup {-1}]
    BY <1>2, DecreasedOffsets DEF drawn
  <1>4. ASSUME NEW u \in C PROVE offset[u] > 0 /\ tryingToTx'[u] = offset[u] - 1
    <2>1. u \in Stations /\ drawn[u] = offset[u]
      BY <1>2
    <2>2. offset[u] > 0
      BY OffsetNat DEF Intervals
    <2>3. QED
      BY <1>2, <1>3, <2>1, <2>2, DecreasedWait
  <1>5. ASSUME NEW u \in Stations, u \notin C
        PROVE  /\ tryingToTx'[u] <= tryingToTx[u]
               /\ \A e \in 1..MaxExp : WaitOK(e, tryingToTx[u]) => WaitOK(e, tryingToTx'[u])
    BY <1>2, <1>3, <1>5, DecreasedWait
  <1>6. ASSUME Protocol = "I", NEW u \in Stations PROVE tryingToTx'[u] <= N
    <2>1. CASE u \in C
      <3>1. offset[u] \in 1..(N + 1)
        BY <1>6, <2>1 DEF TxSlotOffset
      <3>2. QED
        BY <1>1, <1>4, <2>1, <3>1
    <2>2. CASE u \notin C
      <3>1. tryingToTx'[u] <= tryingToTx[u] /\ tryingToTx[u] <= N
        BY <1>5, <1>6, <2>2 DEF Waits
      <3>2. PICK a \in Nat \cup {-1}, b \in Nat \cup {-1} :
               a = tryingToTx[u] /\ b = tryingToTx'[u]
        BY <1>1, <1>3
      <3>3. QED
        BY <1>1, <3>1, <3>2
    <2>3. QED
      BY <2>1, <2>2
  <1>7. ASSUME Protocol = "B", NEW u \in Stations PROVE WaitOK(intExp'[u], tryingToTx'[u])
    <2>1. CASE u \in C
      <3>1. intExp'[u] = Raised(intExp[u]) /\ offset[u] \in Intervals(intExp[u])
        BY <1>7, <2>1
      <3>2. WaitOK(Raised(intExp[u]), offset[u] - 1)
        BY <1>1, <3>1, RaisedWait
      <3>3. QED
        BY <1>4, <2>1, <3>1, <3>2
    <2>2. CASE u \notin C
      <3>1. intExp'[u] = intExp[u] /\ intExp[u] \in 1..MaxExp
        BY <1>1, <1>7, <2>2
      <3>2. QED
        BY <1>5, <1>7, <2>2, <3>1 DEF Waits
    <2>3. QED
      BY <2>1, <2>2
  <1>8. QED
    BY <1>6, <1>7 DEF Waits

LEMMA WaitsHold == ASSUME MaxExp <= 10 PROVE Spec => []Waits
  <1>1. Init => Waits
    BY FreshWait DEF Init, Waits, Fresh
  <1>2. Inv /\ Waits /\ [Next]_vars => Waits'
    <2> SUFFICES ASSUME Inv, Waits, [Next]_vars PROVE Waits'
      OBVIOUS
    <2> DEFINE C == {s \in Stations : FirstTry(s)}
    <2>1. CASE Arrive \/ TimeDivision \/ Persistent
      BY <2>1 DEF Arrive, TimeDivision, Persistent, EndOfSlot, backVars, Waits
    <2>2. CASE NextTrial
      BY <2>2, FreshWait DEF NextTrial, Waits, Fresh
    <2>3. CASE Interval
      <3>1. Protocol = "I" /\ Protocol' = "I" /\ intExp' = intExp
        BY <2>3 DEF Interval, EndOfSlot
      <3>2. CASE Single(C)
        <4>1. PICK s \in C : tryingToTx' = Decreased([tryingToTx EXCEPT ![s] = -1])
          BY <2>3, <3>2 DEF Interval
        <4>2. QED
          BY <3>1, <4>1, SentWaits
      <3>3. CASE ~Single(C)
        <4>1. PICK offset \in [C -> TxSlotOffset(N)] :
                 tryingToTx' = Decreased([s \in Stations |->
                                  IF s \in C THEN offset[s] ELSE tryingToTx[s]])
          BY <2>3, <3>3 DEF Interval
        <4>2. PICK D : D = C
          OBVIOUS
        <4>3. offset \in [D -> Nat] /\ \A s \in D : offset[s] \in TxSlotOffset(N)
          <5> HIDE DEF C
          <5> QED BY <4>2, OffsetNat
        <4>4. QED
          BY <3>1, <4>1, <4>2, <4>3, CollidedWaits
      <3>4. QED
        BY <3>2, <3>3
    <2>4. CASE Backoff
      <3>1. Protocol = "B" /\ Protocol' = "B"
        BY <2>4 DEF Backoff, EndOfSlot
      <3>2. CASE Single(C)
        <4>1. PICK s \in C : /\ tryingToTx' = Decreased([tryingToTx EXCEPT ![s] = -1])
                             /\ intExp' = [intExp EXCEPT ![s] = 1]
          BY <2>4, <3>2 DEF Backoff
        <4>2. QED
          BY <3>1, <4>1, SentWaits
      <3>3. CASE ~Single(C)
        <4>1. PICK offset \in [C -> UNION {Intervals(intExp[s]) : s \in C}] :
                 /\ \A s \in C : offset[s] \in Intervals(intExp[s])
                 /\ tryingToTx' = Decreased([s \in Stations |->
                                  IF s \in C THEN offset[s] ELSE tryingToTx[s]])
          BY <2>4, <3>3 DEF Backoff
        <4>2. intExp' = [s \in Stations |-> IF s \in C THEN Raised(intExp[s]) ELSE intExp[s]]
          BY <2>4, <3>3 DEF Backoff
        <4>3. PICK D : D = C
          OBVIOUS
        <4>4. offset \in [D -> Nat] /\ \A s \in D : offset[s] \in Intervals(intExp[s])
          <5>1. ASSUME NEW s \in C PROVE offset[s] \in Nat
            BY <4>1, OffsetNat DEF Intervals
          <5> HIDE DEF C
          <5> QED BY <4>1, <4>3, <5>1
        <4>5. QED
          BY <3>1, <4>1, <4>2, <4>3, <4>4, CollidedWaits
      <3>4. QED
        BY <3>2, <3>3
    <2>5. CASE UNCHANGED vars
      BY <2>5 DEF vars, backVars, Waits
    <2>6. QED
      BY <2>1, <2>2, <2>3, <2>4, <2>5 DEF Next, Access
  <1>3. QED
    BY <1>1, <1>2, InvHolds, PTL DEF Spec

\* The wait that is left after a collision never exceeds the interval it was
\* drawn from, although txSlotOffset may return one slot more: the slot of the
\* draw counts.  10 is the largest intExp of runSim.
THEOREM BackoffCorrect == ASSUME MaxExp <= 10 PROVE Spec => []BackoffBounded
  <1>1. Inv /\ Waits => BackoffBounded
    BY DEF Inv, Retries, Waits, WaitOK, WaitBound, BackoffBounded
  <1>2. QED
    BY <1>1, InvHolds, WaitsHold, PTL

===============================================================================
