--------------------------------- MODULE Psim ---------------------------------
(***************************************************************************)
(* The medium access simulator psim.c with its frame list frame.c: N       *)
(* stations share a slotted channel for R slots per trial, under one of    *)
(* four protocols: T (time division), P (retry with probability 1/N),      *)
(* I (retry after an interval of at most N slots) and B (the interval      *)
(* doubles with every collision).                                          *)
(*                                                                         *)
(* A slot is two steps: frames arrive and every waiting one ages, then the *)
(* protocol decides who sends.  What rand() returns is any value it can    *)
(* return, RAND_MAX included; the probability p is left out.  The floating *)
(* point statistics are not modelled, the integers they are made of are.   *)
(***************************************************************************)
EXTENDS Integers, Sequences, FiniteSets

CONSTANTS
    N,          \* number of stations
    R,          \* slots per trial
    T,          \* trials
    ArraySize,  \* initial length of frameDelay, 100 in initStations
    MaxExp      \* largest intExp, 10 in runSim

ASSUME InputAssumption ==
    N \in Nat \ {0} /\ R \in Nat /\ T \in Nat \ {0}
ASSUME SizeAssumption == ArraySize \in Nat \ {0} /\ MaxExp \in Nat \ {0}

VARIABLES
    Protocol, trial,
    pc,             \* "arrive" or "access": half of the loop body that is next
    slot,
    i,              \* the station whose turn it is under T
    frameTxAll,     \* the global frameTx
    frameQ, frameTx, frameTotal,
    pendingFrames,  \* delays of the waiting frames, the newest first
    frameDelay,     \* delays of the frames sent
    arraySize, tryingToTx, intExp,
    genAt, sentAt   \* history: slots in which frames were generated and sent

txVars   == <<frameTxAll, frameQ, frameTx, pendingFrames, frameDelay, arraySize, sentAt>>
backVars == <<tryingToTx, intExp>>
vars == <<Protocol, trial, pc, slot, i, txVars, backVars, frameTotal, genAt>>

Stations == 0..(N-1)

-----------------------------------------------------------------------------
(* Slips this code could contain.  No action uses them: put in the place of *)
(* the definition named behind each, they show that a property notices.    *)

NewestDelay(list) == list[1]                                   \* GetLast
NeverWraps(t) == t + 1                                         \* NextTurn
DecreasesAll(trying) == [s \in Stations |-> trying[s] - 1]      \* Decreased
StillTrying(trying, s) == trying                               \* Cleared
NoGrowth(s) == arraySize[s]                                    \* Grown
AfterRaise(e) == 1..(2 * 2^e + 1)                              \* Intervals

-----------------------------------------------------------------------------
(* frame.c                                                                 *)

AddFrame(list) == <<0>> \o list
IncreaseDelay(list) == [k \in DOMAIN list |-> list[k] + 1]
GetLast(list) == list[Len(list)]
DeleteLast(list) == SubSeq(list, 1, Len(list) - 1)

-----------------------------------------------------------------------------
(* initStations, and the counters main and runSim reset for a trial.       *)

Fresh(protocol) == IF protocol \in {"I", "B"} THEN -1 ELSE 0

Init ==
    /\ Protocol \in {"T", "P", "I", "B"}
    /\ trial = 1
    /\ pc = "arrive" /\ slot = 0 /\ i = 0 /\ frameTxAll = 0
    /\ frameQ        = [s \in Stations |-> 0]
    /\ frameTx       = [s \in Stations |-> 0]
    /\ frameTotal    = [s \in Stations |-> 0]
    /\ pendingFrames = [s \in Stations |-> <<>>]
    /\ frameDelay    = [s \in Stations |-> <<>>]
    /\ arraySize     = [s \in Stations |-> ArraySize]
    /\ tryingToTx    = [s \in Stations |-> Fresh(Protocol)]
    /\ intExp        = [s \in Stations |-> 1]
    /\ genAt         = [s \in Stations |-> <<>>]
    /\ sentAt        = [s \in Stations |-> <<>>]

NextTrial ==
    /\ pc = "arrive" /\ slot = R /\ trial < T
    /\ trial' = trial + 1
    /\ slot' = 0 /\ i' = 0 /\ frameTxAll' = 0
    /\ frameQ'        = [s \in Stations |-> 0]
    /\ frameTx'       = [s \in Stations |-> 0]
    /\ frameTotal'    = [s \in Stations |-> 0]
    /\ pendingFrames' = [s \in Stations |-> <<>>]
    /\ frameDelay'    = [s \in Stations |-> <<>>]
    /\ arraySize'     = [s \in Stations |-> ArraySize]
    /\ tryingToTx'    = [s \in Stations |-> Fresh(Protocol)]
    /\ intExp'        = [s \in Stations |-> 1]
    /\ genAt'         = [s \in Stations |-> <<>>]
    /\ sentAt'        = [s \in Stations |-> <<>>]
    /\ UNCHANGED <<Protocol, pc>>

-----------------------------------------------------------------------------
(* The loop of runSim.                                                     *)

\* generateFrames and increaseDelay: the stations A get a frame.
Arrive ==
    /\ pc = "arrive" /\ slot < R
    /\ pc' = "access"
    /\ \E A \in SUBSET Stations :
          LET more(s) == IF s \in A THEN 1 ELSE 0 IN
          /\ frameQ'     = [s \in Stations |-> frameQ[s] + more(s)]
          /\ frameTotal' = [s \in Stations |-> frameTotal[s] + more(s)]
          /\ pendingFrames' =
                [s \in Stations |-> IncreaseDelay(
                    IF s \in A THEN AddFrame(pendingFrames[s]) ELSE pendingFrames[s])]
          /\ genAt' = [s \in Stations |->
                          IF s \in A THEN Append(genAt[s], slot) ELSE genAt[s]]
    /\ UNCHANGED <<Protocol, trial, slot, i, frameTxAll, frameTx, frameDelay,
                   arraySize, backVars, sentAt>>

\* Room for one more delay.
Grown(s) == IF frameTx[s] + 1 > arraySize[s] THEN 2 * arraySize[s] ELSE arraySize[s]

\* transmitFrame of station s: the oldest frame leaves and its delay is kept.
TransmitFrame(s) ==
    /\ frameTxAll'    = frameTxAll + 1
    /\ frameTx'       = [frameTx EXCEPT ![s] = @ + 1]
    /\ frameQ'        = [frameQ EXCEPT ![s] = @ - 1]
    /\ arraySize'     = [arraySize EXCEPT ![s] = Grown(s)]
    /\ frameDelay'    = [frameDelay EXCEPT ![s] = Append(@, GetLast(pendingFrames[s]))]
    /\ pendingFrames' = [pendingFrames EXCEPT ![s] = DeleteLast(@)]
    /\ sentAt'        = [sentAt EXCEPT ![s] = Append(@, slot)]

\* The end of the loop body and the wrap-around at the start of the next.
NextTurn(t) == IF t + 1 = N THEN 0 ELSE t + 1

EndOfSlot ==
    /\ pc' = "arrive" /\ slot' = slot + 1 /\ i' = NextTurn(i)
    /\ UNCHANGED <<Protocol, trial, frameTotal, genAt>>

TimeDivision ==
    /\ pc = "access" /\ Protocol = "T"
    /\ IF i \in Stations /\ frameQ[i] > 0 THEN TransmitFrame(i) ELSE UNCHANGED txVars
    /\ UNCHANGED backVars
    /\ EndOfSlot

\* Exactly one of the contenders of a slot.
Single(C) == Cardinality(C) = 1

Cleared(trying, s) == [trying EXCEPT ![s] = 0]

\* P: a station that collided before contends if txNextSlot says so.
Persistent ==
    /\ pc = "access" /\ Protocol = "P"
    /\ \E Again \in SUBSET {s \in Stations : tryingToTx[s] # 0} :
          LET C == {s \in Stations : frameQ[s] > 0 /\ tryingToTx[s] = 0} \cup Again IN
          IF Single(C)
            THEN \E s \in C : /\ TransmitFrame(s)
                              /\ tryingToTx' = Cleared(tryingToTx, s)
            ELSE /\ tryingToTx' = [s \in Stations |-> IF s \in C THEN 1 ELSE tryingToTx[s]]
                 /\ UNCHANGED txVars
    /\ UNCHANGED intExp
    /\ EndOfSlot

\* What txSlotOffset returns: upperBound + 1 when rand() is RAND_MAX.
TxSlotOffset(upperBound) == 1..(upperBound + 1)
Intervals(e) == TxSlotOffset(2^e)

\* I and B: a station contends unless it has an offset to wait for.
FirstTry(s) == frameQ[s] > 0 /\ tryingToTx[s] < 1

\* The offsets go down by one in the slot that set them, too.
Decreased(trying) == [s \in Stations |-> IF trying[s] > 0 THEN trying[s] - 1 ELSE trying[s]]

Interval ==
    /\ pc = "access" /\ Protocol = "I"
    /\ LET C == {s \in Stations : FirstTry(s)} IN
          IF Single(C)
            THEN \E s \in C : /\ TransmitFrame(s)
                              /\ tryingToTx' = Decreased([tryingToTx EXCEPT ![s] = -1])
            ELSE /\ \E offset \in [C -> TxSlotOffset(N)] :
                       tryingToTx' = Decreased([s \in Stations |->
                                        IF s \in C THEN offset[s] ELSE tryingToTx[s]])
                 /\ UNCHANGED txVars
    /\ UNCHANGED intExp
    /\ EndOfSlot

Raised(e) == IF e < MaxExp THEN e + 1 ELSE e

Backoff ==
    /\ pc = "access" /\ Protocol = "B"
    /\ LET C == {s \in Stations : FirstTry(s)} IN
          IF Single(C)
            THEN \E s \in C : /\ TransmitFrame(s)
                              /\ tryingToTx' = Decreased([tryingToTx EXCEPT ![s] = -1])
                              /\ intExp' = [intExp EXCEPT ![s] = 1]
            ELSE /\ \E offset \in [C -> UNION {Intervals(intExp[s]) : s \in C}] :
                       /\ \A s \in C : offset[s] \in Intervals(intExp[s])
                       /\ tryingToTx' = Decreased([s \in Stations |->
                                        IF s \in C THEN offset[s] ELSE tryingToTx[s]])
                 /\ intExp' = [s \in Stations |->
                                  IF s \in C THEN Raised(intExp[s]) ELSE intExp[s]]
                 /\ UNCHANGED txVars
    /\ EndOfSlot

Access == TimeDivision \/ Persistent \/ Interval \/ Backoff
Next == Arrive \/ Access \/ NextTrial

Spec == Init /\ [][Next]_vars

-----------------------------------------------------------------------------
(* Properties.                                                             *)

TypeOK ==
    /\ Protocol \in {"T", "P", "I", "B"} /\ trial \in 1..T
    /\ pc \in {"arrive", "access"} /\ slot \in 0..R /\ i \in Stations
    /\ frameTxAll \in Nat
    /\ frameQ \in [Stations -> Nat] /\ frameTx \in [Stations -> Nat]
    /\ frameTotal \in [Stations -> Nat] /\ arraySize \in [Stations -> Nat]
    /\ pendingFrames \in [Stations -> Seq(Nat)] /\ frameDelay \in [Stations -> Seq(Nat)]
    /\ genAt \in [Stations -> Seq(Nat)] /\ sentAt \in [Stations -> Seq(Nat)]
    /\ tryingToTx \in [Stations -> Nat \cup {-1}]
    /\ intExp \in [Stations -> 1..MaxExp]

\* The counters, the list and the array of a station agree: frameQ is the
\* length of the list (so transmitFrame never asks an empty list for its last
\* element), no frame is lost between generation and transmission, and a delay
\* is never written behind the end of frameDelay.  A trial sends at most one
\* frame per slot.
Conservation ==
    /\ \A s \in Stations :
          /\ frameQ[s] = Len(pendingFrames[s])
          /\ frameTotal[s] = frameTx[s] + frameQ[s]
          /\ frameTx[s] = Len(frameDelay[s]) /\ frameTx[s] <= arraySize[s]
    /\ frameTxAll <= slot

\* Frames leave in the order they came, and the delay printStats averages is
\* the number of slots from generation to transmission, both included; that is
\* what the ages in the list are on the way.
OldestFirst ==
    \A s \in Stations :
        /\ \A k \in 1..frameTx[s] :
              frameDelay[s][k] = sentAt[s][k] - genAt[s][k] + 1
        /\ \A k \in 1..frameQ[s] :
              pendingFrames[s][frameQ[s] + 1 - k] =
                  slot - genAt[s][frameTx[s] + k] + (IF pc = "access" THEN 1 ELSE 0)

\* A station that retries has something to send.  Under P runSim does not test
\* frameQ for such a station before it lets it transmit.
RetriesHaveFrames ==
    \A s \in Stations :
        \/ Protocol = "P" /\ tryingToTx[s] = 1
        \/ Protocol \in {"I", "B"} /\ (tryingToTx[s] >= 0 \/ intExp[s] > 1)
        => frameQ[s] > 0

\* The wait that is left after a collision: at most N slots under I, and under
\* B at most the interval the station drew from, half the one of the intExp it
\* has since moved to, until intExp stays at its largest value.
BackoffBounded ==
    \A s \in Stations :
        /\ Protocol = "P" => tryingToTx[s] \in {0, 1}
        /\ Protocol = "I" => tryingToTx[s] \in -1..N
        /\ Protocol = "B" =>
              /\ intExp[s] \in 1..MaxExp
              /\ tryingToTx[s] <= 2^(IF intExp[s] < MaxExp THEN intExp[s] - 1 ELSE MaxExp)
              /\ intExp[s] = 1 /\ MaxExp > 1 => tryingToTx[s] = -1

\* When the k-th frame of a station is next in line, under T.
Due(s, k) ==
    IF k > 1 /\ sentAt[s][k-1] >= genAt[s][k] THEN sentAt[s][k-1] + 1 ELSE genAt[s][k]

\* Under T a frame that is next in line is sent within N slots, in a slot of
\* its station.
TurnsComeRound ==
    Protocol = "T" =>
        \A s \in Stations :
            /\ \A k \in 1..frameTx[s] : /\ sentAt[s][k] % N = s
                                        /\ sentAt[s][k] < Due(s, k) + N
            /\ frameQ[s] > 0 => slot < Due(s, frameTx[s] + 1) + N

=============================================================================
