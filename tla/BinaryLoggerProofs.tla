------------------------- MODULE BinaryLoggerProofs -------------------------
(***************************************************************************)
(* Proofs about the run log for every ring capacity and every number of    *)
(* samples: type correctness, the absence of slot races, the order of what *)
(* reaches the file, the final accounting, the honesty of the OK status,   *)
(* and that the two threads implement LogStream.                           *)
(***************************************************************************)
EXTENDS BinaryLogger, SequenceTheorems, TLAPS

(***************************************************************************)
(* The inductive invariant.  Its heart is RingInv: the window between tail *)
(* and head holds, in order, the samples published and not yet taken.  It  *)
(* is stated with the distance between the two indices, not with the       *)
(* modulo, so that every step is linear arithmetic.                        *)
(***************************************************************************)

Dist == IF head >= tail THEN head - tail ELSE head - tail + Capacity
Wrap(i) == IF i >= Capacity THEN i - Capacity ELSE i
B2N(b) == IF b THEN 1 ELSE 0

RingInv ==
    /\ Len(published) - taken = Dist
    /\ \A k \in Slots : k < Dist => slots[Wrap(tail + k)] = published[taken + k + 1]

\* The slot being filled is outside the window, and then holds the new sample.
ProducerInv ==
    /\ prodPc \in {"write", "store"} => Dist < Capacity - 1
    /\ prodPc = "store" => slots[head] = offered
    /\ prodPc \in {"write", "store", "count"} => run.started /\ ~producerDone
    /\ prodPc = "idle" => ~producerDone
    /\ prodPc = "setup" => ~run.started /\ ~producerDone /\ offered = 0
    /\ prodPc = "setup" => run.status = "OK"
    /\ run.status = "OK" /\ prodPc # "setup" => consPc # "none"

ConsumerInv ==
    /\ consPc \in {"read", "release"} => head # tail
    /\ consPc = "release" => sample = published[taken + 1]
    /\ consPc = "persist" => taken > 0 /\ sample = published[taken]
    /\ draining => producerDone
    /\ consPc \in {"flush", "close", "report", "exit"} => producerDone /\ head = tail
    /\ producerDone => prodPc \in {"ended", "joining", "finished"}
    /\ run.started => consPc # "none"
    /\ consPc = "none" => saturationDrops = 0 /\ published = <<>>
    /\ consPc # "none" /\ prodPc # "finished" => run.started

\* Every sample is in exactly one place, and every place is counted.
CountInv ==
    /\ accepted + B2N(prodPc = "count") = Len(published)
    /\ consPc # "none" =>
         Len(published) + saturationDrops + B2N(prodPc \in {"write", "store"}) = offered
    /\ consPc # "exit" =>
         result.persisted + result.discarded + B2N(consPc = "persist") = taken
    /\ consPc = "exit" =>
         /\ result.accepted = Len(published)
         /\ result.persisted + result.discarded = offered
    /\ result.persisted = Len(file)

\* The file is a prefix of what was published; a missing sample, a failed
\* sink call or a drop is remembered in the result.
FileInv ==
    /\ FileIsPrefix
    /\ sinkUsable => result.discarded = 0 \/ consPc = "exit"
    /\ ~sinkUsable => result.stage # "NONE"
    /\ result.stage # "NONE" => result.incomplete
    /\ consPc = "exit" /\ ~result.incomplete => result.discarded = 0
    /\ saturationDrops = 0 => \A i \in 1 .. Len(published) : published[i] = i

FinishInv ==
    prodPc = "finished" =>
        /\ ~run.started
        /\ consPc \in {"none", "exit"}
        /\ run.status = "OK" => consPc = "exit" /\ ~result.incomplete

LoggerInv ==
    TypeOK /\ RingInv /\ ProducerInv /\ ConsumerInv /\ CountInv /\ FileInv /\ FinishInv

-----------------------------------------------------------------------------
\* Inside the ring, the index arithmetic of the code (a modulo) is an increment
\* that wraps at the capacity.
LEMMA NextIndexWraps ==
    ASSUME NEW i \in Slots
    PROVE  /\ NextIndex(i) = IF i = Capacity - 1 THEN 0 ELSE i + 1
           /\ NextIndex(i) \in Slots
  BY LoggerAssumption DEF NextIndex, Slots

\* The ring is full for the producer exactly when the window has Capacity - 1
\* samples.
LEMMA FullMeansDistance ==
    ASSUME head \in Slots, tail \in Slots
    PROVE  /\ Dist \in Nat /\ Dist < Capacity
           /\ RingFull <=> Dist = Capacity - 1
           /\ head = tail <=> Dist = 0
  BY LoggerAssumption, NextIndexWraps DEF RingFull, Dist, Slots

\* Remembering an error keeps the shape of the result and its counters.
LEMMA RememberErrorKeeps ==
    ASSUME NEW r \in ResultType, NEW st \in {"OPEN", "HEADER", "RECORD", "FLUSH", "CLOSE"}
    PROVE  /\ RememberError(r, st) \in ResultType
           /\ RememberError(r, st).persisted = r.persisted
           /\ RememberError(r, st).discarded = r.discarded
           /\ RememberError(r, st).accepted = r.accepted
           /\ RememberError(r, st).stage # "NONE"
           /\ (r.stage # "NONE" => r.incomplete) => RememberError(r, st).incomplete
  BY DEF RememberError, ResultType, Stages

\* The fields of a result.
LEMMA ResultFields ==
    ASSUME NEW r \in ResultType
    PROVE  /\ r.persisted \in Nat /\ r.discarded \in Nat /\ r.accepted \in Nat
           /\ r.incomplete \in BOOLEAN /\ r.stage \in Stages
  BY DEF ResultType

\* Counters of the result may be assigned any natural number.
LEMMA ResultUpdates ==
    ASSUME NEW r \in ResultType, NEW n \in Nat, NEW m \in Nat, NEW b \in BOOLEAN
    PROVE  /\ [r EXCEPT !.discarded = n] \in ResultType
           /\ [r EXCEPT !.persisted = n, !.last = m] \in ResultType
           /\ [r EXCEPT !.accepted = n, !.discarded = m, !.incomplete = b] \in ResultType
<1>1. [r EXCEPT !.discarded = n] \in ResultType
  BY DEF ResultType
<1>2. [r EXCEPT !.persisted = n, !.last = m] \in ResultType
  BY DEF ResultType
<1>3. [r EXCEPT !.accepted = n, !.discarded = m, !.incomplete = b] \in ResultType
  BY DEF ResultType
<1> QED
  BY <1>1, <1>2, <1>3

\* PersistSample leaves the types as they are.
LEMMA PersistKeepsTypes ==
    ASSUME result \in ResultType, sample \in Nat, file \in Seq(Nat), sinkUsable \in BOOLEAN,
           PersistSample
    PROVE  result' \in ResultType /\ file' \in Seq(Nat) /\ sinkUsable' \in BOOLEAN
<1>1. RememberError(result, "RECORD") \in ResultType
  BY RememberErrorKeeps
<1>2. [RememberError(result, "RECORD") EXCEPT !.discarded = @ + 1] \in ResultType
  <2> DEFINE r == RememberError(result, "RECORD")
  <2>1. r \in ResultType /\ r.discarded + 1 \in Nat
    BY <1>1, ResultFields
  <2> HIDE DEF r
  <2>2. [r EXCEPT !.discarded = r.discarded + 1] \in ResultType
    BY <2>1, ResultUpdates
  <2> QED
    BY <2>2 DEF r
<1>0. result.persisted + 1 \in Nat /\ result.discarded + 1 \in Nat
  BY ResultFields
<1>3. [result EXCEPT !.persisted = result.persisted + 1, !.last = sample] \in ResultType
  BY <1>0, ResultUpdates
<1>4. [result EXCEPT !.discarded = result.discarded + 1] \in ResultType
  BY <1>0, ResultUpdates
<1>5. CASE sinkUsable /\ file' = Append(file, sample) /\ UNCHANGED sinkUsable
           /\ result' = [result EXCEPT !.persisted = @ + 1, !.last = sample]
  BY <1>3, <1>5
<1>6. CASE /\ result' = [RememberError(result, "RECORD") EXCEPT !.discarded = @ + 1]
           /\ sinkUsable' = FALSE /\ UNCHANGED file
  BY <1>2, <1>6
<1>7. CASE result' = [result EXCEPT !.discarded = @ + 1] /\ UNCHANGED <<file, sinkUsable>>
  BY <1>4, <1>7
<1> QED
  BY <1>5, <1>6, <1>7 DEF PersistSample

\* So does the report of the run.
LEMMA ReportKeepsTypes ==
    ASSUME result \in ResultType, accepted \in Nat, saturationDrops \in Nat, Report
    PROVE  result' \in ResultType
<1> DEFINE m == result.discarded + saturationDrops
<1> DEFINE b == IF m # 0 THEN TRUE ELSE result.incomplete
<1>1. m \in Nat
  BY ResultFields
<1>2. b \in BOOLEAN
  BY ResultFields
<1>3. result' = [result EXCEPT !.accepted = accepted, !.discarded = m, !.incomplete = b]
  BY DEF Report
<1> HIDE DEF m, b
<1> QED
  BY <1>1, <1>2, <1>3, ResultUpdates

\* Type correctness of the run log, for every capacity and sample count.
THEOREM LoggerTyping == Spec => []TypeOK
<1>1. Init => TypeOK
  <2> SUFFICES ASSUME Init PROVE TypeOK
    OBVIOUS
  <2>1. result \in ResultType /\ run \in RunType
    BY DEF Init, ResultType, RunType, Stages
  <2>2. file \in Seq(Nat) /\ published \in Seq(Nat)
    BY DEF Init
  <2>3. slots \in [Slots -> Nat] /\ head \in Slots /\ tail \in Slots
    BY LoggerAssumption DEF Init, Slots
  <2>4. prodPc \in ProdPcs /\ consPc \in ConsPcs
    BY DEF Init, ProdPcs, ConsPcs
  <2>5. /\ accepted \in Nat /\ saturationDrops \in Nat /\ offered \in Nat
        /\ sample \in Nat /\ taken \in Nat /\ producerDone \in BOOLEAN
        /\ draining \in BOOLEAN /\ sinkOpen \in BOOLEAN /\ sinkUsable \in BOOLEAN
    BY DEF Init
  <2> QED
    BY <2>1, <2>2, <2>3, <2>4, <2>5 DEF TypeOK
<1>2. TypeOK /\ [Next]_vars => TypeOK'
  <2> SUFFICES ASSUME TypeOK, [Next]_vars PROVE TypeOK'
    OBVIOUS
  <2> USE DEF TypeOK, ProdPcs, ConsPcs, vars, prodVars, consVars, ringVars
  <2>1. CASE RunLoggingStart
    <3>1. run' \in RunType
      BY <2>1 DEF RunLoggingStart, RunType, ResultType
    <3> QED
      BY <2>1, <3>1 DEF RunLoggingStart
  <2>2. CASE PublishIgnored
    BY <2>2 DEF PublishIgnored
  <2>3. CASE PublishReserve
    BY <2>3 DEF PublishReserve
  <2>4. CASE PublishWrite
    BY <2>4 DEF PublishWrite
  <2>5. CASE PublishStoreHead
    BY <2>5, NextIndexWraps DEF PublishStoreHead
  <2>6. CASE PublishCount
    BY <2>6 DEF PublishCount
  <2>7. CASE ProducerDone
    BY <2>7 DEF ProducerDone
  <2>8. CASE OpenSink
    <3>1. result' \in ResultType
      BY <2>8, RememberErrorKeeps DEF OpenSink
    <3> QED
      BY <2>8, <3>1 DEF OpenSink
  <2>9. CASE WriteHeader
    <3>1. result' \in ResultType
      BY <2>9, RememberErrorKeeps DEF WriteHeader
    <3> QED
      BY <2>9, <3>1 DEF WriteHeader
  <2>10. CASE PopLoadHead
    BY <2>10 DEF PopLoadHead
  <2>11. CASE PopReadSlot
    BY <2>11 DEF PopReadSlot
  <2>12. CASE PopStoreTail
    BY <2>12, NextIndexWraps DEF PopStoreTail
  <2>13. CASE PersistSample
    <3>1. result' \in ResultType /\ file' \in Seq(Nat) /\ sinkUsable' \in BOOLEAN
      BY <2>13, PersistKeepsTypes
    <3>3. consPc' = "pop" /\ draining' = FALSE
      BY <2>13 DEF PersistSample
    <3>4. UNCHANGED <<sample, sinkOpen, taken, prodVars, ringVars, producerDone, run>>
      BY <2>13 DEF PersistSample
    <3> QED
      BY <3>1, <3>3, <3>4
  <2>14. CASE PollProducerDone
    BY <2>14 DEF PollProducerDone
  <2>15. CASE FlushSink
    <3>1. result' \in ResultType
      BY <2>15, RememberErrorKeeps DEF FlushSink
    <3> QED
      BY <2>15, <3>1 DEF FlushSink
  <2>16. CASE CloseSink
    <3>1. result' \in ResultType
      BY <2>16, RememberErrorKeeps DEF CloseSink
    <3> QED
      BY <2>16, <3>1 DEF CloseSink
  <2>17. CASE Report
    <3>1. result' \in ResultType
      BY <2>17, ReportKeepsTypes
    <3> QED
      BY <2>17, <3>1 DEF Report
  <2>18. CASE FinishSignal
    BY <2>18 DEF FinishSignal
  <2>19. CASE FinishJoin
    <3>1. run' \in RunType
      BY <2>19 DEF FinishJoin, RunType, ResultType
    <3> QED
      BY <2>19, <3>1 DEF FinishJoin
  <2>20. CASE UNCHANGED vars
    BY <2>20
  <2> QED
    BY <2>1, <2>2, <2>3, <2>4, <2>5, <2>6, <2>7, <2>8, <2>9, <2>10, <2>11, <2>12,
       <2>13, <2>14, <2>15, <2>16, <2>17, <2>18, <2>19, <2>20
    DEF Next, Producer, Logger, Finished
<1> QED
  BY <1>1, <1>2, PTL DEF Spec

\* Releasing the oldest sample shortens the window by one.
LEMMA DistAfterPop ==
    ASSUME head \in Slots, tail \in Slots, head # tail, head' = head, tail' = NextIndex(tail)
    PROVE  Dist' = Dist - 1
<1>1. NextIndex(tail) = IF tail = Capacity - 1 THEN 0 ELSE tail + 1
  BY NextIndexWraps
<1> QED
  BY <1>1, LoggerAssumption DEF Dist, Slots

-----------------------------------------------------------------------------
(* Preservation of the inductive invariant, one lemma per part of it.      *)

\* Filling a slot outside the window, moving head over it and moving tail over
\* the oldest sample keep the window equal to the samples in transit.
LEMMA RingStep == LoggerInv /\ [Next]_vars => RingInv'
<1> SUFFICES ASSUME LoggerInv, [Next]_vars PROVE RingInv'
  OBVIOUS
<1>0. /\ head \in Slots /\ tail \in Slots /\ Capacity \in Nat /\ Capacity > 1
      /\ slots \in [Slots -> Nat] /\ taken \in Nat /\ published \in Seq(Nat)
      /\ Len(published) \in Nat /\ offered \in Nat
      /\ Len(published) - taken = Dist
      /\ \A k \in Slots : k < Dist => slots[Wrap(tail + k)] = published[taken + k + 1]
  BY LoggerAssumption DEF LoggerInv, TypeOK, RingInv
<1>a. /\ NextIndex(head) = IF head = Capacity - 1 THEN 0 ELSE head + 1
      /\ NextIndex(tail) = IF tail = Capacity - 1 THEN 0 ELSE tail + 1
  BY <1>0, NextIndexWraps
<1>b. /\ Capacity \in Nat /\ head \in Int /\ tail \in Int /\ 0 <= head /\ head < Capacity
      /\ 0 <= tail /\ tail < Capacity /\ Dist \in Int /\ 0 <= Dist /\ Dist < Capacity
  BY <1>0 DEF Slots, Dist
<1>1. CASE PublishWrite
  <2>1. /\ slots' = [slots EXCEPT ![head] = offered]
        /\ UNCHANGED <<head, tail, published, taken>> /\ Dist < Capacity - 1
    BY <1>1 DEF PublishWrite, consVars, LoggerInv, ProducerInv
  <2>2. ASSUME NEW k \in Slots, k < Dist
        PROVE  slots'[Wrap(tail + k)] = published[taken + k + 1]
    <3>1. Wrap(tail + k) \in Slots /\ Wrap(tail + k) # head
      BY <1>0, <2>1, <2>2 DEF Wrap, Dist, Slots
    <3> QED
      BY <1>0, <2>1, <2>2, <3>1
  <2> QED
    BY <1>0, <2>1, <2>2 DEF RingInv, Dist, Wrap
<1>2. CASE PublishStoreHead
  <2>1. /\ head' = NextIndex(head) /\ published' = Append(published, offered)
        /\ UNCHANGED <<slots, tail, taken>> /\ Dist < Capacity - 1 /\ slots[head] = offered
    BY <1>2 DEF PublishStoreHead, consVars, LoggerInv, ProducerInv
  <2>2. Dist' = Dist + 1
    BY <1>a, <1>b, <2>1 DEF Dist
  <2>3. /\ Len(published') = Len(published) + 1
        /\ \A i \in 1 .. Len(published) : published'[i] = published[i]
        /\ published'[Len(published) + 1] = offered
    BY <1>0, <2>1
  <2>4. ASSUME NEW k \in Slots, k < Dist + 1
        PROVE  slots[Wrap(tail + k)] = published'[taken + k + 1]
    <3>1. CASE k < Dist
      <4>1. taken + k + 1 \in 1 .. Len(published)
        BY <1>0, <1>b, <3>1 DEF Slots
      <4> QED
        BY <1>0, <2>3, <3>1, <4>1
    <3>2. CASE k = Dist
      <4>1. Wrap(tail + k) = head
        BY <1>0, <3>2 DEF Wrap, Dist, Slots
      <4>2. taken + k + 1 = Len(published) + 1
        BY <1>0, <3>2 DEF Dist, Slots
      <4> QED
        BY <2>1, <2>3, <4>1, <4>2
    <3> QED
      BY <1>0, <2>4, <3>1, <3>2 DEF Dist, Slots
  <2> QED
    <3>1. Len(published') - taken' = Dist'
      BY <1>0, <1>b, <2>1, <2>2, <2>3
    <3>2. \A k \in Slots : k < Dist' => slots'[Wrap(tail' + k)] = published'[taken' + k + 1]
      BY <2>1, <2>2, <2>4
    <3> QED
      BY <3>1, <3>2 DEF RingInv, Wrap
<1>3. CASE PopStoreTail
  <2>1. /\ tail' = NextIndex(tail) /\ taken' = taken + 1 /\ head # tail
        /\ UNCHANGED <<slots, head, published>>
    BY <1>3 DEF PopStoreTail, prodVars, LoggerInv, ConsumerInv
  <2>2. Dist' = Dist - 1
    BY <1>a, <1>b, <2>1 DEF Dist
  <2>3. ASSUME NEW k \in Slots, k < Dist - 1
        PROVE  slots[Wrap(tail' + k)] = published[taken + 1 + k + 1]
    <3>1. Wrap(tail' + k) = Wrap(tail + (k + 1)) /\ k + 1 \in Slots /\ k + 1 < Dist
      BY <1>0, <1>a, <1>b, <2>1, <2>3 DEF Wrap, Slots
    <3>2. taken + (k + 1) + 1 = taken + 1 + k + 1
      BY <1>0 DEF Slots
    <3> QED
      BY <1>0, <3>1, <3>2
  <2> QED
    <3>1. Len(published') - taken' = Dist'
      BY <1>0, <1>b, <2>1, <2>2
    <3>2. \A k \in Slots : k < Dist' => slots'[Wrap(tail' + k)] = published'[taken' + k + 1]
      BY <2>1, <2>2, <2>3
    <3> QED
      BY <3>1, <3>2 DEF RingInv, Wrap
<1>4. CASE UNCHANGED <<slots, head, tail, published, taken>>
  BY <1>0, <1>4 DEF RingInv, Dist, Wrap
<1> QED
  BY <1>1, <1>2, <1>3, <1>4
  DEF Next, Producer, Logger, Finished, vars, prodVars, consVars, ringVars,
      RunLoggingStart, PublishIgnored, PublishReserve, PublishCount, ProducerDone,
      OpenSink, WriteHeader, PopLoadHead, PopReadSlot, PersistSample,
      PollProducerDone, FlushSink, CloseSink, Report, FinishSignal, FinishJoin

\* The producer reserves a slot only when one is free, and the consumer can only
\* make more room.
LEMMA ProducerStep == LoggerInv /\ [Next]_vars => ProducerInv'
<1> SUFFICES ASSUME LoggerInv, [Next]_vars PROVE ProducerInv'
  OBVIOUS
<1>0. /\ ProducerInv /\ run \in RunType /\ consPc \in ConsPcs
      /\ consPc = "release" => head # tail
      /\ head \in Slots /\ tail \in Slots /\ slots \in [Slots -> Nat] /\ offered \in Nat
      /\ Dist \in Nat /\ Dist < Capacity /\ (RingFull <=> Dist = Capacity - 1)
      /\ head # tail => Dist > 0
      /\ Capacity \in Nat
      /\ UNCHANGED <<head, tail>> => Dist' = Dist
  BY FullMeansDistance, LoggerAssumption DEF LoggerInv, TypeOK, ConsumerInv, Dist
<1> USE DEF ProducerInv, prodVars, consVars, ringVars
<1>1. CASE RunLoggingStart
  BY <1>0, <1>1 DEF RunLoggingStart, RunType
<1>2. CASE PublishIgnored
  BY <1>0, <1>2 DEF PublishIgnored
<1>3. CASE PublishReserve
  <2>1. ~RingFull => Dist < Capacity - 1
    BY <1>0
  <2>2. prodPc' \in {"write", "store"} => Dist' < Capacity - 1
    BY <1>0, <1>3, <2>1 DEF PublishReserve
  <2>3. prodPc' \in {"idle", "write"} /\ run.started /\ ~producerDone
        /\ UNCHANGED <<run, producerDone, consPc>>
    BY <1>3 DEF PublishReserve
  <2>4. run.status = "OK" => consPc # "none"
    BY <1>0, <1>3 DEF PublishReserve
  <2> QED
    BY <1>0, <2>2, <2>3, <2>4
<1>4. CASE PublishWrite
  BY <1>0, <1>4 DEF PublishWrite
<1>5. CASE PublishStoreHead
  BY <1>0, <1>5 DEF PublishStoreHead
<1>6. CASE PublishCount
  BY <1>0, <1>6 DEF PublishCount
<1>7. CASE ProducerDone
  BY <1>0, <1>7 DEF ProducerDone
<1>8. CASE OpenSink
  BY <1>0, <1>8 DEF OpenSink
<1>9. CASE WriteHeader
  BY <1>0, <1>9 DEF WriteHeader
<1>10. CASE PopLoadHead
  BY <1>0, <1>10 DEF PopLoadHead
<1>11. CASE PopReadSlot
  BY <1>0, <1>11 DEF PopReadSlot
<1>12. CASE PopStoreTail
  <2>1. Dist' = Dist - 1
    BY <1>0, <1>12, DistAfterPop DEF PopStoreTail
  <2> QED
    <3>1. prodPc' \in {"write", "store"} => Dist' < Capacity - 1
      BY <1>0, <1>12, <2>1 DEF PopStoreTail
    <3>2. consPc' = "persist" /\ UNCHANGED <<prodVars, slots, head, producerDone, run>>
      BY <1>12 DEF PopStoreTail
    <3> QED
      BY <1>0, <3>1, <3>2
<1>13. CASE PersistSample
  BY <1>0, <1>13 DEF PersistSample
<1>14. CASE PollProducerDone
  BY <1>0, <1>14 DEF PollProducerDone
<1>15. CASE FlushSink
  BY <1>0, <1>15 DEF FlushSink
<1>16. CASE CloseSink
  BY <1>0, <1>16 DEF CloseSink
<1>17. CASE Report
  BY <1>0, <1>17 DEF Report
<1>18. CASE FinishSignal
  BY <1>0, <1>18 DEF FinishSignal
<1>19. CASE FinishJoin
  BY <1>0, <1>19 DEF FinishJoin
<1>20. CASE UNCHANGED vars
  BY <1>0, <1>20 DEF vars
<1> QED
  BY <1>1, <1>2, <1>3, <1>4, <1>5, <1>6, <1>7, <1>8, <1>9, <1>10,
     <1>11, <1>12, <1>13, <1>14, <1>15, <1>16, <1>17, <1>18, <1>19, <1>20
  DEF Next, Producer, Logger, Finished

\* What the consumer holds is the oldest sample, and it leaves only when the
\* producer is done and the ring is empty.
LEMMA ConsumerStep == LoggerInv /\ [Next]_vars => ConsumerInv'
<1> SUFFICES ASSUME LoggerInv, [Next]_vars PROVE ConsumerInv'
  OBVIOUS
<1>0. /\ ConsumerInv /\ run \in RunType /\ consPc \in ConsPcs /\ prodPc \in ProdPcs
      /\ draining \in BOOLEAN /\ producerDone \in BOOLEAN
      /\ (prodPc \in {"setup", "idle", "write", "store", "count"} => ~producerDone)
      /\ (prodPc = "setup" => ~run.started)
      /\ (prodPc \in {"write", "store", "count"} => run.started)
  BY DEF LoggerInv, TypeOK, ProducerInv, ProdPcs
<1>a. /\ head \in Slots /\ tail \in Slots /\ taken \in Nat /\ published \in Seq(Nat)
      /\ offered \in Nat /\ Len(published) \in Nat /\ Len(published) - taken = Dist
      /\ Dist \in Nat /\ (head # tail => Dist > 0)
      /\ (prodPc = "store" => Dist < Capacity - 1)
      /\ \A k \in Slots : k < Dist => slots[Wrap(tail + k)] = published[taken + k + 1]
  BY FullMeansDistance DEF LoggerInv, TypeOK, RingInv, ProducerInv
<1> USE DEF ConsumerInv, prodVars, consVars, ringVars
<1>1. CASE RunLoggingStart
  <2>1. prodPc = "setup" => saturationDrops = 0 /\ published = <<>>
    BY <1>0, <1>1 DEF RunLoggingStart, LoggerInv, CountInv, B2N
  <2> QED
    BY <1>0, <1>1, <2>1 DEF RunLoggingStart, RunType, ConsPcs
<1>2. CASE PublishIgnored
  BY <1>0, <1>2 DEF PublishIgnored
<1>3. CASE PublishReserve
  BY <1>0, <1>3 DEF PublishReserve
<1>4. CASE PublishWrite
  BY <1>0, <1>4 DEF PublishWrite
<1>5. CASE PublishStoreHead
  <2>1. head' # tail
    BY <1>5, <1>a, FullMeansDistance DEF PublishStoreHead, RingFull
  <2>2. \A i \in 1 .. Len(published) : published'[i] = published[i]
    BY <1>a, <1>5 DEF PublishStoreHead
  <2>3. consPc = "release" => taken + 1 \in 1 .. Len(published)
    BY <1>0, <1>a
  <2>4. consPc = "persist" => taken \in 1 .. Len(published)
    BY <1>0, <1>a
  <2>5. /\ ~producerDone /\ run.started
        /\ UNCHANGED <<consPc, sample, taken, tail, draining, producerDone, run>>
    BY <1>0, <1>5 DEF PublishStoreHead
  <2> QED
    BY <1>0, <2>1, <2>2, <2>3, <2>4, <2>5
<1>6. CASE PublishCount
  BY <1>0, <1>6 DEF PublishCount
<1>7. CASE ProducerDone
  BY <1>0, <1>7 DEF ProducerDone
<1>8. CASE OpenSink
  BY <1>0, <1>8 DEF OpenSink
<1>9. CASE WriteHeader
  BY <1>0, <1>9 DEF WriteHeader
<1>10. CASE PopLoadHead
  BY <1>0, <1>10 DEF PopLoadHead
<1>11. CASE PopReadSlot
  <2>1. slots[tail] = published[taken + 1]
    <3>1. 0 \in Slots /\ 0 < Dist
      BY <1>0, <1>a, <1>11, LoggerAssumption DEF PopReadSlot, Slots
    <3>2. Wrap(tail + 0) = tail /\ taken + 0 + 1 = taken + 1
      BY <1>a, LoggerAssumption DEF Wrap, Slots
    <3> QED
      BY <1>a, <3>1, <3>2
  <2> QED
    BY <1>0, <1>11, <2>1 DEF PopReadSlot
<1>12. CASE PopStoreTail
  <2>1. taken' > 0 /\ sample' = published'[taken']
    BY <1>0, <1>a, <1>12 DEF PopStoreTail
  <2> QED
    BY <1>0, <1>12, <2>1 DEF PopStoreTail
<1>13. CASE PersistSample
  BY <1>0, <1>13 DEF PersistSample
<1>14. CASE PollProducerDone
  BY <1>0, <1>14 DEF PollProducerDone
<1>15. CASE FlushSink
  BY <1>0, <1>15 DEF FlushSink
<1>16. CASE CloseSink
  BY <1>0, <1>16 DEF CloseSink
<1>17. CASE Report
  BY <1>0, <1>17 DEF Report
<1>18. CASE FinishSignal
  BY <1>0, <1>18 DEF FinishSignal
<1>19. CASE FinishJoin
  BY <1>0, <1>19 DEF FinishJoin
<1>20. CASE UNCHANGED vars
  BY <1>0, <1>20 DEF vars
<1> QED
  BY <1>1, <1>2, <1>3, <1>4, <1>5, <1>6, <1>7, <1>8, <1>9, <1>10,
     <1>11, <1>12, <1>13, <1>14, <1>15, <1>16, <1>17, <1>18, <1>19, <1>20
  DEF Next, Producer, Logger, Finished

\* Every step moves a sample from one counted place to another.
LEMMA CountStep == LoggerInv /\ [Next]_vars => CountInv'
<1> SUFFICES ASSUME LoggerInv, [Next]_vars PROVE CountInv'
  OBVIOUS
<1>0. /\ CountInv /\ run \in RunType /\ consPc \in ConsPcs /\ prodPc \in ProdPcs
      /\ result \in ResultType /\ accepted \in Nat /\ saturationDrops \in Nat
      /\ offered \in Nat /\ taken \in Nat /\ published \in Seq(Nat) /\ file \in Seq(Nat)
      /\ Len(published) \in Nat /\ Len(file) \in Nat /\ sample \in Nat
      /\ result.persisted \in Nat /\ result.discarded \in Nat
  BY ResultFields DEF LoggerInv, TypeOK
<1>a. /\ (prodPc = "setup" => offered = 0 /\ ~run.started)
      /\ (run.started => consPc # "none")
      /\ (consPc = "none" => saturationDrops = 0 /\ published = <<>>)
      /\ (consPc # "none" /\ prodPc # "finished" => run.started)
      /\ (producerDone => prodPc \in {"ended", "joining", "finished"})
      /\ (prodPc \in {"write", "store", "count"} => run.started /\ ~producerDone)
      /\ (consPc \in {"flush", "close", "report", "exit"} => producerDone)
      /\ (consPc \in {"flush", "close", "report", "exit"} => Len(published) = taken)
  <2>1. consPc \in {"flush", "close", "report", "exit"} => Dist = 0
    BY FullMeansDistance DEF LoggerInv, TypeOK, ConsumerInv
  <2> QED
    BY <1>0, <2>1 DEF LoggerInv, ProducerInv, ConsumerInv, RingInv
<1> USE DEF CountInv, B2N, prodVars, consVars, ringVars
<1>1. CASE RunLoggingStart
  <2>1. consPc = "none" => Len(published) = 0
    BY <1>a
  <2>2. consPc' \in {"none", "open"} /\ offered = 0 /\ consPc = "none"
    BY <1>0, <1>a, <1>1 DEF RunLoggingStart
  <2> QED
    BY <1>0, <1>a, <1>1, <2>1, <2>2 DEF RunLoggingStart
<1>2. CASE PublishIgnored
  BY <1>0, <1>a, <1>2 DEF PublishIgnored
<1>3. CASE PublishReserve
  BY SMTT(40), <1>0, <1>a, <1>3 DEF PublishReserve
<1>4. CASE PublishWrite
  BY <1>0, <1>a, <1>4 DEF PublishWrite
<1>5. CASE PublishStoreHead
  BY <1>0, <1>a, <1>5 DEF PublishStoreHead
<1>6. CASE PublishCount
  BY <1>0, <1>a, <1>6 DEF PublishCount
<1>7. CASE ProducerDone
  BY <1>0, <1>a, <1>7 DEF ProducerDone
<1>8. CASE OpenSink
  <2>1. result'.persisted = result.persisted /\ result'.discarded = result.discarded
    BY <1>0, <1>8, RememberErrorKeeps DEF OpenSink
  <2> QED
    BY <1>0, <1>a, <1>8, <2>1 DEF OpenSink
<1>9. CASE WriteHeader
  <2>1. result'.persisted = result.persisted /\ result'.discarded = result.discarded
    BY <1>0, <1>9, RememberErrorKeeps DEF WriteHeader
  <2> QED
    BY <1>0, <1>a, <1>9, <2>1 DEF WriteHeader
<1>10. CASE PopLoadHead
  BY <1>0, <1>a, <1>10 DEF PopLoadHead
<1>11. CASE PopReadSlot
  BY <1>0, <1>a, <1>11 DEF PopReadSlot
<1>12. CASE PopStoreTail
  BY <1>0, <1>a, <1>12 DEF PopStoreTail
<1>13. CASE PersistSample
  <2>1. \/ /\ Len(file') = Len(file) + 1
           /\ result'.persisted = result.persisted + 1 /\ result'.discarded = result.discarded
        \/ /\ Len(file') = Len(file)
           /\ result'.persisted = result.persisted /\ result'.discarded = result.discarded + 1
    <3>1. ASSUME NEW r \in ResultType, r.persisted = result.persisted,
                 r.discarded = result.discarded
          PROVE  LET q == [r EXCEPT !.discarded = @ + 1]
                 IN q.persisted = result.persisted /\ q.discarded = result.discarded + 1
      BY <3>1 DEF ResultType
    <3>2. LET q == [result EXCEPT !.persisted = @ + 1, !.last = sample]
          IN q.persisted = result.persisted + 1 /\ q.discarded = result.discarded
      BY <1>0 DEF ResultType
    <3>3. LET q == [RememberError(result, "RECORD") EXCEPT !.discarded = @ + 1]
          IN q.persisted = result.persisted /\ q.discarded = result.discarded + 1
      BY <1>0, <3>1, RememberErrorKeeps
    <3>4. LET q == [result EXCEPT !.discarded = @ + 1]
          IN q.persisted = result.persisted /\ q.discarded = result.discarded + 1
      BY <1>0, <3>1
    <3>5. CASE /\ file' = Append(file, sample)
               /\ result' = [result EXCEPT !.persisted = @ + 1, !.last = sample]
      BY <1>0, <3>2, <3>5
    <3>6. CASE /\ result' = [RememberError(result, "RECORD") EXCEPT !.discarded = @ + 1]
               /\ UNCHANGED file
      BY <3>3, <3>6
    <3>7. CASE result' = [result EXCEPT !.discarded = @ + 1] /\ UNCHANGED file
      BY <3>4, <3>7
    <3> QED
      BY <1>13, <3>5, <3>6, <3>7 DEF PersistSample
  <2>2. consPc = "persist" /\ consPc' = "pop" /\ UNCHANGED <<taken, prodVars>>
    BY <1>13 DEF PersistSample
  <2> QED
    <3>1. result'.persisted + result'.discarded = taken'
      <4>1. result.persisted + result.discarded + 1 = taken /\ taken' = taken
        BY <1>0, <2>2
      <4>2. result.persisted \in Nat /\ result.discarded \in Nat
        BY <1>0
      <4> HIDE DEF CountInv
      <4> QED
        BY <2>1, <4>1, <4>2
    <3>2. result'.persisted = Len(file')
      BY <1>0, <2>1
    <3> QED
      BY <1>0, <2>2, <3>1, <3>2
<1>14. CASE PollProducerDone
  BY <1>0, <1>a, <1>14 DEF PollProducerDone
<1>15. CASE FlushSink
  <2>1. result'.persisted = result.persisted /\ result'.discarded = result.discarded
    BY <1>0, <1>15, RememberErrorKeeps DEF FlushSink
  <2> QED
    BY <1>0, <1>a, <1>15, <2>1 DEF FlushSink
<1>16. CASE CloseSink
  <2>1. result'.persisted = result.persisted /\ result'.discarded = result.discarded
    BY <1>0, <1>16, RememberErrorKeeps DEF CloseSink
  <2> QED
    BY <1>0, <1>a, <1>16, <2>1 DEF CloseSink
<1>17. CASE Report
  BY <1>0, <1>a, <1>17 DEF Report
<1>18. CASE FinishSignal
  BY <1>0, <1>a, <1>18 DEF FinishSignal
<1>19. CASE FinishJoin
  BY <1>0, <1>a, <1>19 DEF FinishJoin
<1>20. CASE UNCHANGED vars
  BY <1>0, <1>a, <1>20 DEF vars
<1> QED
  BY <1>1, <1>2, <1>3, <1>4, <1>5, <1>6, <1>7, <1>8, <1>9, <1>10,
     <1>11, <1>12, <1>13, <1>14, <1>15, <1>16, <1>17, <1>18, <1>19, <1>20
  DEF Next, Producer, Logger, Finished

\* The file grows only by the next published sample, and every loss leaves a
\* mark in the result.
LEMMA FileStep == LoggerInv /\ [Next]_vars => FileInv'
<1> SUFFICES ASSUME LoggerInv, [Next]_vars PROVE FileInv'
  OBVIOUS
<1>0. /\ FileInv /\ consPc \in ConsPcs /\ result \in ResultType /\ sample \in Nat
      /\ sinkUsable \in BOOLEAN /\ saturationDrops \in Nat /\ offered \in Nat
      /\ published \in Seq(Nat) /\ file \in Seq(Nat) /\ taken \in Nat
      /\ Len(published) \in Nat /\ Len(file) \in Nat
      /\ result.persisted \in Nat /\ result.discarded \in Nat
      /\ result.incomplete \in BOOLEAN
  BY ResultFields DEF LoggerInv, TypeOK
<1>a. /\ (prodPc = "setup" => consPc = "none")
      /\ (prodPc = "store" => Len(published) + saturationDrops + 1 = offered)
      /\ (prodPc \in {"write", "store", "count"} => consPc # "exit")
      /\ (consPc = "persist" => result.persisted + result.discarded + 1 = taken)
      /\ (consPc = "persist" => taken > 0 /\ sample = published[taken])
      /\ result.persisted = Len(file) /\ taken <= Len(published)
  <2>1. Dist \in Nat
    BY FullMeansDistance DEF LoggerInv, TypeOK
  <2> QED
    <3>1. /\ (prodPc = "setup" => consPc = "none")
          /\ (prodPc \in {"write", "store", "count"} => consPc # "exit" /\ consPc # "none")
          /\ (consPc = "persist" => taken > 0 /\ sample = published[taken])
      BY DEF LoggerInv, ProducerInv, ConsumerInv
    <3>2. taken <= Len(published)
      BY <1>0, <2>1 DEF LoggerInv, RingInv
    <3> QED
      BY <1>0, <3>1, <3>2 DEF LoggerInv, CountInv, B2N
<1> USE DEF FileInv, FileIsPrefix, prodVars, consVars, ringVars
<1>1. CASE RunLoggingStart
  BY <1>0, <1>a, <1>1 DEF RunLoggingStart
<1>2. CASE PublishIgnored
  BY <1>0, <1>a, <1>2 DEF PublishIgnored
<1>3. CASE PublishReserve
  BY <1>0, <1>a, <1>3 DEF PublishReserve
<1>4. CASE PublishWrite
  BY <1>0, <1>a, <1>4 DEF PublishWrite
<1>5. CASE PublishStoreHead
  BY <1>0, <1>a, <1>5 DEF PublishStoreHead
<1>6. CASE PublishCount
  BY <1>0, <1>a, <1>6 DEF PublishCount
<1>7. CASE ProducerDone
  BY <1>0, <1>a, <1>7 DEF ProducerDone
<1>8. CASE OpenSink
  <2>1. /\ result'.discarded = result.discarded
        /\ (result'.stage # "NONE" => result'.incomplete)
        /\ (result.stage # "NONE" => result'.stage # "NONE")
        /\ (~sinkUsable' => result'.stage # "NONE")
    BY <1>0, <1>8, RememberErrorKeeps DEF OpenSink
  <2> QED
    BY <1>0, <1>8, <2>1 DEF OpenSink
<1>9. CASE WriteHeader
  <2>1. /\ result'.discarded = result.discarded
        /\ (result'.stage # "NONE" => result'.incomplete)
        /\ (result.stage # "NONE" => result'.stage # "NONE")
        /\ (~sinkUsable' => result'.stage # "NONE")
    BY <1>0, <1>9, RememberErrorKeeps DEF WriteHeader
  <2> QED
    BY <1>0, <1>9, <2>1 DEF WriteHeader
<1>10. CASE PopLoadHead
  BY <1>0, <1>a, <1>10 DEF PopLoadHead
<1>11. CASE PopReadSlot
  BY <1>0, <1>a, <1>11 DEF PopReadSlot
<1>12. CASE PopStoreTail
  BY <1>0, <1>a, <1>12 DEF PopStoreTail
<1>13. CASE PersistSample
  <2>1. CASE /\ sinkUsable /\ file' = Append(file, sample) /\ UNCHANGED sinkUsable
             /\ result' = [result EXCEPT !.persisted = @ + 1, !.last = sample]
    <3>1. result'.discarded = result.discarded /\ result'.stage = result.stage
          /\ result'.incomplete = result.incomplete
      BY <1>0, <2>1 DEF ResultType
    <3>2. result.discarded = 0 /\ consPc = "persist" /\ consPc' = "pop"
          /\ UNCHANGED <<published, saturationDrops>>
      BY <1>0, <1>13, <2>1 DEF PersistSample
    <3>3. Len(file) + 1 = taken
      BY <1>0, <1>a, <3>2
    <3>4. Len(file') = Len(file) + 1 /\ file'[Len(file) + 1] = sample
          /\ \A i \in 1 .. Len(file) : file'[i] = file[i]
      BY <1>0, <2>1
    <3>5. FileIsPrefix'
      BY SMTT(40), <1>0, <1>a, <3>2, <3>3, <3>4
    <3> QED
      BY <1>0, <2>1, <3>1, <3>2, <3>5
  <2>2. CASE /\ result' = [RememberError(result, "RECORD") EXCEPT !.discarded = @ + 1]
             /\ sinkUsable' = FALSE /\ UNCHANGED file
    <3>1. /\ RememberError(result, "RECORD") \in ResultType
          /\ RememberError(result, "RECORD").stage # "NONE"
          /\ RememberError(result, "RECORD").incomplete
      BY <1>0, RememberErrorKeeps
    <3>2. result'.stage # "NONE" /\ result'.incomplete
      BY <2>2, <3>1 DEF ResultType
    <3>3. consPc' = "pop" /\ UNCHANGED <<published, saturationDrops>>
      BY <1>13 DEF PersistSample
    <3> QED
      BY <1>0, <2>2, <3>2, <3>3
  <2>3. CASE /\ ~sinkUsable /\ UNCHANGED <<file, sinkUsable>>
             /\ result' = [result EXCEPT !.discarded = @ + 1]
    <3>1. result'.stage = result.stage /\ result'.incomplete = result.incomplete
      BY <1>0, <2>3 DEF ResultType
    <3>2. consPc' = "pop" /\ UNCHANGED <<published, saturationDrops>>
      BY <1>13 DEF PersistSample
    <3> QED
      BY <1>0, <2>3, <3>1, <3>2
  <2> QED
    BY <1>13, <2>1, <2>2, <2>3 DEF PersistSample
<1>14. CASE PollProducerDone
  BY <1>0, <1>a, <1>14 DEF PollProducerDone
<1>15. CASE FlushSink
  <2>1. /\ result'.discarded = result.discarded
        /\ (result'.stage # "NONE" => result'.incomplete)
        /\ (result.stage # "NONE" => result'.stage # "NONE")
        /\ (~sinkUsable' => result'.stage # "NONE")
    BY <1>0, <1>15, RememberErrorKeeps DEF FlushSink
  <2> QED
    BY <1>0, <1>15, <2>1 DEF FlushSink
<1>16. CASE CloseSink
  <2>1. /\ result'.discarded = result.discarded
        /\ (result'.stage # "NONE" => result'.incomplete)
        /\ (result.stage # "NONE" => result'.stage # "NONE")
        /\ (~sinkUsable' => result'.stage # "NONE")
    BY <1>0, <1>16, RememberErrorKeeps DEF CloseSink
  <2> QED
    BY <1>0, <1>16, <2>1 DEF CloseSink
<1>17. CASE Report
  BY <1>0, <1>a, <1>17 DEF Report
<1>18. CASE FinishSignal
  BY <1>0, <1>a, <1>18 DEF FinishSignal
<1>19. CASE FinishJoin
  BY <1>0, <1>a, <1>19 DEF FinishJoin
<1>20. CASE UNCHANGED vars
  BY <1>0, <1>a, <1>20 DEF vars
<1> QED
  BY <1>1, <1>2, <1>3, <1>4, <1>5, <1>6, <1>7, <1>8, <1>9, <1>10,
     <1>11, <1>12, <1>13, <1>14, <1>15, <1>16, <1>17, <1>18, <1>19, <1>20
  DEF Next, Producer, Logger, Finished

\* A finished run with status OK went through the logger thread's exit.
LEMMA FinishStep == LoggerInv /\ [Next]_vars => FinishInv'
<1> SUFFICES ASSUME LoggerInv, [Next]_vars, prodPc' = "finished"
             PROVE  /\ ~run'.started /\ consPc' \in {"none", "exit"}
                    /\ run'.status = "OK" => consPc' = "exit" /\ ~result'.incomplete
  BY DEF FinishInv
<1>0. /\ run \in RunType /\ prodPc \in ProdPcs /\ consPc \in ConsPcs /\ FinishInv
      /\ (run.status = "OK" /\ prodPc # "setup" => consPc # "none")
      /\ (consPc # "none" /\ prodPc # "finished" => run.started)
  BY DEF LoggerInv, TypeOK, ProducerInv, ConsumerInv
<1>1. CASE FinishJoin
  BY <1>0, <1>1 DEF FinishJoin, RunType, consVars
<1>2. CASE prodPc = "finished"
  <2>1. consPc \in {"none", "exit"} /\ UNCHANGED <<run, consPc, result>>
    BY <1>0, <1>2
    DEF FinishInv, Next, Producer, Logger, Finished, vars, prodVars, consVars, ringVars,
        RunLoggingStart, PublishIgnored, PublishReserve, PublishWrite, PublishStoreHead,
        PublishCount, ProducerDone, OpenSink, WriteHeader, PopLoadHead, PopReadSlot,
        PopStoreTail, PersistSample, PollProducerDone, FlushSink, CloseSink, Report,
        FinishSignal, FinishJoin
  <2> QED
    BY <1>0, <1>2, <2>1 DEF FinishInv
<1> QED
  BY <1>1, <1>2
  DEF Next, Producer, Logger, Finished, vars, prodVars, consVars, ringVars,
      RunLoggingStart, PublishIgnored, PublishReserve, PublishWrite, PublishStoreHead,
      PublishCount, ProducerDone, OpenSink, WriteHeader, PopLoadHead, PopReadSlot,
      PopStoreTail, PersistSample, PollProducerDone, FlushSink, CloseSink, Report,
      FinishSignal

\* The invariant holds before the run.
LEMMA InvInit == Init /\ TypeOK => LoggerInv
<1> SUFFICES ASSUME Init, TypeOK PROVE LoggerInv
  OBVIOUS
<1>1. RingInv
  BY LoggerAssumption DEF Init, RingInv, Dist, Slots
<1>2. ProducerInv /\ ConsumerInv
  BY DEF Init, ProducerInv, ConsumerInv
<1>3. CountInv
  BY DEF Init, CountInv, B2N
<1>4. FileInv /\ FinishInv
  BY DEF Init, FileInv, FileIsPrefix, FinishInv
<1> QED
  BY <1>1, <1>2, <1>3, <1>4 DEF LoggerInv

\* The inductive invariant holds in every reachable state.
THEOREM LoggerInvariant == Spec => []LoggerInv
<1>1. LoggerInv /\ TypeOK' /\ [Next]_vars => LoggerInv'
  BY RingStep, ProducerStep, ConsumerStep, CountStep, FileStep, FinishStep DEF LoggerInv
<1> QED
  BY <1>1, InvInit, LoggerTyping, PTL DEF Spec

\* The producer and the logger thread never touch the same slot together.
THEOREM LoggerNoSlotRace == Spec => []NoSlotRace
<1>1. LoggerInv => NoSlotRace
  BY DEF LoggerInv, ConsumerInv, NoSlotRace
<1> QED
  BY <1>1, LoggerInvariant, PTL

\* The file is a prefix of the samples that entered the ring, in their order.
THEOREM LoggerFileIsPrefix == Spec => []FileIsPrefix
<1>1. LoggerInv => FileIsPrefix
  BY DEF LoggerInv, FileInv
<1> QED
  BY <1>1, LoggerInvariant, PTL

\* At the exit of the logger thread every offered sample is accounted for once.
THEOREM LoggerExitAccounting == Spec => []ExitAccounting
<1>1. LoggerInv => ExitAccounting
  BY DEF LoggerInv, ConsumerInv, CountInv, ExitAccounting
<1> QED
  BY <1>1, LoggerInvariant, PTL

\* A run reported OK has all its samples in the file, numbered without a gap.
THEOREM LoggerOkMeansComplete == Spec => []OkMeansComplete
<1>1. LoggerInv => OkMeansComplete
  <2> SUFFICES ASSUME LoggerInv, prodPc = "finished", run.status = "OK"
               PROVE  Len(file) = offered /\ \A i \in 1 .. Len(file) : file[i] = i
    BY DEF OkMeansComplete
  <2>0. /\ Len(file) \in Nat /\ Len(published) \in Nat /\ offered \in Nat
        /\ saturationDrops \in Nat /\ result.persisted \in Nat /\ result.discarded \in Nat
    BY ResultFields DEF LoggerInv, TypeOK
  <2>1. consPc = "exit" /\ result.discarded = 0
    BY DEF LoggerInv, FinishInv, FileInv
  <2>2. Len(file) = offered
    BY <2>0, <2>1 DEF LoggerInv, CountInv
  <2>3. Len(published) + saturationDrops = offered /\ Len(file) <= Len(published)
    BY <2>0, <2>1 DEF LoggerInv, CountInv, FileInv, FileIsPrefix, B2N
  <2>4. saturationDrops = 0 /\ Len(file) = Len(published)
    BY <2>0, <2>2, <2>3
  <2> QED
    BY <2>2, <2>4 DEF LoggerInv, FileInv, FileIsPrefix
<1> QED
  BY <1>1, LoggerInvariant, PTL

-----------------------------------------------------------------------------
(* The refinement of LogStream.  The window of the ring, with the sample   *)
(* the logger thread has in hand, is the buffer of the abstract stream.    *)

\* What the verdict of the run rests on: a log that was refused has no logger
\* thread, an error is remembered exactly when one happened, and the sink is
\* given up at the first one.
VerdictInv ==
    /\ consPc # "none" => run.status \in {"OK", "INCOMPLETE"}
    /\ consPc = "none" /\ prodPc # "setup" => run.status \in {"DESCRIPTOR", "START"}
    /\ run.status = "INCOMPLETE" => prodPc = "finished"
    /\ consPc # "exit" /\ result.incomplete => result.stage # "NONE"
    /\ consPc = "exit" /\ result.incomplete => result.discarded # 0 \/ result.stage # "NONE"
    /\ sinkUsable /\ result.stage # "NONE" => consPc \in {"close", "report", "exit"}

\* What the consumer has reported stays true.
LEMMA VerdictStep == LoggerInv /\ VerdictInv /\ [Next]_vars => VerdictInv'
<1> SUFFICES ASSUME LoggerInv, VerdictInv, [Next]_vars PROVE VerdictInv'
  OBVIOUS
<1>0. /\ result \in ResultType /\ run \in RunType
      /\ result.discarded \in Nat /\ result.stage \in Stages
      /\ saturationDrops \in Nat /\ sinkUsable \in BOOLEAN
  BY ResultFields DEF LoggerInv, TypeOK
<1> USE DEF VerdictInv, vars, prodVars, consVars
<1>1. CASE RunLoggingStart
  <2>1. run.status = "OK"
    BY <1>1 DEF RunLoggingStart, LoggerInv, ProducerInv
  <2>2. \/ run'.status = "OK" /\ consPc' = "open"
        \/ run'.status \in {"DESCRIPTOR", "START"} /\ consPc' = consPc
    <3>1. CASE run' = [run EXCEPT !.started = TRUE] /\ consPc' = "open"
      <4>1. run'.status = run.status
        BY <1>0, <3>1 DEF RunType
      <4> QED BY <2>1, <3>1, <4>1
    <3>2. CASE \E s \in {"DESCRIPTOR", "START"} :
                 run' = [run EXCEPT !.status = s, !.incomplete = TRUE] /\ consPc' = consPc
      <4>1. PICK s \in {"DESCRIPTOR", "START"} :
                 run' = [run EXCEPT !.status = s, !.incomplete = TRUE] /\ consPc' = consPc
        BY <3>2
      <4>2. run'.status = s
        BY <1>0, <4>1 DEF RunType
      <4> QED BY <4>1, <4>2
    <3> QED BY <1>1, <3>1, <3>2 DEF RunLoggingStart
  <2>3. consPc = "none"
    BY <1>1 DEF RunLoggingStart, LoggerInv, ConsumerInv, ProducerInv
  <2> QED BY <1>1, <2>1, <2>2, <2>3 DEF RunLoggingStart
<1>2. CASE PublishIgnored \/ PublishReserve \/ PublishWrite \/ PublishStoreHead
           \/ PublishCount \/ ProducerDone \/ FinishSignal
  BY <1>2 DEF PublishIgnored, PublishReserve, PublishWrite, PublishStoreHead,
              PublishCount, ProducerDone, FinishSignal
\* A sink call that fails.
<1>e. ASSUME NEW st \in {"OPEN", "HEADER", "RECORD", "FLUSH", "CLOSE"}
      PROVE  /\ RememberError(result, st).stage # "NONE"
             /\ RememberError(result, st).discarded = result.discarded
  BY <1>0, RememberErrorKeeps
<1>3. CASE OpenSink
  BY <1>3, <1>e DEF OpenSink
<1>4. CASE WriteHeader
  BY <1>4, <1>e DEF WriteHeader
<1>5. CASE PopLoadHead \/ PopReadSlot \/ PopStoreTail \/ PollProducerDone
  BY <1>5 DEF PopLoadHead, PopReadSlot, PopStoreTail, PollProducerDone
<1>6. CASE PersistSample
  <2>1. CASE UNCHANGED sinkUsable /\ result'.stage = result.stage
             /\ (result'.incomplete <=> result.incomplete)
    BY <1>6, <2>1 DEF PersistSample
  <2>2. CASE sinkUsable' = FALSE /\ result'.stage # "NONE"
    BY <1>6, <2>2 DEF PersistSample
  <2>3. RememberError(result, "RECORD") \in ResultType
        /\ RememberError(result, "RECORD").stage # "NONE"
    BY <1>0, RememberErrorKeeps
  <2>4. [RememberError(result, "RECORD") EXCEPT !.discarded = @ + 1].stage # "NONE"
    BY <2>3 DEF ResultType
  <2>5. /\ [result EXCEPT !.persisted = @ + 1, !.last = sample].stage = result.stage
        /\ [result EXCEPT !.persisted = @ + 1, !.last = sample].incomplete = result.incomplete
        /\ [result EXCEPT !.discarded = @ + 1].stage = result.stage
        /\ [result EXCEPT !.discarded = @ + 1].incomplete = result.incomplete
    BY <1>0 DEF ResultType
  <2> QED BY <1>6, <2>1, <2>2, <2>4, <2>5 DEF PersistSample
<1>7. CASE FlushSink
  BY <1>7, <1>e DEF FlushSink
<1>8. CASE CloseSink
  BY <1>8, <1>e DEF CloseSink
<1>9. CASE Report
  <2>1. /\ result'.stage = result.stage
        /\ result'.discarded = result.discarded + saturationDrops
        /\ result'.incomplete => result'.discarded # 0 \/ result.incomplete
    BY <1>0, <1>9 DEF Report, ResultType
  <2> QED BY <1>0, <1>9, <2>1 DEF Report
<1>10. CASE FinishJoin
  <2>1. run.started \/ run' = run
    BY <1>10 DEF FinishJoin
  <2>2. run.started => consPc = "exit" /\ run.status = "OK"
                       /\ run'.status \in {"OK", "INCOMPLETE"}
    BY <1>0, <1>10 DEF FinishJoin, LoggerInv, ConsumerInv
  <2> QED BY <1>10, <2>1, <2>2 DEF FinishJoin
<1>11. CASE UNCHANGED vars
  BY <1>11
<1> QED
  BY <1>1, <1>2, <1>3, <1>4, <1>5, <1>6, <1>7, <1>8, <1>9, <1>10, <1>11
  DEF Next, Producer, Logger, Finished

\* A window that loses its oldest element, or is extended by a new one.
LEMMA WindowSteps ==
    ASSUME NEW s \in Seq(Nat), NEW a \in 1 .. Len(s) + 1, NEW e \in Nat
    PROVE  /\ Len(SubSeq(s, a, Len(s))) = Len(s) - a + 1
           /\ SubSeq(Append(s, e), a, Len(s) + 1) = Append(SubSeq(s, a, Len(s)), e)
           /\ a <= Len(s) => /\ SubSeq(s, a, Len(s)) # <<>>
                             /\ Head(SubSeq(s, a, Len(s))) = s[a]
                             /\ Tail(SubSeq(s, a, Len(s))) = SubSeq(s, a + 1, Len(s))
<1>1. Len(SubSeq(s, a, Len(s))) = Len(s) - a + 1
  OBVIOUS
<1>2. SubSeq(Append(s, e), a, Len(s) + 1) = Append(SubSeq(s, a, Len(s)), e)
  OBVIOUS
<1>3. ASSUME a <= Len(s)
      PROVE  /\ SubSeq(s, a, Len(s)) # <<>>
             /\ Head(SubSeq(s, a, Len(s))) = s[a]
             /\ Tail(SubSeq(s, a, Len(s))) = SubSeq(s, a + 1, Len(s))
  <2>1. a \in 1 .. Len(s) /\ Len(s) \in a .. Len(s)
    BY <1>3
  <2>2. /\ Head(SubSeq(s, a, Len(s))) = s[a]
        /\ Tail(SubSeq(s, a, Len(s))) = SubSeq(s, a + 1, Len(s))
    BY <2>1, HeadTailOfSubSeq
  <2>3. SubSeq(s, a, Len(s)) # <<>>
    <3>1. Len(SubSeq(s, a, Len(s))) # 0
      BY <1>1, <1>3
    <3>2. Len(<<>>) = 0
      OBVIOUS
    <3> QED BY <3>1, <3>2, Zenon
  <2> QED BY <2>2, <2>3
<1> QED BY <1>1, <1>2, <1>3

\* The invariants as the refinement needs them, in one place.
LEMMA StreamFacts ==
    ASSUME LoggerInv, VerdictInv
    PROVE  /\ published \in Seq(Nat) /\ Len(published) \in Nat /\ offered \in Nat
           /\ taken \in Nat /\ taken + 1 - InHand \in 1 .. Len(published) + 1
           /\ Len(published) - taken = Dist /\ Dist \in Nat /\ Dist < Capacity
           /\ result \in ResultType /\ saturationDrops \in Nat
           /\ consPc = "persist" => InHand = 1
           /\ consPc # "persist" => InHand = 0
           /\ run.status \in {"OK", "DESCRIPTOR", "START", "INCOMPLETE"}
           /\ prodPc # "finished" /\ consPc # "none" => run.status = "OK" /\ run.started
           /\ consPc \notin {"none", "exit"} => prodPc # "finished"
<1>1. /\ published \in Seq(Nat) /\ offered \in Nat /\ taken \in Nat
      /\ result \in ResultType /\ saturationDrops \in Nat /\ run \in RunType
      /\ head \in Slots /\ tail \in Slots
  BY DEF LoggerInv, TypeOK
<1>2. Len(published) - taken = Dist /\ Dist \in Nat /\ Dist < Capacity
  BY <1>1, FullMeansDistance DEF LoggerInv, RingInv
<1>3. consPc = "persist" => taken > 0
  BY DEF LoggerInv, ConsumerInv
<1>4. (consPc = "persist" => InHand = 1) /\ (consPc # "persist" => InHand = 0)
  BY DEF InHand
<1>5. Len(published) \in Nat
  BY <1>1
<1>6. taken + 1 - InHand \in 1 .. Len(published) + 1
  BY <1>1, <1>2, <1>3, <1>4, <1>5
<1>7. run.status \in {"OK", "DESCRIPTOR", "START", "INCOMPLETE"}
  BY <1>1 DEF RunType
<1>8. prodPc # "finished" /\ consPc # "none" => run.status = "OK" /\ run.started
  BY DEF LoggerInv, ConsumerInv, VerdictInv
<1>9. consPc \notin {"none", "exit"} => prodPc # "finished"
  BY DEF LoggerInv, FinishInv
<1> QED BY <1>1, <1>2, <1>4, <1>5, <1>6, <1>7, <1>8, <1>9

\* Every step of the two threads is a step of LogStream, or none.
LEMMA StreamStep == LoggerInv /\ VerdictInv /\ [Next]_vars => [Stream!Next]_Stream!vars
<1> SUFFICES ASSUME LoggerInv, VerdictInv, [Next]_vars
             PROVE  Stream!Next \/ UNCHANGED Stream!vars
  OBVIOUS
<1> DEFINE off == IF prodPc \in {"write", "store"} THEN offered - 1 ELSE offered
           pend == SubSeq(published, taken + 1 - InHand, Len(published))
           gone == IF consPc = "exit" THEN result.discarded
                   ELSE result.discarded + saturationDrops
           fail == result.stage # "NONE"
           verd == IF run.status \in {"DESCRIPTOR", "START"} THEN "refused"
                   ELSE IF prodPc # "finished" THEN "open"
                   ELSE IF run.status = "OK" THEN "complete" ELSE "incomplete"
<1>0. /\ published \in Seq(Nat) /\ Len(published) \in Nat /\ offered \in Nat
      /\ taken \in Nat /\ taken + 1 - InHand \in 1 .. Len(published) + 1
      /\ Len(published) - taken = Dist /\ Dist \in Nat /\ Dist < Capacity
      /\ result \in ResultType /\ saturationDrops \in Nat
      /\ consPc = "persist" => InHand = 1
      /\ consPc # "persist" => InHand = 0
      /\ run.status \in {"OK", "DESCRIPTOR", "START", "INCOMPLETE"}
      /\ prodPc # "finished" /\ consPc # "none" => run.status = "OK" /\ run.started
      /\ consPc \notin {"none", "exit"} => prodPc # "finished"
  BY StreamFacts
<1>h. InHand' = IF consPc' = "persist" THEN 1 ELSE 0
  BY DEF InHand
<1>s. ASSUME UNCHANGED <<off, pend, file, gone, fail, verd>> PROVE UNCHANGED Stream!vars
  BY <1>s DEF Stream!vars
<1>1. CASE RunLoggingStart
  <2>0. run.status = "OK" /\ offered = 0 /\ consPc = "none" /\ prodPc = "setup"
    BY <1>1 DEF RunLoggingStart, LoggerInv, ProducerInv, ConsumerInv
  <2>1. UNCHANGED <<off, pend, file, gone, fail>>
    BY <1>0, <1>1, <1>h, <2>0 DEF RunLoggingStart, ringVars
  <2>2. CASE run' = [run EXCEPT !.started = TRUE]
    <3>1. run'.status = run.status
      BY <2>2 DEF LoggerInv, TypeOK, RunType
    <3>2. UNCHANGED verd
      BY <1>1, <2>0, <3>1 DEF RunLoggingStart
    <3> QED BY <1>s, <2>1, <3>2
  <2>3. CASE \E s \in {"DESCRIPTOR", "START"} :
                run' = [run EXCEPT !.status = s, !.incomplete = TRUE]
    <3>1. PICK s \in {"DESCRIPTOR", "START"} :
                run' = [run EXCEPT !.status = s, !.incomplete = TRUE]
      BY <2>3
    <3>2. run'.status = s
      BY <3>1 DEF LoggerInv, TypeOK, RunType
    <3>3. verd = "open" /\ verd' = "refused" /\ off = 0
      BY <2>0, <3>2
    <3>4. Stream!Refuse
      BY <2>1, <3>3 DEF Stream!Refuse
    <3> QED BY <3>4 DEF Stream!Next
  <2> QED BY <1>1, <2>2, <2>3 DEF RunLoggingStart
<1>2. CASE PublishIgnored
  <2>1. run.status \in {"DESCRIPTOR", "START"} /\ prodPc = "idle"
    BY <1>0, <1>2 DEF PublishIgnored, VerdictInv
  <2>2. UNCHANGED <<pend, file, gone, fail, verd>> /\ verd = "refused" /\ off' = off + 1
    BY <1>2, <1>h, <2>1 DEF PublishIgnored, consVars, InHand
  <2>3. Stream!OfferIgnored
    BY <2>2 DEF Stream!OfferIgnored
  <2> QED BY <2>3 DEF Stream!Next
\* The producer's steps of one offer: it counts where its outcome is visible.
<1>3. CASE PublishReserve
  <2>0. /\ run.status = "OK" /\ prodPc = "idle" /\ consPc # "exit"
        /\ RingFull => Dist = Capacity - 1
    BY <1>0, <1>3, FullMeansDistance
       DEF PublishReserve, LoggerInv, ConsumerInv, TypeOK
  <2>1. UNCHANGED <<pend, file, fail, verd>> /\ verd = "open"
    BY <1>3, <1>h, <2>0 DEF PublishReserve, consVars, InHand
  <2>2. CASE RingFull
    <3>0. result.discarded \in Nat
      BY <1>0, ResultFields
    <3>a. /\ offered' = offered + 1 /\ saturationDrops' = saturationDrops + 1
          /\ UNCHANGED <<prodPc, consPc, result>>
      BY <1>3, <2>2 DEF PublishReserve, consVars
    <3>b. off' = off + 1
      BY <2>0, <3>a
    <3>c. gone' = gone + 1
      <4>1. consPc # "exit" /\ consPc' # "exit" /\ result'.discarded = result.discarded
        BY <2>0, <3>a
      <4>2. gone = result.discarded + saturationDrops
            /\ gone' = result.discarded + (saturationDrops + 1)
        BY <3>a, <4>1
      <4>3. saturationDrops \in Nat
        BY <1>0
      <4> HIDE DEF gone
      <4> QED BY <3>0, <4>2, <4>3
    <3>1. off' = off + 1 /\ gone' = gone + 1
      BY <3>b, <3>c
    <3>2. Len(pend) >= Capacity - 1
      <4>1. Len(pend) = Len(published) - (taken + 1 - InHand) + 1
        BY <1>0, WindowSteps
      <4>2. InHand \in {0, 1} /\ Capacity \in Nat
        BY LoggerAssumption DEF InHand
      <4> QED BY <1>0, <2>0, <2>2, <4>1, <4>2
    <3>3. Stream!OfferDropped
      BY <2>1, <3>1, <3>2 DEF Stream!OfferDropped
    <3> QED BY <3>3 DEF Stream!Next
  <2>3. CASE ~RingFull
    <3>1. UNCHANGED <<off, gone>>
      BY <1>0, <1>3, <2>0, <2>3 DEF PublishReserve, consVars
    <3> QED BY <1>s, <2>1, <3>1
  <2> QED BY <2>2, <2>3
<1>4. CASE PublishWrite
  <2>1. UNCHANGED <<off, pend, file, gone, fail, verd>>
    BY <1>4 DEF PublishWrite, consVars, InHand
  <2> QED BY <1>s, <2>1
<1>5. CASE PublishStoreHead
  <2>0. /\ run.status = "OK" /\ prodPc = "store" /\ Dist < Capacity - 1
    BY <1>0, <1>5 DEF PublishStoreHead, LoggerInv, ProducerInv, ConsumerInv
  <2>1. UNCHANGED <<file, gone, fail, verd>> /\ verd = "open"
    BY <1>5, <2>0 DEF PublishStoreHead, consVars
  <2>2. off' = off + 1 /\ off + 1 = offered
    BY <1>0, <1>5, <2>0 DEF PublishStoreHead
  <2>3. Len(pend) <= Capacity - 1 /\ pend' = Append(pend, offered)
    <3>1. /\ Len(pend) = Len(published) - (taken + 1 - InHand) + 1
          /\ SubSeq(Append(published, offered), taken + 1 - InHand, Len(published) + 1)
               = Append(pend, offered)
      BY <1>0, WindowSteps
    <3>2. InHand \in {0, 1} /\ Capacity \in Nat /\ InHand' = InHand /\ taken' = taken
      BY <1>5, LoggerAssumption DEF InHand, PublishStoreHead, consVars
    <3>3. published' = Append(published, offered) /\ Len(published') = Len(published) + 1
      BY <1>0, <1>5 DEF PublishStoreHead
    <3>4. Len(pend) <= Capacity - 1
      BY <1>0, <2>0, <3>1, <3>2
    <3> QED BY <3>1, <3>2, <3>3, <3>4
  <2>4. Stream!OfferAccepted
    BY <2>1, <2>2, <2>3 DEF Stream!OfferAccepted
  <2> QED BY <2>4 DEF Stream!Next
<1>6. CASE PublishCount \/ ProducerDone \/ FinishSignal
  <2>1. UNCHANGED <<off, pend, file, gone, fail, verd>>
    BY <1>6 DEF PublishCount, ProducerDone, FinishSignal, consVars, InHand
  <2> QED BY <1>s, <2>1
\* A sink call that carries no sample fails, or does not.
<1>e. ASSUME UNCHANGED <<off, pend, file, gone, verd>>, verd = "open",
             UNCHANGED fail \/ fail' = TRUE
      PROVE  Stream!Next \/ UNCHANGED Stream!vars
  <2>1. CASE UNCHANGED fail
    BY <1>e, <1>s, <2>1
  <2>2. CASE fail' = TRUE
    <3>1. Stream!SinkFailure
      BY <1>e, <2>2 DEF Stream!SinkFailure
    <3> QED BY <3>1 DEF Stream!Next
  <2> QED BY <1>e, <2>1, <2>2
<1>r. ASSUME NEW st \in {"OPEN", "HEADER", "RECORD", "FLUSH", "CLOSE"}
      PROVE  /\ RememberError(result, st).stage # "NONE"
             /\ RememberError(result, st).discarded = result.discarded
  BY <1>0, RememberErrorKeeps
<1>7. CASE OpenSink \/ WriteHeader \/ FlushSink \/ CloseSink
  <2>0. /\ consPc \notin {"none", "exit", "persist"} /\ consPc' \notin {"exit", "persist"}
        /\ UNCHANGED <<prodVars, ringVars, run, file, taken>>
    BY <1>7 DEF OpenSink, WriteHeader, FlushSink, CloseSink
  <2>1. result'.discarded = result.discarded /\ (UNCHANGED fail \/ fail' = TRUE)
    BY <1>7, <1>r DEF OpenSink, WriteHeader, FlushSink, CloseSink
  <2>2. UNCHANGED <<off, pend, file, gone, verd>> /\ verd = "open"
    BY <1>0, <1>h, <2>0, <2>1 DEF prodVars
  <2> QED BY <1>e, <2>1, <2>2
<1>8. CASE PopLoadHead \/ PopReadSlot \/ PollProducerDone
  <2>1. /\ consPc \notin {"exit", "persist"} /\ consPc' \notin {"exit", "persist"}
        /\ UNCHANGED <<prodVars, run, result, file, taken>>
    BY <1>8 DEF PopLoadHead, PopReadSlot, PollProducerDone
  <2>2. UNCHANGED <<off, pend, file, gone, fail, verd>>
    BY <1>0, <1>h, <2>1 DEF prodVars
  <2> QED BY <1>s, <2>2
\* The sample moves from the ring into the logger thread's hand.
<1>9. CASE PopStoreTail
  <2>1. /\ consPc = "release" /\ consPc' = "persist" /\ taken' = taken + 1
        /\ UNCHANGED <<prodVars, run, result, file>>
    BY <1>9 DEF PopStoreTail
  <2>2. taken' + 1 - InHand' = taken + 1 - InHand
    BY <1>0, <1>h, <2>1
  <2>3. UNCHANGED <<off, pend, file, gone, fail, verd>>
    BY <2>1, <2>2 DEF prodVars
  <2> QED BY <1>s, <2>3
<1>10. CASE PersistSample
  <2>0. /\ consPc = "persist" /\ consPc' = "pop"
        /\ UNCHANGED <<taken, prodVars, run>>
        /\ taken > 0 /\ sample = published[taken]
    BY <1>10 DEF PersistSample, LoggerInv, ConsumerInv
  <2>1. UNCHANGED <<off, verd>> /\ verd = "open"
    BY <1>0, <2>0 DEF prodVars
  <2>2. pend # <<>> /\ Head(pend) = sample /\ pend' = Tail(pend)
    <3>1. /\ taken + 1 - InHand = taken /\ taken' + 1 - InHand' = taken + 1
          /\ taken \in 1 .. Len(published) + 1 /\ taken <= Len(published)
          /\ published' = published
      BY <1>0, <1>h, <2>0 DEF prodVars
    <3>2. /\ SubSeq(published, taken, Len(published)) # <<>>
          /\ Head(SubSeq(published, taken, Len(published))) = published[taken]
          /\ Tail(SubSeq(published, taken, Len(published)))
               = SubSeq(published, taken + 1, Len(published))
      BY <1>0, <3>1, WindowSteps
    <3> QED BY <2>0, <3>1, <3>2
  <2>3. CASE sinkUsable /\ file' = Append(file, sample)
             /\ result' = [result EXCEPT !.persisted = @ + 1, !.last = sample]
    <3>1. result'.discarded = result.discarded /\ result'.stage = result.stage
      BY <1>0, <2>3 DEF ResultType
    <3>2. UNCHANGED gone /\ ~fail /\ UNCHANGED fail
      BY <2>0, <2>3, <3>1 DEF VerdictInv, prodVars
    <3>3. Stream!Store
      BY <2>1, <2>2, <2>3, <3>2 DEF Stream!Store
    <3> QED BY <3>3 DEF Stream!Next
  <2>d. ASSUME result'.discarded = result.discarded + 1, result'.stage # "NONE", UNCHANGED file
        PROVE  Stream!Next
    <3>1. gone' = gone + 1 /\ fail' = TRUE
      BY <1>0, <2>0, <2>d, ResultFields DEF prodVars
    <3>2. Stream!Discard
      BY <2>1, <2>2, <2>d, <3>1 DEF Stream!Discard
    <3> QED BY <3>2 DEF Stream!Next
  <2>4. CASE /\ result' = [RememberError(result, "RECORD") EXCEPT !.discarded = @ + 1]
             /\ UNCHANGED file
    <3>1. RememberError(result, "RECORD") \in ResultType
      BY <1>0, RememberErrorKeeps
    <3>2. result'.discarded = RememberError(result, "RECORD").discarded + 1
          /\ result'.stage = RememberError(result, "RECORD").stage
      BY <2>4, <3>1 DEF ResultType
    <3> QED BY <1>r, <2>d, <2>4, <3>2
  <2>5. CASE /\ ~sinkUsable /\ result' = [result EXCEPT !.discarded = @ + 1]
             /\ UNCHANGED file
    <3>1. result'.discarded = result.discarded + 1 /\ result'.stage = result.stage
      BY <1>0, <2>5 DEF ResultType
    <3>2. result.stage # "NONE"
      BY <2>5 DEF LoggerInv, FileInv
    <3> QED BY <2>d, <2>5, <3>1, <3>2
  <2> QED BY <1>10, <2>3, <2>4, <2>5 DEF PersistSample
\* The counters are merged, and with them the samples lost.
<1>11. CASE Report
  <2>1. /\ result'.stage = result.stage
        /\ result'.discarded = result.discarded + saturationDrops
    BY <1>0, <1>11 DEF Report, ResultType
  <2>2. UNCHANGED <<off, pend, file, gone, fail, verd>>
    BY <1>0, <1>11, <1>h, <2>1 DEF Report, prodVars
  <2> QED BY <1>s, <2>2
<1>12. CASE FinishJoin
  <2>0. UNCHANGED <<off, pend, file, gone, fail>>
    BY <1>12 DEF FinishJoin, consVars, InHand
  <2>1. CASE ~run.started
    <3>1. run' = run /\ run.status \in {"DESCRIPTOR", "START"}
      BY <1>0, <1>12, <2>1 DEF FinishJoin, VerdictInv
    <3>2. UNCHANGED verd
      BY <3>1
    <3> QED BY <1>s, <2>0, <3>2
  <2>2. CASE run.started
    <3>1. /\ consPc = "exit" /\ run.status = "OK" /\ prodPc = "joining"
          /\ head = tail
      BY <1>0, <1>12, <2>2 DEF FinishJoin, LoggerInv, ConsumerInv
    <3>2. pend = <<>>
      <4>1. Dist = 0 /\ InHand = 0
        BY <1>0, <3>1, FullMeansDistance DEF LoggerInv, TypeOK
      <4>2. taken + 1 - InHand = Len(published) + 1
        BY <1>0, <4>1
      <4>3. SubSeq(published, Len(published) + 1, Len(published)) = <<>>
        BY <1>0, SubSeqEmpty
      <4> QED BY <4>2, <4>3
    <3>3. run'.status = IF result.incomplete THEN "INCOMPLETE" ELSE "OK"
      BY <1>12, <2>2, <3>1 DEF FinishJoin
    <3>4. result.incomplete <=> ~(result.discarded = 0 /\ result.stage = "NONE")
      BY <3>1 DEF LoggerInv, FileInv, VerdictInv
    <3>5. verd = "open" /\ verd' = IF gone = 0 /\ ~fail THEN "complete" ELSE "incomplete"
      BY <1>12, <3>1, <3>3, <3>4 DEF FinishJoin
    <3>6. Stream!Close
      BY <2>0, <3>2, <3>5 DEF Stream!Close
    <3> QED BY <3>6 DEF Stream!Next
  <2> QED BY <2>1, <2>2
<1>13. CASE UNCHANGED vars
  <2>1. UNCHANGED <<off, pend, file, gone, fail, verd>>
    BY <1>13 DEF vars, prodVars, consVars, InHand
  <2> QED BY <1>s, <2>1
<1> QED
  BY <1>1, <1>2, <1>3, <1>4, <1>5, <1>6, <1>7, <1>8, <1>9, <1>10, <1>11, <1>12, <1>13
  DEF Next, Producer, Logger, Finished

\* The ring, its two threads and the counters of binary_logger.c keep the
\* promise of LogStream, for every capacity: a bounded buffer in order, samples
\* stored until the sink fails, and an honest verdict.
THEOREM LoggerImplementsLogStream == Spec => ImplementsLogStream
<1>1. Init => Stream!Init
  <2> SUFFICES ASSUME Init PROVE Stream!Init
    OBVIOUS
  <2>1. SubSeq(published, taken + 1 - InHand, Len(published)) = <<>>
    <3>1. InHand = 0 /\ Len(published) = 0
      BY DEF Init, InHand
    <3>2. SubSeq(published, 1, 0) = <<>>
      BY SubSeqEmpty
    <3> QED BY <3>1, <3>2 DEF Init
  <2> QED BY <2>1 DEF Init, Stream!Init
<1>2. Init => VerdictInv
  BY DEF Init, VerdictInv
<1>3. LoggerInv /\ VerdictInv /\ [Next]_vars => VerdictInv'
  BY VerdictStep
<1>4. LoggerInv /\ VerdictInv /\ [Next]_vars => [Stream!Next]_Stream!vars
  BY StreamStep
<1> QED BY <1>1, <1>2, <1>3, <1>4, LoggerInvariant, PTL
        DEF Spec, ImplementsLogStream, Stream!Spec
=============================================================================
