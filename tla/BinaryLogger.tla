---------------------------- MODULE BinaryLogger ----------------------------
(***************************************************************************)
(* The run log of microHiL: src/binary_logger.c under src/run_logging.c.   *)
(*                                                                         *)
(* The simulation thread offers one sample per step to a single-producer,  *)
(* single-consumer ring and never waits.  A logger thread takes the        *)
(* samples out, writes them to a sink that may fail at any call, drains    *)
(* the ring once the producer is done and leaves a report behind, which    *)
(* RunLoggingFinish collects after the simulation thread was joined.       *)
(*                                                                         *)
(* Every access to a shared atomic, and every access to a ring slot, is a  *)
(* step of its own.  head is stored with release and loaded with acquire,  *)
(* tail likewise, so the interleaving of these steps is all a reader can   *)
(* see.  A sample is represented by its sequence number.                   *)
(***************************************************************************)
EXTENDS Integers, Sequences

CONSTANTS
    Capacity,    \* BINARY_LOGGER_QUEUE_CAPACITY (128); one slot stays empty
    MaxSamples   \* bound: samples offered by the simulation in one run

ASSUME LoggerAssumption ==
    /\ Capacity \in Nat \ {0, 1}
    /\ MaxSamples \in Nat

VARIABLES
    slots, head, tail,          \* the ring of binary_logger_t
    accepted, saturationDrops,  \* atomic counters written by the producer
    producerDone,               \* atomic flag
    prodPc, offered,            \* simulation thread: step, samples offered
    consPc, sample, draining,   \* logger thread: step and local variables
    sinkOpen, sinkUsable,
    result,                     \* binary_logger_result_t
    run,                        \* run_logging_result_t: [started, status, incomplete]
    file,                       \* records the sink has written
    published, taken            \* history: samples that entered the ring, and
                                \* how many of them were removed from it

prodVars == <<prodPc, offered, accepted, saturationDrops, published>>
consVars == <<consPc, sample, draining, sinkOpen, sinkUsable, result, file, taken>>
ringVars == <<slots, head, tail>>
vars == <<prodVars, consVars, ringVars, producerDone, run>>

Slots  == 0 .. Capacity - 1
NextIndex_NoWrap(i) == i + 1                  \* a variant: the modulo is forgotten
NextIndex(i) == (i + 1) % Capacity
Stages == {"NONE", "OPEN", "HEADER", "RECORD", "FLUSH", "CLOSE"}

Init ==
    /\ slots = [i \in Slots |-> 0] /\ head = 0 /\ tail = 0
    /\ accepted = 0 /\ saturationDrops = 0 /\ producerDone = FALSE
    /\ prodPc = "setup" /\ offered = 0
    /\ consPc = "none" /\ sample = 0 /\ draining = FALSE
    /\ sinkOpen = FALSE /\ sinkUsable = TRUE
    /\ result = [accepted |-> 0, persisted |-> 0, discarded |-> 0, last |-> 0,
                 incomplete |-> FALSE, stage |-> "NONE"]
    /\ run = [started |-> FALSE, status |-> "OK", incomplete |-> FALSE]
    /\ file = <<>> /\ published = <<>> /\ taken = 0

-----------------------------------------------------------------------------
(* RunLoggingStart, called with logging enabled before the simulation      *)
(* thread is created.  A refused descriptor, a missing sink or a failed    *)
(* pthread_create leaves a run without a logger; the run itself goes on.   *)

RunLoggingStart ==
    /\ prodPc = "setup"
    /\ prodPc' = "idle"
    /\ \/ /\ run' = [run EXCEPT !.started = TRUE]
          /\ consPc' = "open"
       \/ /\ \E s \in {"DESCRIPTOR", "START"} :
                run' = [run EXCEPT !.status = s, !.incomplete = TRUE]
          /\ UNCHANGED consPc
    /\ UNCHANGED <<offered, accepted, saturationDrops, published, sample, draining,
                   sinkOpen, sinkUsable, result, file, taken, ringVars, producerDone>>

-----------------------------------------------------------------------------
(* Producer: BinaryLoggerPublish, one call per simulation step.            *)

\* A run without a logger: RunLoggingPublish returns false at once.
PublishIgnored ==
    /\ prodPc = "idle" /\ ~run.started /\ offered < MaxSamples
    /\ offered' = offered + 1
    /\ UNCHANGED <<prodPc, accepted, saturationDrops, published, consVars, ringVars,
                   producerDone, run>>

RingFull_Never == FALSE                       \* a variant: the check is dropped
RingFull == NextIndex(head) = tail

\* Load tail; count a saturation drop when the ring is full.
PublishReserve ==
    /\ prodPc = "idle" /\ run.started /\ ~producerDone /\ offered < MaxSamples
    /\ offered' = offered + 1
    /\ IF RingFull
       THEN saturationDrops' = saturationDrops + 1 /\ UNCHANGED prodPc
       ELSE prodPc' = "write" /\ UNCHANGED saturationDrops
    /\ UNCHANGED <<accepted, published, consVars, ringVars, producerDone, run>>

PublishWrite ==
    /\ prodPc = "write"
    /\ slots' = [slots EXCEPT ![head] = offered]
    /\ prodPc' = "store"
    /\ UNCHANGED <<offered, accepted, saturationDrops, published, consVars, head, tail,
                   producerDone, run>>

PublishStoreHead ==
    /\ prodPc = "store"
    /\ head' = NextIndex(head)
    /\ published' = Append(published, offered)
    /\ prodPc' = "count"
    /\ UNCHANGED <<offered, accepted, saturationDrops, consVars, slots, tail,
                   producerDone, run>>

\* The counter follows the store: the sample is visible before it is counted.
PublishCount ==
    /\ prodPc = "count"
    /\ accepted' = accepted + 1
    /\ prodPc' = "idle"
    /\ UNCHANGED <<offered, saturationDrops, published, consVars, ringVars,
                   producerDone, run>>

\* The simulation thread ends: RunLoggingProducerDone, at any step count
\* (duration reached, stop request, error).
ProducerDone ==
    /\ prodPc = "idle"
    /\ producerDone' = (run.started \/ producerDone)
    /\ prodPc' = "ended"
    /\ UNCHANGED <<offered, accepted, saturationDrops, published, consVars, ringVars, run>>

-----------------------------------------------------------------------------
(* Consumer: BinaryLoggerThread.                                           *)

\* RememberError: the first error is kept, later ones are ignored.
RememberError(r, stage) ==
    IF r.stage = "NONE" THEN [r EXCEPT !.incomplete = TRUE, !.stage = stage] ELSE r

OpenSink ==
    /\ consPc = "open"
    /\ \/ consPc' = "header" /\ sinkOpen' = TRUE /\ UNCHANGED <<result, sinkUsable>>
       \/ /\ consPc' = "pop" /\ sinkUsable' = FALSE
          /\ result' = RememberError(result, "OPEN")
          /\ UNCHANGED sinkOpen
    /\ UNCHANGED <<sample, draining, file, taken, prodVars, ringVars, producerDone, run>>

WriteHeader ==
    /\ consPc = "header"
    /\ consPc' = "pop"
    /\ \/ UNCHANGED <<result, sinkUsable>>
       \/ result' = RememberError(result, "HEADER") /\ sinkUsable' = FALSE
    /\ UNCHANGED <<sample, draining, sinkOpen, file, taken, prodVars, ringVars,
                   producerDone, run>>

\* PopSample, first half: load head.  An empty ring ends the inner loop, or
\* the thread when producer_done had been seen before this load.
PopLoadHead ==
    /\ consPc = "pop"
    /\ consPc' = IF tail # head THEN "read"
                 ELSE IF ~draining THEN "poll"
                 ELSE IF sinkOpen THEN "flush" ELSE "report"
    /\ UNCHANGED <<sample, draining, sinkOpen, sinkUsable, result, file, taken,
                   prodVars, ringVars, producerDone, run>>

PopReadSlot ==
    /\ consPc = "read"
    /\ sample' = slots[tail]
    /\ consPc' = "release"
    /\ UNCHANGED <<draining, sinkOpen, sinkUsable, result, file, taken,
                   prodVars, ringVars, producerDone, run>>

PopStoreTail ==
    /\ consPc = "release"
    /\ tail' = NextIndex(tail)
    /\ taken' = taken + 1
    /\ consPc' = "persist"
    /\ UNCHANGED <<sample, draining, sinkOpen, sinkUsable, result, file,
                   prodVars, slots, head, producerDone, run>>

\* a variant: the sink is used again after a failed record
PersistSample_Retries ==
    /\ consPc = "persist"
    /\ consPc' = "pop" /\ draining' = FALSE
    /\ \/ /\ file' = Append(file, sample)
          /\ result' = [result EXCEPT !.persisted = @ + 1, !.last = sample]
       \/ /\ result' = [RememberError(result, "RECORD") EXCEPT !.discarded = @ + 1]
          /\ UNCHANGED file
    /\ UNCHANGED <<sample, sinkOpen, sinkUsable, taken, prodVars, ringVars,
                   producerDone, run>>

\* write_record, and the bookkeeping around it.  After a failure nothing is
\* written any more, but the ring is still emptied.
PersistSample ==
    /\ consPc = "persist"
    /\ consPc' = "pop" /\ draining' = FALSE
    /\ \/ /\ sinkUsable
          /\ file' = Append(file, sample)
          /\ result' = [result EXCEPT !.persisted = @ + 1, !.last = sample]
          /\ UNCHANGED sinkUsable
       \/ /\ sinkUsable
          /\ result' = [RememberError(result, "RECORD") EXCEPT !.discarded = @ + 1]
          /\ sinkUsable' = FALSE
          /\ UNCHANGED file
       \/ /\ ~sinkUsable
          /\ result' = [result EXCEPT !.discarded = @ + 1]
          /\ UNCHANGED <<file, sinkUsable>>
    /\ UNCHANGED <<sample, sinkOpen, taken, prodVars, ringVars, producerDone, run>>

\* a variant: the thread leaves at once, without the last pop
PollProducerDone_NoLastPop ==
    /\ consPc = "poll"
    /\ consPc' = IF producerDone THEN "report" ELSE "pop"
    /\ UNCHANGED <<sample, draining, sinkOpen, sinkUsable, result, file, taken, prodVars,
                   ringVars, producerDone, run>>

\* a variant: the flag is looked at, and the loop goes on
PollProducerDone_Ignored ==
    /\ consPc = "poll"
    /\ consPc' = "pop"
    /\ UNCHANGED <<sample, draining, sinkOpen, sinkUsable, result, file, taken, prodVars,
                   ringVars, producerDone, run>>

\* The outer loop: load producer_done, then either one more pop or a sleep.
PollProducerDone ==
    /\ consPc = "poll"
    /\ draining' = producerDone
    /\ consPc' = "pop"
    /\ UNCHANGED <<sample, sinkOpen, sinkUsable, result, file, taken, prodVars,
                   ringVars, producerDone, run>>

\* FinalizeSink: close is called even when flush failed.
FlushSink ==
    /\ consPc = "flush"
    /\ consPc' = "close"
    /\ result' \in {result, RememberError(result, "FLUSH")}
    /\ UNCHANGED <<sample, draining, sinkOpen, sinkUsable, file, taken, prodVars,
                   ringVars, producerDone, run>>

CloseSink ==
    /\ consPc = "close"
    /\ consPc' = "report"
    /\ result' \in {result, RememberError(result, "CLOSE")}
    /\ UNCHANGED <<sample, draining, sinkOpen, sinkUsable, file, taken, prodVars,
                   ringVars, producerDone, run>>

\* a variant: saturation drops do not make the log incomplete
Report_IgnoresDrops ==
    /\ consPc = "report"
    /\ consPc' = "exit"
    /\ result' = [result EXCEPT !.accepted = accepted, !.discarded = @ + saturationDrops]
    /\ UNCHANGED <<sample, draining, sinkOpen, sinkUsable, file, taken, prodVars,
                   ringVars, producerDone, run>>

Report ==
    /\ consPc = "report"
    /\ consPc' = "exit"
    /\ result' = [result EXCEPT
                    !.accepted = accepted,
                    !.discarded = @ + saturationDrops,
                    !.incomplete = IF result.discarded + saturationDrops # 0 THEN TRUE ELSE @]
    /\ UNCHANGED <<sample, draining, sinkOpen, sinkUsable, file, taken, prodVars,
                   ringVars, producerDone, run>>

-----------------------------------------------------------------------------
(* RunLoggingFinish, called once the simulation thread was joined: it sets *)
(* producer_done again, joins the logger thread and copies its result.     *)

FinishSignal ==
    /\ prodPc = "ended"
    /\ prodPc' = "joining"
    /\ producerDone' = (run.started \/ producerDone)
    /\ UNCHANGED <<offered, accepted, saturationDrops, published, consVars, ringVars, run>>

\* The thread was created and is joined once, by another thread: pthread_join
\* has no error to give, and RUN_LOGGING_STATUS_JOIN stays unused.
FinishJoin ==
    /\ prodPc = "joining"
    /\ run.started => consPc = "exit"
    /\ prodPc' = "finished"
    /\ run' = IF ~run.started THEN run
              ELSE [started    |-> FALSE,
                    status     |-> IF result.incomplete THEN "INCOMPLETE" ELSE run.status,
                    incomplete |-> result.incomplete]
    /\ UNCHANGED <<offered, accepted, saturationDrops, published, consVars, ringVars,
                   producerDone>>

Producer ==
    \/ PublishIgnored \/ PublishReserve \/ PublishWrite \/ PublishStoreHead
    \/ PublishCount \/ ProducerDone

Logger ==
    \/ OpenSink \/ WriteHeader \/ PopLoadHead \/ PopReadSlot \/ PopStoreTail
    \/ PersistSample \/ PollProducerDone \/ FlushSink \/ CloseSink \/ Report

Finished == prodPc = "finished" /\ UNCHANGED vars

Next == RunLoggingStart \/ Producer \/ Logger \/ FinishSignal \/ FinishJoin
        \/ Finished

Spec == Init /\ [][Next]_vars

(* The simulation thread ends when told to, the logger thread is scheduled *)
(* by the operating system and the caller of Finish waits for both.        *)
Fairness ==
    /\ WF_vars(RunLoggingStart) /\ WF_vars(ProducerDone)
    /\ WF_vars(PublishWrite) /\ WF_vars(PublishStoreHead) /\ WF_vars(PublishCount)
    /\ WF_vars(Logger) /\ WF_vars(FinishSignal) /\ WF_vars(FinishJoin)

FairSpec == Spec /\ Fairness

-----------------------------------------------------------------------------
(* Properties.                                                             *)

ProdPcs == {"setup", "idle", "write", "store", "count", "ended", "joining", "finished"}
ConsPcs == {"none", "open", "header", "pop", "read", "release", "persist", "poll",
            "flush", "close", "report", "exit"}

ResultType ==
    [accepted : Nat, persisted : Nat, discarded : Nat, last : Nat,
     incomplete : BOOLEAN, stage : Stages]

RunType ==
    [started : BOOLEAN, incomplete : BOOLEAN,
     status : {"OK", "DESCRIPTOR", "START", "INCOMPLETE"}]

TypeOK ==
    /\ slots \in [Slots -> Nat] /\ head \in Slots /\ tail \in Slots
    /\ accepted \in Nat /\ saturationDrops \in Nat /\ producerDone \in BOOLEAN
    /\ prodPc \in ProdPcs /\ offered \in Nat
    /\ consPc \in ConsPcs /\ sample \in Nat /\ draining \in BOOLEAN
    /\ sinkOpen \in BOOLEAN /\ sinkUsable \in BOOLEAN
    /\ result \in ResultType /\ run \in RunType
    /\ file \in Seq(Nat) /\ published \in Seq(Nat) /\ taken \in Nat

\* The two threads never access the same slot at the same time, although the
\* slot copies at lines 32 and 207 are not atomic: the slot being written is
\* outside the window that head and tail delimit.
NoSlotRace == prodPc = "write" /\ consPc = "read" => head # tail

\* What the consumer copied out of a slot is the oldest published sample it has
\* not yet disposed of: no overwritten, torn or repeated sample reaches the sink.
SampleIsOldest ==
    /\ consPc = "release" => taken < Len(published) /\ sample = published[taken + 1]
    /\ consPc = "persist" => taken > 0 /\ sample = published[taken]

\* The file holds a prefix of the samples that entered the ring, in order.
FileIsPrefix ==
    /\ Len(file) <= Len(published)
    /\ \A i \in 1 .. Len(file) : file[i] = published[i]

\* When the logger thread has exited, every offered sample was counted exactly
\* once, as persisted or as discarded, accepted counts the samples that entered
\* the ring, although it is incremented after they become visible, and the ring
\* is empty.
ExitAccounting ==
    consPc = "exit" =>
        /\ head = tail
        /\ result.accepted = Len(published)
        /\ result.persisted = Len(file)
        /\ result.persisted + result.discarded = offered

\* A run whose log status is OK has every sample of the simulation in its file.
OkMeansComplete ==
    prodPc = "finished" /\ run.status = "OK" =>
        Len(file) = offered /\ \A i \in 1 .. Len(file) : file[i] = i

\* Once the simulation thread has ended, the log is closed and reported: the
\* drain ends whatever the sink does.
LogGetsReported == prodPc = "ended" ~> prodPc = "finished"

InHand == IF consPc = "persist" THEN 1 ELSE 0

\* The ring, the threads and the counters together implement LogStream.
Stream == INSTANCE LogStream WITH
    Depth   <- Capacity - 1,
    offered <- IF prodPc \in {"write", "store"} THEN offered - 1 ELSE offered,
    pending <- SubSeq(published, taken + 1 - InHand, Len(published)),
    stored  <- file,
    lost    <- IF consPc = "exit" THEN result.discarded
               ELSE result.discarded + saturationDrops,
    failed  <- result.stage # "NONE",
    verdict <- IF run.status \in {"DESCRIPTOR", "START"} THEN "refused"
               ELSE IF prodPc # "finished" THEN "open"
               ELSE IF run.status = "OK" THEN "complete" ELSE "incomplete"

ImplementsLogStream == Stream!Spec

=============================================================================
