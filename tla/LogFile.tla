------------------------------ MODULE LogFile ------------------------------
(***************************************************************************)
(* The binary log as a file, from the FMU's outputs to the exported CSV:   *)
(* NormalizeLogSample (rt_simulation.c), the file sink (binary_logger.c),  *)
(* the record format (log_format.c), the offer of an export by the window  *)
(* (execution_session.c) and the menu (main.c), and the converter          *)
(* (log_converter.c).                                                      *)
(*                                                                         *)
(* A file is a sequence of cells, one per field the format writes.  A run  *)
(* may lose samples to the ring, the sink may fail at any field, the       *)
(* process may be killed, and a closed file may lose its end.              *)
(*                                                                         *)
(* Integers are two's complement numbers that end at Int32Max, a byte of   *)
(* the bitmap has BitsPerByte bits, and a Real is finite, infinite or not  *)
(* a number.  A descriptor is the types of the outputs and, in fmu, all    *)
(* that identifies them: hash, XML indices, names and value references.    *)
(***************************************************************************)
EXTENDS Integers, Sequences, SequencesExt

CONSTANTS Descriptors,  \* of the FMUs and the output selections
          Int32Max,     \* INT32_MAX
          BitsPerByte,  \* 8
          MaxSamples    \* bound on the samples of a run

Types == {"Real", "Integer", "Boolean"}

ASSUME LogFileAssumption ==
    /\ \A d \in Descriptors : d.types # <<>> /\ d.types \in Seq(Types)
    /\ Int32Max \in Nat /\ BitsPerByte \in Nat \ {0} /\ MaxSamples \in Nat

VARIABLES
    loaded,     \* the descriptor of the loaded FMU and the selected outputs
    file,       \* binary_log_path: the descriptor in its header, and its cells
    writer,     \* the log of a run: "off", "header", "records", "broken"
    dropped,    \* a sample was lost to a full ring
    offered,    \* ExecutionSessionHasClosedBinaryLog, last_log_closed
    conv,       \* the converter: where it is, and what it has so far
    report,     \* the status it gave last
    csv,        \* what is at csv_path
    given,      \* history: what the FMU gave, sample after sample
    cut,        \* history: the file has lost its end since it was closed
    inputError  \* history: the last export failed to read or close the file

vars == <<loaded, file, writer, dropped, offered, conv, report, csv, given, cut,
          inputError>>

Finite == 1
Infinite == 2
NaN == 3
Int32Min == -Int32Max - 1
UInt32Max == 2 * Int32Max + 1

\* The values an FMU may give for a type, the ones out of its range included.
Raw(type) == CASE type = "Real" -> {Finite, Infinite, NaN}
               [] type = "Integer" -> (Int32Min - 1)..(Int32Max + 1)
               [] type = "Boolean" -> 0..2

RawSamples(d) == {r \in [DOMAIN d.types -> UNION {Raw(t) : t \in Types}] :
                    \A i \in DOMAIN d.types : r[i] \in Raw(d.types[i])}

InRange(type, v) == CASE type = "Real" -> v = Finite
                      [] type = "Integer" -> v \in Int32Min..Int32Max
                      [] type = "Boolean" -> v \in 0..1

\* What takes the place of a value that is out of range.
Substitute(type) == IF type = "Real" THEN NaN ELSE 0

-----------------------------------------------------------------------------
(* The format.                                                               *)

\* The values of a sample, and the outputs it marks as invalid.
NormalizeLogSample(d, raw) ==
    LET bad == {i \in DOMAIN d.types : ~InRange(d.types[i], raw[i])} IN
    [values |-> [i \in DOMAIN d.types |->
                   IF i \in bad THEN Substitute(d.types[i]) ELSE raw[i]],
     marks |-> bad]

\* A variant that forgets that no bit left over means a full byte.
QualityMask_NoFullByte(d) == Len(d.types) % BitsPerByte

\* The bits in use of the last byte of the bitmap.
QualityMask(d) == LET used == Len(d.types) % BitsPerByte IN
                  IF used = 0 THEN BitsPerByte ELSE used

QualityBytes(d) == (Len(d.types) + BitsPerByte - 1) \div BitsPerByte

BitsInUse(d) == 1..((QualityBytes(d) - 1) * BitsPerByte + QualityMask(d))

\* The bitmap of the record: LogFormatWriteRecord marks what it finds itself.
Marked(d, sample) ==
    (sample.marks \intersect BitsInUse(d))
      \union {i \in DOMAIN d.types : ~InRange(d.types[i], sample.values[i])}

\* WriteValue: an Integer goes to the file as an unsigned number.
EncodeValue(type, v, invalid) ==
    IF invalid THEN Substitute(type)
    ELSE IF type = "Integer" THEN v % (UInt32Max + 1) ELSE v

DecodeI32(bits) == IF bits <= Int32Max THEN bits ELSE bits - UInt32Max - 1

ReadValue(type, cell) == IF type = "Integer" THEN DecodeI32(cell.v) ELSE cell.v

HeaderCells(d) == [i \in 1..(1 + Len(d.types)) |-> [field |-> "header"]]

RecordCells(d, sequence, sample) ==
    <<[field |-> "sequence", v |-> sequence],
      [field |-> "quality", v |-> Marked(d, sample)]>>
    \o [i \in DOMAIN d.types |->
          [field |-> "value",
           v |-> EncodeValue(d.types[i], sample.values[i], i \in Marked(d, sample))]]

RecordSize(d) == 2 + Len(d.types)

\* A variant that takes a short read for the end of the file.
ReadBytes_ShortIsEnd(cells, pos, size) == IF Len(cells) < pos + size THEN "end" ELSE "ok"

\* Reading `size` fields: nothing at all is the end of the file, and less than
\* that a truncation.
ReadBytes(cells, pos, size) ==
    CASE Len(cells) <= pos -> "end"
      [] Len(cells) > pos /\ Len(cells) < pos + size -> "truncated"
      [] OTHER -> "ok"

Consistent(type, v, invalid) ==
    CASE type = "Real" -> v = (IF invalid THEN NaN ELSE Finite)
      [] type = "Integer" -> invalid => v = 0
      [] type = "Boolean" -> v <= 1 /\ (invalid => v = 0)

\* LogFormatReadRecord refuses what the writer never writes.
ReadRecord(d, cells, pos) ==
    LET marks == cells[pos + 2].v
        value(i) == ReadValue(d.types[i], cells[pos + 2 + i])
        status == ReadBytes(cells, pos, RecordSize(d))
    IN  IF \/ status # "ok"
           \/ /\ marks \subseteq BitsInUse(d)
              /\ \A i \in DOMAIN d.types :
                   Consistent(d.types[i], value(i), i \in marks)
        THEN status ELSE "inconsistent"

\* WriteSample: what the CSV shows of an output, and whether it is valid.
CsvRow(d, cells, pos) ==
    LET marks == cells[pos + 2].v
        value(i) == ReadValue(d.types[i], cells[pos + 2 + i])
    IN  [sequence |-> cells[pos + 1].v,
         columns |-> [i \in DOMAIN d.types |->
                        [value |-> IF i \in marks THEN Substitute(d.types[i])
                                   ELSE value(i),
                         valid |-> i \notin marks]]]

-----------------------------------------------------------------------------
(* The log of a run.                                                         *)

\* `end` is history: where the file ended when the CSV was made of it.
NoCsv == [status |-> "none", rows |-> <<>>, missing |-> 0, end |-> 0]
Idle == [at |-> "idle", pos |-> 0, rows |-> <<>>, missing |-> 0]

Init ==
    /\ loaded \in Descriptors
    /\ file = [descriptor |-> loaded, cells |-> <<>>]
    /\ writer = "off" /\ dropped = FALSE /\ offered = FALSE
    /\ conv = Idle /\ report = "none" /\ csv = NoCsv
    /\ given = <<>> /\ cut = FALSE /\ inputError = FALSE

Quiet == writer = "off" /\ conv = Idle

\* Another FMU or another selection of outputs.  The window's import forgets
\* the last result; its selection of outputs and the menu keep it.
ChangeDescriptor ==
    /\ Quiet
    /\ loaded' \in Descriptors
    /\ offered' \in {offered, FALSE}
    /\ UNCHANGED <<file, writer, dropped, conv, report, csv, given, cut, inputError>>

\* ExecutionSessionStartLogging: the last result is gone, and fopen truncates
\* the file or fails.  The export of this run goes to a path of its own.
StartRun ==
    /\ Quiet
    /\ \/ writer' = "header" /\ file' = [descriptor |-> loaded, cells |-> <<>>]
       \/ writer' = "broken" /\ UNCHANGED file
    /\ dropped' = FALSE /\ offered' = FALSE
    /\ report' = "none" /\ csv' = NoCsv
    /\ given' = <<>> /\ cut' = FALSE /\ inputError' = FALSE
    /\ UNCHANGED <<loaded, conv>>

\* The fields in turn, up to the first fwrite that fails: the sink is not used
\* again after it.
Put(cells) ==
    \E k \in 0..Len(cells) :
       /\ file' = [file EXCEPT !.cells = @ \o SubSeq(cells, 1, k)]
       /\ writer' = IF k = Len(cells) THEN "records" ELSE "broken"

WriteHeader ==
    /\ writer = "header"
    /\ Put(HeaderCells(file.descriptor))
    /\ UNCHANGED <<loaded, dropped, offered, conv, report, csv, given, cut, inputError>>

\* A step's sample: lost to a full ring, discarded by a sink that has failed
\* (the history keeps no values of these), or written.
Sample ==
    /\ writer \in {"records", "broken"}
    /\ Len(given) < MaxSamples
    /\ \/ /\ given' = Append(given, <<>>)
          /\ \/ dropped' = TRUE
             \/ writer = "broken" /\ UNCHANGED dropped
          /\ UNCHANGED <<file, writer>>
       \/ /\ writer = "records"
          /\ \E raw \in RawSamples(loaded) :
               /\ given' = Append(given, raw)
               /\ Put(RecordCells(loaded, Len(given), NormalizeLogSample(loaded, raw)))
          /\ UNCHANGED dropped
    /\ UNCHANGED <<loaded, offered, conv, report, csv, cut, inputError>>

\* A variant that forgets the samples lost to the ring.
Offered_IgnoresDrops(closed) == closed /\ writer = "records"

\* RUN_LOGGING_STATUS_OK and not incomplete.
Offered(closed) == closed /\ writer = "records" /\ ~dropped

\* FinalizeSink, RunLoggingFinish and the join: a flush or a close that fails
\* leaves only the beginning of the file.
FinishRun ==
    /\ writer \in {"records", "broken"}
    /\ writer' = "off"
    /\ \E closed \in BOOLEAN :
         /\ offered' = Offered(closed)
         /\ IF closed THEN UNCHANGED file
            ELSE \E k \in 0..Len(file.cells) :
                   file' = [file EXCEPT !.cells = SubSeq(@, 1, k)]
    /\ UNCHANGED <<loaded, dropped, conv, report, csv, given, cut, inputError>>

\* A start that fails after the log was opened leaves no result.
AbortRun ==
    /\ writer \in {"records", "broken"} /\ given = <<>>
    /\ writer' = "off"
    /\ UNCHANGED <<loaded, file, dropped, offered, conv, report, csv, given, cut, inputError>>

\* The process is killed: the next one offers no log that it has not closed.
Crash ==
    /\ writer # "off" \/ conv # Idle
    /\ writer' = "off" /\ offered' = FALSE /\ conv' = Idle
    /\ UNCHANGED <<loaded, file, dropped, report, csv, given, cut, inputError>>

\* Somebody or something else cuts the end of the closed file.  A cut inside a
\* field reads as the one just after it: fread comes back short later.
CutTail ==
    /\ Quiet /\ offered /\ ~cut
    /\ cut' = TRUE
    /\ \E k \in 0..(Len(file.cells) - 1) :
         file' = [file EXCEPT !.cells = SubSeq(@, 1, k)]
    /\ UNCHANGED <<loaded, writer, dropped, offered, conv, report, csv, given, inputError>>

-----------------------------------------------------------------------------
(* LogConverterConvert.                                                      *)

DescriptorsMatch(actual, expected) == actual = expected

\* The export ends here, with the temporary file removed and csv_path as it was.
End(status) == conv' = Idle /\ report' = status /\ UNCHANGED csv

\* LogFormatReadHeader: what the logger wrote is well formed, if it is there.
HeaderReadable == Len(file.cells) >= Len(HeaderCells(file.descriptor))

\* Up to the header of the CSV.  The binary may not open or not be read, and a
\* temporary file may not be had.
ExportBegin ==
    /\ Quiet /\ offered
    /\ \/ End("failed") /\ inputError' = FALSE
       \/ End("header") /\ inputError' = TRUE
       \/ /\ inputError' = FALSE
          /\ IF ~HeaderReadable THEN End("header")
             ELSE IF ~DescriptorsMatch(file.descriptor, loaded) THEN End("mismatch")
             ELSE /\ conv' = [Idle EXCEPT !.at = "rows",
                                          !.pos = Len(HeaderCells(file.descriptor))]
                  /\ report' = "none"
                  /\ UNCHANGED csv
    /\ UNCHANGED <<loaded, file, writer, dropped, offered, given, cut>>

ReadStatus == ReadRecord(file.descriptor, file.cells, conv.pos)
NextRow == CsvRow(file.descriptor, file.cells, conv.pos)

\* The gap before the next row: negative if the sequence does not increase.
Gap == IF conv.rows = <<>> THEN 0
       ELSE NextRow.sequence - Last(conv.rows).sequence - 1

\* fread or the fclose of the binary fails: the converter calls it structural.
InputFails == End("structural") /\ inputError' = TRUE

\* One turn of the loop.  Reading and writing may fail at any row.
ExportRow ==
    /\ conv.at = "rows" /\ ReadStatus \in {"ok", "inconsistent"}
    /\ \/ InputFails
       \/ /\ IF ReadStatus = "inconsistent" \/ Gap < 0 THEN End("structural")
             ELSE \/ End("failed")
                  \/ /\ conv' = [conv EXCEPT !.pos = @ + RecordSize(file.descriptor),
                                             !.rows = Append(@, NextRow),
                                             !.missing = @ + Gap]
                     /\ UNCHANGED <<report, csv>>
          /\ UNCHANGED inputError
    /\ UNCHANGED <<loaded, file, writer, dropped, offered, given, cut>>

\* The end of the loop: the last read, the close of both files, which may fail,
\* and the rename of the temporary file to csv_path.
ExportPublish ==
    /\ conv.at = "rows" /\ ReadStatus \in {"end", "truncated"}
    /\ LET status == IF ReadStatus = "end" THEN "ok" ELSE "partial" IN
       \/ InputFails
       \/ End("failed") /\ UNCHANGED inputError
       \/ /\ csv' = [status |-> status, rows |-> conv.rows, missing |-> conv.missing,
                     end |-> Len(file.cells)]
          /\ report' = status
          /\ conv' = Idle
          /\ UNCHANGED inputError
    /\ UNCHANGED <<loaded, file, writer, dropped, offered, given, cut>>

Next == \/ ChangeDescriptor \/ StartRun \/ WriteHeader \/ Sample \/ FinishRun
        \/ AbortRun \/ Crash \/ CutTail
        \/ ExportBegin \/ ExportRow \/ ExportPublish

Spec == Init /\ [][Next]_vars

-----------------------------------------------------------------------------
(* Properties.                                                               *)

Columns == [value : Int32Min..(Int32Max + NaN), valid : BOOLEAN]
RowOK(d, row) == /\ row.sequence \in 0..(MaxSamples - 1)
                 /\ row.columns \in [DOMAIN d.types -> Columns]
                 /\ \A i \in DOMAIN d.types : d.types[i] = "Integer"
                      => row.columns[i].value \in Int32Min..Int32Max

\* The variables have their types; a row that is read holds, for an Integer
\* output, a 32-bit number.
TypeOK ==
    /\ loaded \in Descriptors /\ file.descriptor \in Descriptors
    /\ writer \in {"off", "header", "records", "broken"}
    /\ dropped \in BOOLEAN /\ offered \in BOOLEAN /\ cut \in BOOLEAN
    /\ inputError \in BOOLEAN /\ csv.end \in Nat
    /\ conv.at \in {"idle", "rows"} /\ conv.pos \in 0..Len(file.cells)
    /\ report \in {"none", "header", "mismatch", "structural", "failed",
                   "partial", "ok"}
    /\ csv.status \in {"none", "partial", "ok"}
    /\ Len(given) <= MaxSamples
    /\ \A i \in DOMAIN conv.rows : RowOK(file.descriptor, conv.rows[i])
    /\ conv.missing \in 0..MaxSamples /\ csv.missing \in 0..MaxSamples

\* What the FMU gave in a step, as a row of the CSV should show it.
Expected(d, i) ==
    [sequence |-> i - 1,
     columns |-> [o \in DOMAIN d.types |->
                    IF InRange(d.types[o], given[i][o])
                      THEN [value |-> given[i][o], valid |-> TRUE]
                      ELSE [value |-> Substitute(d.types[o]), valid |-> FALSE]]]

\* A log that is offered for export holds a record of every step of its run,
\* unless its end was cut off after it was closed: neither a lost sample nor a
\* failed write, flush or close leaves a log that looks whole.
OfferedIsWhole ==
    (offered /\ ~cut) =>
        Len(file.cells) = Len(HeaderCells(file.descriptor))
                            + Len(given) * RecordSize(file.descriptor)

\* A CSV that is published shows the steps of the run from the first one on,
\* each with the values the FMU gave: exactly the values out of range are shown
\* as invalid.  It lacks steps only if the file was cut.  It is reported as ok if
\* the file ended after the last row's record, and as partial if and only if
\* the file ended inside the record that follows.
CsvIsFaithful ==
    csv.status # "none" =>
        LET n == Len(csv.rows)
            d == file.descriptor
            rowsEnd == Len(HeaderCells(d)) + n * RecordSize(d)
        IN  /\ n <= Len(given)
            /\ \A i \in 1..n : csv.rows[i] = Expected(d, i)
            /\ csv.missing = 0
            /\ n < Len(given) => cut
            /\ csv.status = "ok" => csv.end = rowsEnd
            /\ csv.status = "partial" => /\ cut /\ n < Len(given)
                                         /\ csv.end > rowsEnd
                                         /\ csv.end < rowsEnd + RecordSize(d)

\* The converter accepts whatever the logger writes: a log that is offered is
\* called structurally wrong only when reading or closing the file itself
\* failed, never for what is in it and wherever its end was cut off; and its
\* header is refused only if the file was cut or could not be read.
ContentNeverRefused ==
    /\ report = "structural" => inputError
    /\ report = "header" => inputError \/ cut
=============================================================================
