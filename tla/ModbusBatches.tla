--------------------------- MODULE ModbusBatches ---------------------------
(***************************************************************************)
(* How modbus/_device.py groups the points of a read into requests         *)
(* (_batches) and halves a request that was refused (_read_batch).  A span *)
(* stands for the points that share it.                                    *)
(***************************************************************************)
EXTENDS Integers, FiniteSets, SequencesExt

CONSTANT Limit    \* max_registers or max_bits of each table

\* _Span, with the table its points are in.
End(span) == span.start + span.count
Addresses(span) == span.start .. End(span) - 1

\* The order of (start, count).
Before(s, z) == s.start < z.start \/ (s.start = z.start /\ s.count < z.count)
Ordered(spans) ==
    [i \in 1 .. Cardinality(spans) |->
        CHOOSE s \in spans : Cardinality({z \in spans : Before(z, s)}) = i - 1]

\* The batch a span starts, and one that a span was joined to.
NewBatch(span) ==
    [kind |-> "read", table |-> span.table, start |-> span.start, end |-> End(span),
     spans |-> {span}]

Joined(batch, span) ==
    [batch EXCEPT !.end = Max({@, End(span)}), !.spans = @ \union {span}]

\* Mutant: a span is joined across a gap of one address.
JoinsAcrossGap(batch, span, limit) ==
    /\ span.start <= batch.end + 1
    /\ Max({batch.end, End(span)}) - batch.start <= limit

\* Only spans that touch or overlap are read with one request.
Joins(batch, span, limit) ==
    /\ span.start <= batch.end
    /\ Max({batch.end, End(span)}) - batch.start <= limit

\* _batches(): spans of one table in order, each joined to the last batch or starting one.
Batches(spans, limit) ==
    LET ordered == Ordered(spans)
        batches[n \in 0 .. Len(ordered)] ==
            IF n = 0 THEN << >>
            ELSE LET before == batches[n - 1] IN
                 IF before # << >> /\ Joins(Last(before), ordered[n], limit)
                 THEN [before EXCEPT ![Len(before)] = Joined(@, ordered[n])]
                 ELSE Append(before, NewBatch(ordered[n]))
    IN batches[Len(ordered)]

\* The requests of a read, table by table.
ReadRequests(spans) ==
    LET tables == {s.table : s \in spans}
        ofTable(table) == Batches({s \in spans : s.table = table}, Limit[table]) IN
    FlattenSeq([i \in 1 .. Cardinality(tables) |-> ofTable(SetToSeq(tables)[i])])

\* Mutant: the first half is read again, and the second is left out.
FirstHalf(batch) ==
    LET ordered == Ordered(batch.spans) IN
    Batches(Range(SubSeq(ordered, 1, Len(ordered) \div 2)), batch.end - batch.start)

\* _read_batch() of a request refused for an absent address.
Halves(batch) ==
    LET ordered == Ordered(batch.spans)
        middle == Len(ordered) \div 2
        part(half) == Batches(Range(half), batch.end - batch.start) IN
    part(SubSeq(ordered, 1, middle)) \o part(SubSeq(ordered, middle + 1, Len(ordered)))
=============================================================================
