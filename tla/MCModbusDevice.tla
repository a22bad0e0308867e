--------------------------- MODULE MCModbusDevice ---------------------------
(***************************************************************************)
(* ModbusDevice on small units: the registers of the repository's tests    *)
(* that touch, overlap and leave a gap, and one register of two bits.      *)
(***************************************************************************)
EXTENDS ModbusDevice

CONSTANTS t1, t2, t3, unit

OneUnit == [t \in Tasks |-> unit]
Always == [u \in Units |-> "always"]
ForAWhile == [u \in Units |-> "tries"]

Span(table, start, count) == [table |-> table, start |-> start, count |-> count]
\* Spans that overlap and touch, that leave a gap, and of two tables.
Touching == {Span("holding", 0, 2), Span("holding", 1, 1), Span("holding", 2, 1)}
Apart == {Span("holding", 2, 1), Span("holding", 4, 1)}
TwoTables == {Span("holding", 1, 1), Span("input", 1, 1)}
MCLimit == [table \in {"holding", "input"} |-> 3]
AnyAbsent == {{}, {<<"holding", 0>>}, {<<"holding", 2>>, <<"holding", 4>>}}
NoneAbsent == {{}}

WriteBit(bit, on) == [op |-> "bit", address |-> 0, bit |-> bit, on |-> on]
ReadJob(spans) == [op |-> "read", spans |-> spans]
WriteJob == [op |-> "register", address |-> 0, value |-> {0}]
ConnectJob == [op |-> "connect"]
DisconnectJob == [op |-> "disconnect"]

\* Reads of several points, beside writes of a register and of its bits.
DataJobs ==
    [t \in Tasks |->
        IF t = t1 THEN {WriteBit(0, on) : on \in BOOLEAN}
        ELSE {WriteBit(1, on) : on \in BOOLEAN} \union {WriteJob} \union
             {ReadJob(s) : s \in {Touching, Apart, TwoTables}}]

\* Tasks that go on writing, and one that also connects and disconnects.
PollingJobs ==
    [t \in Tasks |->
        IF t = t1 THEN {ReadJob({Span("holding", 0, 1)}), ConnectJob, DisconnectJob}
        ELSE {WriteBit(0, t = t2)}]
=============================================================================
